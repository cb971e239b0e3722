------------------------ MODULE BoardStreamDriftProofs ------------------------
(***************************************************************************)
(* The list drifts only for a cause, and an edit is accepted blindly only  *)
(* for one: DriftInv (BoardStreamInv) is inductive.                        *)
(***************************************************************************)
EXTENDS BoardStreamInv, BoardStreamProofs

-----------------------------------------------------------------------------
(* The log and what is pending.                                            *)

LEMMA RowParts ==
  ASSUME TypeOK, NEW t \in Tasks
  PROVE  /\ row[t] \in Row /\ row[t].ver \in Nat
         /\ row[t].state \in {"absent", "live", "deleted"}
         /\ row[t].by \in [Fields -> Nat] /\ \A f \in Fields : row[t].by[f] \in Nat
  BY DEF TypeOK, Row

LEMMA EventParts ==
  ASSUME TypeOK, NEW e \in events
  PROVE  /\ e \in Event /\ e.at \in Nat /\ e.ver \in Nat /\ e.task \in Tasks /\ e.fields \subseteq Fields
         /\ e.kind \in {"edit", "delete", "restore", "create"}
  BY DEF TypeOK, Event

LEMMA Numbers ==
  ASSUME TypeOK
  PROVE  /\ clock \in Nat /\ mark \in Nat
         /\ \A x \in Edits : began[x] \in Nat
         /\ \A e \in events : e.at \in Nat /\ e.ver \in Nat /\ e.task \in Tasks
         /\ Len(wire) \in Nat /\ DOMAIN wire = 1..Len(wire) /\ wire \in Seq(Event)
  BY EventParts DEF TypeOK

\* What is pending is an event past the watermark or on the stream.
LEMMA PendingParts ==
  ASSUME TypeOK, Wired
  PROVE  /\ Pending \subseteq events /\ Untapped \subseteq Pending
         /\ \A e \in Pending : e.at > mark \/ \E i \in DOMAIN wire : e = wire[i]
         /\ \A i \in DOMAIN wire : wire[i] \in Pending
  BY DEF Pending, Untapped, Wired

\* The events a tick can still meet.
LEMMA UntappedParts ==
  ASSUME TypeOK, NEW e
  PROVE  e \in Untapped <=> e \in events /\ e.at > mark
  BY DEF Untapped

\* As long as rows, events and stream stay, the log says the same.
LEMMA LogKept ==
  ASSUME Versions, Deletions, Wired, Ordered, UNCHANGED <<row, events, mark, wire>>,
         Trusted' => Trusted \/ Pending = {}
  PROVE  Versions' /\ Deletions' /\ Wired' /\ Ordered' /\ Pending' = Pending
  <1>1. Pending' = Pending BY DEF Pending, Untapped
  <1>2. Versions' BY DEF Versions
  <1>3. Deletions' BY DEF Deletions, Structural
  <1>4. Wired' BY DEF Wired
  <1>5. Ordered' BY <1>1 DEF Ordered
  <1> QED BY <1>1, <1>2, <1>3, <1>4, <1>5

\* Transactions end.
LEMMA InstantsKept ==
  ASSUME TypeOK, Instants, UNCHANGED <<clock, events, mark>>,
         \A x \in Edits : began'[x] \in {0, began[x]}
  PROVE  Instants'
  BY Numbers DEF Instants

LEMMA BeginLog ==
  ASSUME TypeOK, LogInv, NEW x \in Edits, Begin(x)
  PROVE  LogInv' /\ Pending' = Pending
  <1>1. UNCHANGED <<row, events, mark, wire>> BY DEF Begin, client
  <1>2. Trusted' => Trusted BY DEF Begin, NoMishap, Notes, Trusted
  <1>3. Versions' /\ Deletions' /\ Wired' /\ Ordered' /\ Pending' = Pending
    BY <1>1, <1>2, LogKept DEF LogInv
  <1>4. clock' = clock + 1 /\ began' = [began EXCEPT ![x] = clock + 1] BY DEF Begin
  <1>5. began \in [Edits -> Nat] BY DEF TypeOK
  <1>6. Instants' BY <1>1, <1>4, <1>5, Numbers DEF LogInv, Instants
  <1> QED BY <1>3, <1>6 DEF LogInv

\* One more event, of the next version of its task.
Published(x, t, kind, fs) ==
    [at |-> began[x], task |-> t, kind |-> kind, ver |-> row[t].ver + 1, fields |-> fs]

\* What a commit does to the rows and events.
LEMMA PublishParts ==
  ASSUME TypeOK, LogInv, NEW x \in Edits, NEW t \in Tasks, NEW fs \in SUBSET Fields,
         NEW kind \in {"edit", "delete", "restore", "create"}, Publishes(x, t, kind, fs)
  PROVE  /\ events' = events \cup {Published(x, t, kind, fs)}
         /\ \A u \in Tasks : u # t => row'[u] = row[u]
         /\ row'[t] = Edited(row[t], kind, fs)
         /\ row'[t].ver = row[t].ver + 1
         /\ row'[t].state = IF kind = "delete" THEN "deleted" ELSE "live"
         /\ \A g \in Fields : row'[t].by[g] = IF kind = "create" \/ (kind = "edit" /\ g \in fs)
                                               THEN row[t].ver + 1 ELSE row[t].by[g]
         /\ kind = "create" => row[t].ver = 0 /\ row[t].state = "absent"
         /\ kind \in {"edit", "delete"} => row[t].state = "live"
         /\ kind = "restore" => row[t].state = "deleted"
         /\ kind = "edit" => fs # {}
         /\ \A e \in events : e.at # began[x]
         /\ Trusted' => Trusted
         /\ Trusted' \/ cause' = {} => /\ began[x] > mark
                     /\ \A e \in events : e.task = t => e.at < began[x]
         /\ UNCHANGED <<mark, wire, clock, fetch, loaded, list, upset, patched, skipped>>
         /\ began' = [began EXCEPT ![x] = 0] /\ began[x] # 0
         /\ cause' = {} => cause = {}
  <1>1. row' = [row EXCEPT ![t] = Edited(row[t], kind, fs)] /\ row \in [Tasks -> Row]
    BY DEF Publishes, TypeOK
  <1>2. row'[t] = Edited(row[t], kind, fs) /\ \A u \in Tasks : u # t => row'[u] = row[u]
    BY <1>1
  <1>3. kind = "create" => row[t].ver = 0 /\ row[t].state = "absent"
    BY DEF Publishes, Possible, LogInv, Versions
  <1>4. row[t].by \in [Fields -> Nat] /\ row[t].ver \in Nat BY RowParts
  <1>5. row'[t].ver = row[t].ver + 1 BY <1>2, <1>3 DEF Edited, First
  <1>6. row'[t].state = IF kind = "delete" THEN "deleted" ELSE "live"
    BY <1>2 DEF Edited, First
  <1>16. kind = "edit" <=> fs # {} BY DEF Publishes
  <1>7. \A g \in Fields : row'[t].by[g] = IF kind = "create" \/ (kind = "edit" /\ g \in fs)
                                          THEN row[t].ver + 1 ELSE row[t].by[g]
    BY <1>2, <1>3, <1>4, <1>16 DEF Edited, First
  <1>8. \A e \in events : e.at # began[x] BY DEF LogInv, Instants
  <1>9. events' = events \cup {Published(x, t, kind, fs)}
    BY <1>5 DEF Publishes, Published
  <1>10. Trusted' \/ cause' = {} =>
           ~(began[x] <= mark) /\ ~(\E e \in events : e.task = t /\ e.at > began[x])
    BY DEF Publishes, Notes, Trusted
  <1>11. \A e \in events : e.task = t /\ ~(e.at > began[x]) => e.at < began[x]
    BY <1>8, Numbers
  <1>12. Trusted' \/ cause' = {} => /\ began[x] > mark
                     /\ \A e \in events : e.task = t => e.at < began[x]
    BY <1>10, <1>11, Numbers
  <1>13. (Trusted' => Trusted) /\ (cause' = {} => cause = {}) BY DEF Publishes, Notes, Trusted
  <1>14. kind \in {"edit", "delete"} => row[t].state = "live" BY DEF Publishes, Possible
  <1>15. kind = "restore" => row[t].state = "deleted" BY DEF Publishes, Possible
  <1> QED BY <1>2, <1>3, <1>5, <1>6, <1>7, <1>8, <1>9, <1>12, <1>13, <1>14, <1>15, <1>16 DEF Publishes

LEMMA PublishLog ==
  ASSUME TypeOK, LogInv, NEW x \in Edits, NEW t \in Tasks, NEW fs \in SUBSET Fields,
         NEW kind \in {"edit", "delete", "restore", "create"}, Publishes(x, t, kind, fs)
  PROVE  LogInv' /\ Pending \subseteq Pending' /\ Pending' \subseteq Pending \cup {Published(x, t, kind, fs)}
         /\ (Trusted' \/ cause' = {} => Published(x, t, kind, fs) \in Pending')
  <1> DEFINE p == Published(x, t, kind, fs)
  <1>1. /\ p.at = began[x] /\ p.task = t /\ p.kind = kind /\ p.ver = row[t].ver + 1 /\ p.fields = fs
    BY DEF Published
  <1>2. /\ events' = events \cup {p}
        /\ row'[t].ver = row[t].ver + 1
        /\ \A u \in Tasks : u # t => row'[u] = row[u]
        /\ UNCHANGED <<mark, wire, clock>>
    BY PublishParts
  <1>3. row[t].ver \in Nat /\ mark \in Nat /\ began[x] \in Nat BY Numbers, RowParts
  <1> HIDE DEF p
  <1>4. Untapped' = Untapped \cup {e \in {p} : e.at > mark} BY <1>2 DEF Untapped
  <1>5. Pending \subseteq Pending' /\ Pending' \subseteq Pending \cup {p}
    BY <1>2, <1>4 DEF Pending
  <1>6. Trusted' \/ cause' = {} => p \in Pending'
    BY <1>1, <1>2, <1>4, PublishParts DEF Pending
  <1>7. \A e \in events : e.task = t => e.ver < p.ver
    BY <1>1, <1>3, Numbers DEF LogInv, Versions
  <1>8. Instants'
    <2>1. began' = [began EXCEPT ![x] = 0] /\ began \in [Edits -> Nat] /\ began[x] # 0
      BY PublishParts DEF TypeOK
    <2>2. \A y \in Edits : began'[y] = IF y = x THEN 0 ELSE began[y] BY <2>1
    <2>3. \A y \in Edits : began'[y] # p.at BY <1>1, <1>3, <2>1, <2>2 DEF LogInv, Instants
    <2>4. \A e \in events : e.at # p.at BY <1>1 DEF LogInv, Instants
    <2>5. 0 < p.at /\ p.at <= clock BY <1>1, <1>3, <2>1 DEF LogInv, Instants
    <2> QED BY <1>2, <2>2, <2>3, <2>4, <2>5, Numbers DEF LogInv, Instants
  <1>9. Versions'
    <2>1. \A u \in Tasks : row'[u].state = "absent" <=> row'[u].ver = 0
      BY <1>2, <1>3, PublishParts DEF LogInv, Versions
    <2>2. \A u \in Tasks : row'[u].ver > 1 => \E e \in events' : e.task = u /\ e.ver = row'[u].ver
      BY <1>1, <1>2 DEF LogInv, Versions
    <2>3. ASSUME NEW u \in Tasks, NEW g \in Fields
          PROVE  /\ row'[u].by[g] <= row'[u].ver /\ (row'[u].ver > 0 => row'[u].by[g] > 0)
                 /\ row'[u].by[g] > 1 => \E e \in events' : /\ e.task = u /\ e.kind = "edit"
                                                           /\ g \in e.fields /\ e.ver = row'[u].by[g]
      <3>0. row[u].by[g] \in Nat /\ row[u].ver \in Nat BY RowParts
      <3>1. CASE u # t BY <1>2, <3>1 DEF LogInv, Versions
      <3>2. CASE u = t /\ kind = "edit" /\ g \in fs
        <4>1. row'[u].by[g] = p.ver BY <1>1, <3>2, PublishParts
        <4> QED BY <1>1, <1>2, <1>3, <3>2, <4>1
      <3>3. CASE u = t /\ kind = "create"
        <4>1. row'[u].by[g] = 1 /\ row'[u].ver = 1 BY <3>3, PublishParts
        <4> QED BY <4>1
      <3>4. CASE u = t /\ kind # "create" /\ ~(kind = "edit" /\ g \in fs)
        <4>1. row'[u].by[g] = row[u].by[g] BY <3>4, PublishParts
        <4>2. row[t].ver # 0 BY <3>4, PublishParts DEF LogInv, Versions
        <4> QED BY <1>2, <3>0, <3>4, <4>1, <4>2 DEF LogInv, Versions
      <3> QED BY <3>1, <3>2, <3>3, <3>4
    <2>4. \A e \in events' : 0 < e.ver /\ e.ver <= row'[e.task].ver
      <3>1. \A e \in events : e.task # t => row'[e.task] = row[e.task] BY <1>2, Numbers
      <3> QED BY <1>1, <1>2, <1>3, <1>7, <3>1, Numbers DEF LogInv, Versions
    <2>5. \A e, g \in events' : e.task = g.task /\ e.ver = g.ver => e = g
      BY <1>1, <1>2, <1>7, Numbers DEF LogInv, Versions
    <2>6. ASSUME NEW e \in events', e.kind = "edit"
          PROVE  e.fields # {} /\ \A g \in e.fields : e.ver <= row'[e.task].by[g]
      <3>1. CASE e = p BY <1>1, <1>3, <2>6, <3>1, PublishParts
      <3>2. CASE e \in events /\ e.task # t
        BY <1>2, <2>6, <3>2, Numbers DEF LogInv, Versions
      <3>3. CASE e \in events /\ e.task = t
        <4>1. e.fields \subseteq Fields /\ e.ver \in Nat BY <3>3, EventParts
        <4>2. \A g \in e.fields : row[t].by[g] \in Nat BY <4>1, RowParts
        <4>3. /\ e.fields # {} /\ e.ver <= row[t].ver
              /\ \A g \in e.fields : e.ver <= row[t].by[g]
          BY <2>6, <3>3 DEF LogInv, Versions
        <4> QED BY <1>3, <3>3, <4>1, <4>2, <4>3, PublishParts
      <3> QED BY <1>2, <3>1, <3>2, <3>3
    <2>7. \A e \in events' : e.kind = "create" => e.ver = 1
      BY <1>1, <1>2, PublishParts DEF LogInv, Versions
    <2> QED BY <2>1, <2>2, <2>3, <2>4, <2>5, <2>6, <2>7 DEF Versions
  <1>10. Deletions'
    <2>1. ASSUME NEW e \in events', Structural(e)
          PROVE  \/ (e.kind # "delete") <=> (row'[e.task].state = "live")
                 \/ \E g \in events' : g.task = e.task /\ Structural(g) /\ g.ver > e.ver
      <3>1. CASE e = p BY <1>1, <2>1, <3>1, PublishParts DEF Structural
      <3>2. CASE e \in events /\ e.task # t
        BY <1>2, <2>1, <3>2, Numbers DEF LogInv, Deletions
      <3>3. CASE e \in events /\ e.task = t /\ kind # "edit"
        <4>1. Structural(p) /\ p.ver > e.ver
          BY <1>1, <1>3, <1>7, <3>3, Numbers DEF Structural
        <4> QED BY <1>1, <1>2, <3>3, <4>1
      <3>4. CASE e \in events /\ e.task = t /\ kind = "edit"
        <4>1. row'[t].state = row[t].state BY <3>4, PublishParts
        <4> QED BY <1>2, <2>1, <3>4, <4>1 DEF LogInv, Deletions
      <3> QED BY <1>2, <3>1, <3>2, <3>3, <3>4
    <2>2. ASSUME NEW u \in Tasks, row'[u].state = "deleted"
          PROVE  \E d \in events' : d.task = u /\ d.kind = "delete" /\ d.ver = row'[u].ver
      <3>1. CASE u # t BY <1>2, <2>2, <3>1 DEF LogInv, Deletions
      <3>2. CASE u = t
        <4>1. kind = "delete" BY <2>2, <3>2, PublishParts
        <4> QED BY <1>1, <1>2, <3>2, <4>1
      <3> QED BY <3>1, <3>2
    <2>3. ASSUME NEW e \in events', e.kind = "restore"
          PROVE  \E d \in events' : d.task = e.task /\ d.kind = "delete" /\ d.ver + 1 = e.ver
      <3>1. CASE e \in events BY <1>2, <2>3, <3>1 DEF LogInv, Deletions
      <3>2. CASE e = p
        <4>1. row[t].state = "deleted" BY <1>1, <2>3, <3>2, PublishParts
        <4>2. PICK d \in events : d.task = t /\ d.kind = "delete" /\ d.ver = row[t].ver
          BY <4>1 DEF LogInv, Deletions
        <4> QED BY <1>1, <1>2, <3>2, <4>2
      <3> QED BY <1>2, <3>1, <3>2
    <2> QED BY <2>1, <2>2, <2>3 DEF Deletions
  <1>11. Wired' BY <1>2 DEF LogInv, Wired
  <1>12. Ordered'
    <2>1. SUFFICES ASSUME Trusted', NEW e \in Pending', NEW g \in events',
                          e.task = g.task, e.ver < g.ver
                   PROVE  e.at < g.at /\ g \in Pending'
      BY DEF Ordered
    <2>2. Trusted /\ p \in Pending' BY <1>6, <2>1, PublishParts
    <2>3. e # p
      <3>1. SUFFICES ASSUME e = p PROVE FALSE OBVIOUS
      <3>2. g \in events \/ g = p BY <1>2, <2>1
      <3> QED BY <1>1, <1>3, <1>7, <2>1, <3>1, <3>2, Numbers
    <2>4. e \in Pending /\ e \in events BY <1>5, <2>3, PendingParts DEF LogInv
    <2>5. CASE g \in events BY <1>5, <2>1, <2>2, <2>4, <2>5 DEF LogInv, Ordered
    <2>6. CASE g = p BY <1>1, <2>1, <2>2, <2>4, <2>6, PublishParts
    <2> QED BY <1>2, <2>5, <2>6
  <1> QED BY <1>5, <1>6, <1>8, <1>9, <1>10, <1>11, <1>12 DEF LogInv, p

\* The stream takes the earliest event that was not tapped; to whom it is closed, it
\* is lost.
LEMMA TapLog ==
  ASSUME TypeOK, LogInv, Tap
  PROVE  /\ LogInv' /\ UNCHANGED <<row, events>> /\ (Trusted' => Trusted)
         /\ cause' = {} \/ Trusted' => Pending' = Pending
  <1>1. PICK e \in Untapped :
           /\ \A g \in Untapped : e.at <= g.at
           /\ mark' = e.at
           /\ wire' = IF stream = "open" THEN Append(wire, e) ELSE wire
    BY DEF Tap
  <1>2. UNCHANGED <<row, events, clock, began>> BY DEF Tap, server
  <1>3. e \in events /\ e.at > mark /\ e.at \in Nat /\ mark \in Nat
    BY UntappedParts, Numbers
  <1>4. Instants' BY <1>1, <1>2, <1>3 DEF LogInv, Instants
  <1>5. Versions' /\ Deletions'
    BY <1>2 DEF LogInv, Versions, Deletions, Structural
  <1>6. wire \in Seq(Event) /\ Len(wire) \in Nat BY Numbers
  <1>7. Wired'
    <2>1. CASE stream = "open"
      <3>1. wire' = Append(wire, e) BY <1>1, <2>1
      <3>2. DOMAIN wire' = 1..(Len(wire) + 1)
            /\ \A i \in DOMAIN wire' : wire'[i] = IF i \in 1..Len(wire) THEN wire[i] ELSE e
        BY <1>6, <3>1
      <3>3. DOMAIN wire = 1..Len(wire) BY Numbers
      <3>4. \A i \in DOMAIN wire : wire[i] \in events /\ wire[i].at <= mark /\ wire[i].at \in Nat
        BY Numbers DEF LogInv, Wired
      <3>5. \A i, j \in DOMAIN wire : i < j => wire[i].at < wire[j].at BY DEF LogInv, Wired
      <3>6. ASSUME NEW i \in DOMAIN wire' PROVE wire'[i] \in events' /\ wire'[i].at <= mark'
        BY <1>1, <1>2, <1>3, <3>2, <3>3, <3>4
      <3>7. ASSUME NEW i \in DOMAIN wire', NEW j \in DOMAIN wire', i < j
            PROVE  wire'[i].at < wire'[j].at
        BY <1>1, <1>3, <1>6, <3>2, <3>3, <3>4, <3>5, <3>7
      <3> QED BY <3>6, <3>7 DEF Wired
    <2>2. CASE stream # "open"
      <3>1. wire' = wire BY <1>1, <2>2
      <3>2. \A i \in DOMAIN wire : wire[i] \in events /\ wire[i].at <= mark /\ wire[i].at \in Nat
        BY Numbers DEF LogInv, Wired
      <3> QED BY <1>1, <1>2, <1>3, <3>1, <3>2 DEF LogInv, Wired
    <2> QED BY <2>1, <2>2
  <1>8. stream # "open" => ~Trusted' /\ cause' # {} BY DEF Tap, Notes, Trusted
  <1>9. stream = "open" => Pending' = Pending
    <2>1. SUFFICES ASSUME stream = "open" PROVE Pending' = Pending OBVIOUS
    <2>2. wire' = Append(wire, e) BY <1>1, <2>1
    <2>3. {wire'[i] : i \in DOMAIN wire'} = {wire[i] : i \in DOMAIN wire} \cup {e}
      <3>1. DOMAIN wire = 1..Len(wire) BY Numbers
      <3>2. DOMAIN wire' = 1..(Len(wire) + 1)
            /\ \A i \in DOMAIN wire' : wire'[i] = IF i \in 1..Len(wire) THEN wire[i] ELSE e
        BY <1>6, <2>2
      <3>3. Len(wire) + 1 \in DOMAIN wire' /\ Len(wire) + 1 \notin DOMAIN wire
        BY <1>6, <3>1, <3>2
      <3> QED BY <1>6, <3>1, <3>2, <3>3
    <2>4. \A g \in events : g.at > mark <=> g = e \/ g.at > mark'
      BY <1>1, <1>3, Numbers, UntappedParts DEF LogInv, Instants
    <2>5. \A g : g \in Untapped <=> g = e \/ g \in Untapped'
      BY <1>2, <1>3, <2>4, UntappedParts DEF Untapped
    <2> QED BY <2>3, <2>5 DEF Pending
  <1>10. Ordered'
    BY <1>2, <1>8, <1>9 DEF LogInv, Ordered, Trusted, Tap, Notes
  <1>11. Trusted' => Trusted BY DEF Tap, Notes, Trusted
  <1> QED BY <1>2, <1>4, <1>5, <1>7, <1>8, <1>9, <1>10, <1>11 DEF LogInv

\* A stream breaks: what was on it is lost, and so is what the tap had not met yet when
\* its process restarts.
LEMMA BreakLog ==
  ASSUME TypeOK, LogInv, Disconnect \/ Restart
  PROVE  /\ LogInv' /\ UNCHANGED <<row, events>> /\ (Trusted' => Trusted)
         /\ cause' = {} \/ Trusted' => Pending' = Pending
  <1>1. UNCHANGED <<row, events, clock>> /\ wire' = << >>
    BY DEF Disconnect, Restart, server
  <1>2. \A x \in Edits : began'[x] \in {0, began[x]} BY DEF Disconnect, Restart, server
  <1>3. Versions' /\ Deletions' BY <1>1 DEF LogInv, Versions, Deletions, Structural
  <1>4. Wired' BY <1>1 DEF Wired
  <1>5. /\ mark' = 0 \/ \E e \in events : e.at = mark'
        /\ mark' = mark \/ \A e \in events : e.at <= mark'
    BY DEF Disconnect, Restart, server, LogInv, Instants
  <1>6. Instants' BY <1>1, <1>2, <1>5, Numbers DEF LogInv, Instants
  <1>7. mark' \in Nat BY <1>5, Numbers
  <1>8. cause' = {} \/ Trusted' => Pending' = Pending /\ (Trusted' => Trusted)
    <2>1. SUFFICES ASSUME cause' = {} \/ Trusted' PROVE Pending' = Pending /\ (Trusted' => Trusted)
      OBVIOUS
    <2>2. wire = << >> BY <2>1 DEF Disconnect, Restart, Notes, Trusted
    <2>3. CASE Disconnect
      <3>1. mark' = mark BY <2>3 DEF Disconnect
      <3> QED BY <1>1, <2>2, <2>3, <3>1 DEF Pending, Untapped, Disconnect, Notes, Trusted
    <2>4. CASE Restart
      <3>1. Untapped = {} BY <2>1, <2>4 DEF Restart, Notes, Trusted
      <3>2. \A e \in events : e.at <= mark' BY <2>4 DEF Restart
      <3>3. Untapped' = {} BY <1>1, <1>7, <3>2, Numbers DEF Untapped
      <3>4. Pending' = Pending BY <1>1, <2>2, <3>1, <3>3 DEF Pending
      <3>5. Trusted' => Trusted
        <4>1. cause' = cause \cup {} /\ calm' = (calm /\ {} = {})
          BY <2>2, <2>4, <3>1 DEF Restart, Notes
        <4> QED BY <4>1 DEF Trusted
      <3> QED BY <3>4, <3>5
    <2> QED BY <2>3, <2>4
  <1>9. Ordered' BY <1>1, <1>8 DEF LogInv, Ordered
  <1> QED BY <1>1, <1>3, <1>4, <1>6, <1>8, <1>9 DEF LogInv

\* The event that is received was the first of all that are pending.
LEMMA ReceiveLog ==
  ASSUME TypeOK, LogInv, Receive
  PROVE  LET e == Head(wire) IN
         /\ LogInv' /\ UNCHANGED <<row, events>>
         /\ e \in Pending /\ e \in events
         /\ Pending' = Pending \ {e}
         /\ \A g \in Pending \ {e} : e.at < g.at
  <1> DEFINE e == Head(wire)
  <1>1. UNCHANGED <<row, events, clock, began, mark>> /\ wire # << >> /\ wire' = Tail(wire)
    BY DEF Receive, server
  <1>2. /\ wire \in Seq(Event) /\ Len(wire) \in Nat /\ DOMAIN wire = 1..Len(wire) /\ mark \in Nat
        /\ \A g \in events : g.at \in Nat
    BY Numbers
  <1>3. e = wire[1] /\ 1 \in DOMAIN wire /\ Len(wire) > 0 BY <1>1, <1>2
  <1>4. DOMAIN wire' = 1..(Len(wire) - 1) /\ \A i \in DOMAIN wire' : wire'[i] = wire[i + 1]
    BY <1>1, <1>2
  <1>5. \A i \in DOMAIN wire : wire[i] \in events /\ wire[i].at <= mark BY DEF LogInv, Wired
  <1>6. \A i, j \in DOMAIN wire : i < j => wire[i].at < wire[j].at BY DEF LogInv, Wired
  <1>7. e \in events /\ e.at \in Nat /\ e.at <= mark /\ e \in Pending
    BY <1>2, <1>3, <1>5 DEF Pending
  <1> HIDE DEF e
  <1>8. ASSUME NEW g \in Pending, g # e PROVE e.at < g.at
    <2>1. CASE g.at > mark
      <3>1. g \in events BY PendingParts DEF LogInv
      <3> QED BY <1>2, <1>7, <2>1, <3>1
    <2>2. CASE \E i \in DOMAIN wire : g = wire[i]
      <3>1. PICK i \in DOMAIN wire : g = wire[i] BY <2>2
      <3>2. i # 1 BY <1>3, <1>8, <3>1
      <3>3. 1 < i BY <1>2, <3>2
      <3> QED BY <1>3, <1>6, <3>1, <3>3
    <2> QED BY <1>8, <2>1, <2>2, PendingParts DEF LogInv
  <1>9. Untapped' = Untapped BY <1>1 DEF Untapped
  <1>10. e \notin Untapped BY <1>2, <1>7, UntappedParts
  <1>11. {wire'[i] : i \in DOMAIN wire'} = {wire[i] : i \in DOMAIN wire} \ {e}
    <2>1. ASSUME NEW i \in DOMAIN wire' PROVE wire'[i] \in {wire[j] : j \in DOMAIN wire} \ {e}
      <3>1. i + 1 \in DOMAIN wire /\ 1 < i + 1 BY <1>2, <1>4
      <3>2. wire'[i] = wire[i + 1] BY <1>4
      <3>3. wire[1].at < wire[i + 1].at /\ wire[i + 1].at \in Nat
        BY <1>2, <1>3, <1>5, <1>6, <3>1
      <3> QED BY <1>3, <1>7, <3>1, <3>2, <3>3
    <2>2. ASSUME NEW j \in DOMAIN wire, wire[j] # e PROVE wire[j] \in {wire'[i] : i \in DOMAIN wire'}
      <3>1. j # 1 BY <1>3, <2>2
      <3>2. j - 1 \in DOMAIN wire' /\ (j - 1) + 1 = j BY <1>2, <1>4, <3>1
      <3> QED BY <1>4, <3>2
    <2> QED BY <2>1, <2>2
  <1>12. Pending' = Pending \ {e} BY <1>9, <1>10, <1>11 DEF Pending
  <1>13. Instants' /\ Versions' /\ Deletions'
    BY <1>1 DEF LogInv, Instants, Versions, Deletions, Structural
  <1>14. Wired'
    <2>1. \A i \in DOMAIN wire' : i + 1 \in DOMAIN wire BY <1>2, <1>4
    <2>2. \A i, j \in DOMAIN wire' : i < j => i + 1 < j + 1 BY <1>2, <1>4
    <2> QED BY <1>1, <1>4, <1>5, <1>6, <2>1, <2>2 DEF Wired
  <1>15. Ordered'
    <2>1. SUFFICES ASSUME Trusted', NEW h \in Pending', NEW g \in events,
                          h.task = g.task, h.ver < g.ver
                   PROVE  h.at < g.at /\ g \in Pending'
      BY <1>1 DEF Ordered
    <2>2. Trusted BY <2>1 DEF Receive, Notes, Trusted
    <2>3. h.at < g.at /\ g \in Pending BY <1>12, <2>1, <2>2 DEF LogInv, Ordered
    <2>4. e.at < h.at /\ h.at \in Nat /\ g.at \in Nat
      BY <1>2, <1>8, <1>12, <2>1, PendingParts DEF LogInv
    <2>5. g # e BY <1>7, <2>3, <2>4
    <2> QED BY <1>12, <2>3, <2>5
  <1> QED BY <1>1, <1>7, <1>8, <1>12, <1>13, <1>14, <1>15 DEF LogInv, e

\* The other steps leave the rows, the events and what is pending alone.
OtherStep ==
    \/ \E m \in Mutations : RefuseMine(m) \/ LoseMine(m) \/ Succeed(m) \/ Fail(m)
    \/ \E m \in Mutations, t \in Tasks, fs \in SUBSET Folded, kind \in {"edit", "delete"} :
          Mutate(m, t, kind, fs)
    \/ Connect \/ Focus \/ AnswerFetch \/ LandFetch

LEMMA OtherLog ==
  ASSUME TypeOK, LogInv, OtherStep
  PROVE  /\ LogInv' /\ UNCHANGED <<row, events, mark, wire>> /\ Pending' = Pending
         /\ Trusted' => Trusted \/ AnswerFetch
  <1>1. /\ UNCHANGED <<row, events, clock, mark, wire>>
        /\ \A x \in Edits : began'[x] \in {0, began[x]}
    <2>1. ASSUME NEW m \in Mutations, RefuseMine(m)
          PROVE  /\ UNCHANGED <<row, events, clock, mark, wire>>
                 /\ \A x \in Edits : began'[x] \in {0, began[x]}
      <3>1. began' = [began EXCEPT ![m] = 0] /\ began \in [Edits -> Nat]
        BY <2>1 DEF RefuseMine, TypeOK
      <3> QED BY <2>1, <3>1 DEF RefuseMine
    <2> QED BY <2>1 DEF OtherStep, LoseMine, Succeed, Fail, Mutate, Connect, Focus,
                        AnswerFetch, LandFetch, server
  <1>2. Instants' BY <1>1, InstantsKept DEF LogInv
  <1>3. Trusted' => Trusted \/ (AnswerFetch /\ Pending = {})
    <2>1. CASE AnswerFetch
      <3>1. Untapped = {} /\ wire = << >> => Pending = {} BY DEF Pending
      <3>2. cause' = cause /\ (calm' => Untapped = {} /\ wire = << >>)
        BY <2>1 DEF AnswerFetch
      <3> QED BY <2>1, <3>1, <3>2 DEF Trusted
    <2>2. CASE LandFetch BY <2>2 DEF LandFetch, Trusted
    <2>3. CASE \E c : Notes(c) BY <2>3 DEF Notes, Trusted
    <2>4. LandFetch \/ AnswerFetch \/ \E c : Notes(c)
      BY DEF OtherStep, RefuseMine, LoseMine, Succeed, Fail, Mutate, Connect, Focus, NoMishap
    <2> QED BY <2>1, <2>2, <2>3, <2>4
  <1>4. Versions' /\ Deletions' /\ Wired' /\ Ordered' /\ Pending' = Pending
    BY <1>1, <1>3, LogKept DEF LogInv
  <1> QED BY <1>1, <1>2, <1>3, <1>4 DEF LogInv

-----------------------------------------------------------------------------
(* Copies of rows.                                                         *)

LEMMA AsOfKept ==
  ASSUME UNCHANGED <<row, events>>
  PROVE  \A r, t : AsOf(r, t) => AsOf(r, t)'
  BY DEF AsOf, Structural

\* A row is as it is.
LEMMA AsOfNow ==
  ASSUME TypeOK, Versions, NEW t \in Tasks
  PROVE  AsOf(row[t], t) /\ NewsPast(t, row[t].ver)
  <1>1. row[t].ver \in Nat /\ \A f \in Fields : row[t].by[f] \in Nat BY RowParts
  <1>2. row[t].state = "live" => 0 < row[t].ver BY <1>1 DEF Versions
  <1>3. AsOf(row[t], t) BY <1>1, <1>2 DEF AsOf, Versions
  <1>4. NewsPast(t, row[t].ver) BY <1>1, Numbers DEF NewsPast, Versions
  <1> QED BY <1>3, <1>4

\* What was a row of the past stays one.
LEMMA AsOfPublish ==
  ASSUME TypeOK, LogInv, NEW x \in Edits, NEW t \in Tasks, NEW fs \in SUBSET Fields,
         NEW kind \in {"edit", "delete", "restore", "create"}, Publishes(x, t, kind, fs),
         NEW r \in Row, NEW u \in Tasks, AsOf(r, u)
  PROVE  AsOf(r, u)'
  <1> DEFINE p == Published(x, t, kind, fs)
  <1>1. /\ events' = events \cup {p}
        /\ \A w \in Tasks : w # t => row'[w] = row[w]
        /\ row'[t].ver = row[t].ver + 1
    BY PublishParts
  <1>2. p.task = t /\ p.kind = kind /\ p.ver = row[t].ver + 1 BY DEF Published
  <1> HIDE DEF p
  <1>3. CASE u # t BY <1>1, <1>3 DEF AsOf
  <1>4. CASE u = t
    <2>1. /\ row[t].ver \in Nat /\ r.ver \in Nat
          /\ \A g \in Fields : row[t].by[g] \in Nat /\ r.by[g] \in Nat
      BY RowParts DEF Row
    <2>2. r.ver <= row[t].ver BY <1>4 DEF AsOf
    <2>3. r.ver <= row'[t].ver /\ r.ver # row'[t].ver BY <1>1, <2>1, <2>2
    <2>4. \A g \in Fields : row'[t].by[g] <= r.ver => r.by[g] = row'[t].by[g]
      <3>1. \A g \in Fields : row'[t].by[g] \in {row[t].by[g], row[t].ver + 1}
        BY PublishParts
      <3> QED BY <1>4, <2>1, <2>2, <3>1 DEF AsOf
    <2>5. \/ (r.state = "live") <=> (row'[t].state = "live")
          \/ \E g \in events' : g.task = t /\ Structural(g) /\ g.ver > r.ver
      <3>1. CASE kind = "edit"
        <4>1. row'[t].state = row[t].state BY <3>1, PublishParts
        <4> QED BY <1>1, <1>4, <4>1 DEF AsOf
      <3>2. CASE kind # "edit"
        <4>1. Structural(p) /\ p.ver > r.ver BY <1>2, <2>1, <2>2, <3>2 DEF Structural
        <4> QED BY <1>1, <1>2, <4>1
      <3> QED BY <3>1, <3>2
    <2> QED BY <1>4, <2>3, <2>4, <2>5 DEF AsOf, Structural
  <1> QED BY <1>3, <1>4

\* A commit keeps what is on its way on its way.
LEMMA NewsPastPublish ==
  ASSUME TypeOK, LogInv, NEW x \in Edits, NEW t \in Tasks, NEW fs \in SUBSET Fields,
         NEW kind \in {"edit", "delete", "restore", "create"}, Publishes(x, t, kind, fs),
         Trusted' \/ cause' = {}
  PROVE  \A u, v : NewsPast(u, v) => NewsPast(u, v)'
  <1>1. events' = events \cup {Published(x, t, kind, fs)} BY PublishParts
  <1>2. Pending \subseteq Pending' /\ Published(x, t, kind, fs) \in Pending' BY PublishLog
  <1> QED BY <1>1, <1>2 DEF NewsPast

-----------------------------------------------------------------------------
(* The user's edits.                                                       *)

SameEdit(n) ==
    /\ mut'[n].task = mut[n].task /\ mut'[n].kind = mut[n].kind /\ mut'[n].fields = mut[n].fields
    /\ mut'[n].expected = mut[n].expected /\ mut'[n].ledger = mut[n].ledger
    /\ mut'[n].doubt = mut[n].doubt /\ mut'[n].missed = mut[n].missed

\* An edit stays as it is, or is refused or lost.
Onward(n) ==
    \/ mut'[n] = mut[n]
    \/ /\ SameEdit(n) /\ mut[n].pc \in {"sent", "ok", "conflict"}
       /\ \/ mut'[n].pc = "lost"
          \/ /\ mut'[n].pc = "conflict" /\ mut'[n].answer = row[mut[n].task]
             /\ row[mut[n].task].state = "live"

LEMMA AnsweredEffect ==
  ASSUME TypeOK, NEW m \in Mutations, NEW pc, NEW r, Answered(m, pc, r)
  PROVE  /\ \A n \in Mutations : n # m => mut'[n] = mut[n]
         /\ mut[m].pc # "sent" => mut'[m] = mut[m]
         /\ mut[m].pc = "sent" => mut'[m].pc = pc /\ mut'[m].answer = r /\ SameEdit(m)
  BY DEF Answered, TypeOK, Turned, SameEdit

\* What an edit is known by stays, as long as the edit does.
LEMMA KnownKept ==
  ASSUME TypeOK, NEW m \in Mutations, Known(m),
         mut'[m] = mut[m], Made(m)' => Made(m),
         began'[m] # 0 => began[m] # 0 \/ mut[m].pc = "sent",
         \A r \in Row, t \in Tasks : AsOf(r, t) => AsOf(r, t)',
         \A t \in Tasks : row'[t].ver \in Nat /\ row[t].ver <= row'[t].ver,
         events \subseteq events'
  PROVE  Known(m)'
  <1>1. /\ mut[m].task \in Tasks /\ mut[m].answer \in Row /\ mut[m].answer.ver \in Nat
        /\ row[mut[m].task].ver \in Nat
    BY Parts DEF Row
  <1>2. mut[m].pc = "conflict" => /\ 0 < mut[m].answer.ver
                                  /\ mut[m].answer.ver <= row'[mut[m].task].ver
    BY <1>1 DEF Known
  <1>3. mut[m].pc = "ok" /\ mut[m].kind = "edit" => AsOf(mut[m].answer, mut[m].task)'
    BY <1>1 DEF Known
  <1> QED BY <1>2, <1>3 DEF Known

LEMMA SightKept ==
  ASSUME TypeOK, NEW m \in Mutations, Sight(m),
         Made(m)' => Made(m) /\ SameEdit(m), row'[mut[m].task] = row[mut[m].task]
  PROVE  Sight(m)'
  BY DEF Sight, SameEdit

\* Once its task has another version, an edit comes too late.
LEMMA SightPassed ==
  ASSUME TypeOK, NEW m \in Mutations, Sight(m),
         Made(m)' => Made(m) /\ SameEdit(m),
         row'[mut[m].task].ver = row[mut[m].task].ver + 1
  PROVE  Sight(m)'
  <1>1. row[mut[m].task].ver \in Nat /\ mut[m].expected \in Nat BY Parts DEF Mutation
  <1> QED BY <1>1 DEF Sight, SameEdit

\* Steps that leave rows, list and ledgers alone.
Steady ==
    \/ \E x \in Edits : Begin(x)
    \/ \E m \in Mutations : RefuseMine(m) \/ LoseMine(m)
    \/ Tap \/ Connect \/ Disconnect \/ Restart \/ AnswerFetch \/ Focus
    \/ UNCHANGED vars

LEMMA SteadyParts ==
  ASSUME TypeOK, LogInv, Steady
  PROVE  /\ LogInv' /\ UNCHANGED <<row, events, loaded, list, upset, patched, skipped>>
         /\ cause' = {} \/ Trusted' => Pending' = Pending
         /\ cause' = {} => cause = {}
         /\ Trusted' => Trusted \/ AnswerFetch
         /\ fetch'.pc # "idle" \/ fetch' = fetch
         /\ fetch'.pc = "answered" => fetch' = fetch \/ AnswerFetch
         /\ \A m \in Mutations : began'[m] # 0 => began[m] # 0 \/ mut[m].pc = "sent"
         /\ \A m \in Mutations : Onward(m)
  <1>1. CASE \E x \in Edits : Begin(x)
    <2>1. PICK x \in Edits : Begin(x) BY <1>1
    <2>2. LogInv' /\ Pending' = Pending BY <2>1, BeginLog
    <2>3. began' = [began EXCEPT ![x] = clock + 1] /\ began \in [Edits -> Nat]
      BY <2>1 DEF Begin, TypeOK
    <2>4. x \in Mutations => mut[x].pc = "sent" BY <2>1, EditsAreApart DEF Begin
    <2>5. (Trusted' => Trusted) /\ cause' = cause BY <2>1 DEF Begin, NoMishap, Notes, Trusted
    <2>6. \A m \in Mutations : began'[m] # 0 => began[m] # 0 \/ mut[m].pc = "sent"
      BY <2>3, <2>4 DEF Edits
    <2> QED BY <2>1, <2>2, <2>5, <2>6 DEF Begin, client, Onward
  <1>2. CASE Tap
    <2>1. LogInv' /\ (cause' = {} \/ Trusted' => Pending' = Pending) /\ (Trusted' => Trusted)
      BY <1>2, TapLog
    <2> QED BY <1>2, <2>1 DEF Tap, Notes, server, client, Onward
  <1>3. CASE Disconnect
    <2>1. LogInv' /\ (cause' = {} \/ Trusted' => Pending' = Pending) /\ (Trusted' => Trusted)
      BY <1>3, BreakLog
    <2> QED BY <1>3, <2>1 DEF Disconnect, Notes, server, client, Onward
  <1>4. CASE Restart
    <2>1. LogInv' /\ (cause' = {} \/ Trusted' => Pending' = Pending) /\ (Trusted' => Trusted)
      BY <1>4, BreakLog
    <2>2. \A m \in Mutations : Onward(m)
      <3>1. \A m \in Mutations : mut'[m] = IF began[m] # 0 /\ mut[m].pc = "sent"
                                            THEN Turned(m, "lost", Absent) ELSE mut[m]
        BY <1>4 DEF Restart
      <3>2. \A m \in Mutations : /\ Turned(m, "lost", Absent).pc = "lost"
                                 /\ mut'[m] = Turned(m, "lost", Absent) => SameEdit(m)
        BY DEF Turned, SameEdit
      <3> QED BY <3>1, <3>2 DEF Onward
    <2>3. \A m \in Mutations : began'[m] = 0 BY <1>4 DEF Restart, Edits
    <2> QED BY <1>4, <2>1, <2>2, <2>3 DEF Restart, Notes
  <1>5. CASE UNCHANGED vars
    <2>1. UNCHANGED <<row, events, clock, mark, wire, cause, calm, began, mut, fetch>>
          /\ UNCHANGED <<loaded, list, upset, patched, skipped>>
      BY <1>5 DEF vars
    <2>2. Trusted' = Trusted BY <2>1 DEF Trusted
    <2>3. Instants' BY <2>1, InstantsKept DEF LogInv
    <2>4. Versions' /\ Deletions' /\ Wired' /\ Ordered' /\ Pending' = Pending
      BY <2>1, <2>2, LogKept DEF LogInv
    <2> QED BY <2>1, <2>2, <2>3, <2>4 DEF LogInv, Onward
  <1>6. CASE OtherStep
    <2>1. /\ LogInv' /\ UNCHANGED <<row, events>> /\ Pending' = Pending
          /\ Trusted' => Trusted \/ AnswerFetch
      BY <1>6, OtherLog
    <2>2. ASSUME NEW m \in Mutations, RefuseMine(m)
          PROVE  /\ \A n \in Mutations : Onward(n)
                 /\ \A n \in Mutations : began'[n] # 0 => began[n] # 0
      <3>1. \/ Answered(m, "conflict", row[mut[m].task]) /\ row[mut[m].task].state = "live"
            \/ Answered(m, "lost", row[mut[m].task])
        BY <2>2 DEF RefuseMine
      <3>2. \A n \in Mutations : Onward(n)
        BY <3>1, AnsweredEffect DEF Onward
      <3>3. began' = [began EXCEPT ![m] = 0] /\ began \in [Edits -> Nat]
        BY <2>2 DEF RefuseMine, TypeOK
      <3> QED BY <3>2, <3>3 DEF Edits
    <2>3. ASSUME NEW m \in Mutations, LoseMine(m)
          PROVE  \A n \in Mutations : Onward(n)
      BY <2>3 DEF LoseMine, TypeOK, Onward, SameEdit, Turned
    <2>4. CASE \E m \in Mutations : RefuseMine(m)
      BY <2>1, <2>2, <2>4 DEF RefuseMine, NoMishap, Notes
    <2>5. CASE \E m \in Mutations : LoseMine(m)
      BY <2>1, <2>3, <2>5 DEF LoseMine, NoMishap, Notes, server
    <2>6. CASE Connect \/ Focus \/ AnswerFetch
      BY <2>1, <2>6 DEF Connect, Focus, AnswerFetch, NoMishap, Notes, server, client, Onward
    <2> QED BY <2>4, <2>5, <2>6, <1>1, <1>2, <1>3, <1>4, <1>5 DEF Steady
  <1> QED BY <1>1, <1>2, <1>3, <1>4, <1>5, <1>6 DEF Steady, OtherStep

LEMMA SteadyFetch ==
  ASSUME TypeOK, LogInv, FetchKnown, Steady
  PROVE  FetchKnown'
  <1>1. /\ UNCHANGED <<row, events, loaded, list>>
        /\ Trusted' => Pending' = Pending
        /\ Trusted' => Trusted \/ AnswerFetch
        /\ fetch'.pc # "idle" \/ fetch' = fetch
        /\ fetch'.pc = "answered" => fetch' = fetch \/ AnswerFetch
        /\ \A m \in Mutations : Onward(m)
    BY SteadyParts
  <1>2. \A m \in Mutations : mut'[m].pc \in Flying => mut[m].pc \in Flying
    BY <1>1 DEF Onward, Flying
  <1>3. loaded' = "no" => /\ fetch'.pc # "idle" /\ InFlight' = {}
                          /\ \A t \in Tasks : list'[t].state = "hidden"
    BY <1>1, <1>2 DEF FetchKnown, InFlight
  <1>4. ASSUME fetch'.pc = "answered", NEW t \in Tasks
        PROVE  AsOf(fetch.got[t], t)' /\ (Trusted' => NewsPast(t, fetch.got[t].ver)')
    <2>1. CASE AnswerFetch
      <3>1. fetch' = [pc |-> "answered", got |-> row] BY <2>1 DEF AnswerFetch
      <3>2. fetch'.got[t] = row[t] BY <3>1
      <3>3. AsOf(row[t], t) /\ NewsPast(t, row[t].ver) BY AsOfNow DEF LogInv
      <3>4. AsOf(row[t], t)' BY <1>1, <3>3 DEF AsOf, Structural
      <3>5. Trusted' => NewsPast(t, row[t].ver)' BY <1>1, <3>3 DEF NewsPast
      <3> QED BY <1>1, <3>2, <3>4, <3>5 DEF AsOf, NewsPast
    <2>2. CASE ~AnswerFetch
      <3>1. fetch' = fetch /\ (Trusted' => Trusted) BY <1>1, <1>4, <2>2
      <3>2. AsOf(fetch.got[t], t) /\ (Trusted => NewsPast(t, fetch.got[t].ver))
        BY <1>4, <3>1 DEF FetchKnown
      <3>3. AsOf(fetch.got[t], t)' BY <1>1, <3>1, <3>2 DEF AsOf, Structural
      <3>4. Trusted' => NewsPast(t, fetch.got[t].ver)' BY <1>1, <3>1, <3>2 DEF NewsPast
      <3> QED BY <3>3, <3>4
    <2> QED BY <2>1, <2>2
  <1> QED BY <1>3, <1>4 DEF FetchKnown

LEMMA SteadyEdits ==
  ASSUME TypeOK, LogInv, EditsKnown, Sighted, Steady
  PROVE  EditsKnown' /\ Sighted'
  <1>1. /\ UNCHANGED <<row, events>>
        /\ \A m \in Mutations : began'[m] # 0 => began[m] # 0 \/ mut[m].pc = "sent"
        /\ \A m \in Mutations : Onward(m)
    BY SteadyParts
  <1>2. \A r \in Row, t \in Tasks : AsOf(r, t) => AsOf(r, t)' BY <1>1, AsOfKept
  <1>3. \A m \in Mutations : Made(m)' => Made(m) /\ SameEdit(m)
    BY <1>1 DEF Made, Onward, Flying, SameEdit
  <1>4. \A t \in Tasks : row'[t].ver \in Nat /\ row[t].ver <= row'[t].ver BY <1>1, RowParts
  <1>5. ASSUME NEW m \in Mutations PROVE Known(m)'
    <2>1. Known(m) BY DEF EditsKnown
    <2>2. CASE mut'[m] = mut[m] BY <1>1, <1>2, <1>3, <1>4, <2>1, <2>2, KnownKept
    <2>3. CASE mut'[m] # mut[m]
      <3>1. /\ SameEdit(m) /\ mut[m].pc \in {"sent", "ok", "conflict"}
            /\ mut'[m].pc # "idle" /\ mut'[m].pc # "ok" /\ mut[m].task \in Tasks
            /\ mut'[m].pc = "conflict" => mut'[m].answer = row[mut[m].task]
                                         /\ row[mut[m].task].state = "live"
        BY <1>1, <2>3, Parts DEF Onward
      <3>2. mut'[m].pc = "conflict" => 0 < row[mut[m].task].ver
        BY <3>1, <1>4, RowParts DEF LogInv, Versions
      <3>3. row[mut[m].task].ver \in Nat BY <3>1, RowParts
      <3>4. mut'[m].pc = "conflict" => /\ 0 < mut'[m].answer.ver
                                      /\ mut'[m].answer.ver <= row'[mut'[m].task].ver
        BY <1>1, <3>1, <3>2, <3>3 DEF SameEdit
      <3>5. Made(m) /\ mut[m].pc \in Flying BY <3>1 DEF Made, Flying
      <3> QED BY <2>1, <3>1, <3>4, <3>5 DEF Known, SameEdit
    <2> QED BY <2>2, <2>3
  <1>6. ASSUME NEW m \in Mutations PROVE Sight(m)'
    <2>1. Sight(m) BY DEF Sighted
    <2> QED BY <1>1, <1>3, <2>1, SightKept
  <1> QED BY <1>5, <1>6 DEF EditsKnown, Sighted

-----------------------------------------------------------------------------
(* What a list lacks.                                                      *)

Accepted(v) == mut[v].pc = "ok" /\ mut'[v].pc = "done" /\ mut'[v].answer = mut[v].answer

LEMMA FieldKept ==
  ASSUME NEW v, NEW t \in Tasks, NEW f \in Fields,
         row'[t] = row[t], News(t)' = News(t), skipped \subseteq skipped',
         v \in Mutations => Onward(v) \/ Accepted(v) \/ mut[v].pc = "idle",
         Field(v, t, f)
  PROVE  Field(v, t, f)'
  <1>1. NewsOf(t, f)' = NewsOf(t, f) BY DEF NewsOf
  <1>2. CASE v \notin Mutations BY <1>1, <1>2 DEF Field
  <1>3. CASE v \in Mutations /\ mut'[v] = mut[v] BY <1>1, <1>3 DEF Field
  <1>4. CASE v \in Mutations /\ Onward(v) /\ mut'[v] # mut[v]
    <2>1. /\ SameEdit(v) /\ mut[v].pc \in Flying /\ mut'[v].pc \in Flying
          /\ mut'[v].pc \notin {"ok", "done"}
      BY <1>4 DEF Onward, Flying
    <2> QED BY <1>4, <2>1 DEF Field, SameEdit
  <1>5. CASE v \in Mutations /\ Accepted(v)
    <2>1. mut'[v].pc \notin Flying BY <1>5 DEF Accepted, Flying
    <2> QED BY <1>1, <1>5, <2>1 DEF Field, Accepted
  <1>6. CASE v \in Mutations /\ mut[v].pc = "idle"
    BY <1>6 DEF Field, Flying
  <1> QED BY <1>2, <1>3, <1>4, <1>5, <1>6

\* As long as its row and what is on its way stay, what is shown of a task does not
\* drift.
LEMMA StillFaithful ==
  ASSUME NEW s, NEW t \in Tasks, Faithful(s, t),
         row'[t] = row[t], events' = events, News(t)' = News(t),
         fetch.pc # "idle" => fetch'.pc # "idle",
         t \in patched => t \in patched', skipped \subseteq skipped',
         s.state = "shown" \/ (Removed(t) => Removed(t)'),
         \A f \in Fields : s.by[f] \in Mutations =>
             Onward(s.by[f]) \/ Accepted(s.by[f]) \/ mut[s.by[f]].pc = "idle",
         \A m \in Mutations : mut'[m].pc = "ok" => mut'[m] = mut[m]
  PROVE  Faithful(s, t)'
  <1>1. Membership(s, t)' BY DEF Faithful, Membership
  <1>2. \A f \in Fields : Field(s.by[f], t, f) => Field(s.by[f], t, f)'
    <2>1. SUFFICES ASSUME NEW f \in Fields, Field(s.by[f], t, f) PROVE Field(s.by[f], t, f)'
      OBVIOUS
    <2> QED BY <2>1, FieldKept
  <1>3. Version(s.ver, t) => Version(s.ver, t)' BY DEF Version
  <1>4. Seen(s, t) => Seen(s, t)' BY DEF Seen
  <1>5. \A v : NewsPast(t, v) => NewsPast(t, v)' BY DEF NewsPast, News
  <1>6. Overtakes(s, t) => Overtakes(s, t)' BY <1>5 DEF Overtakes
  <1> QED BY <1>1, <1>2, <1>3, <1>4, <1>6 DEF Faithful

LEMMA SteadyUndrifted ==
  ASSUME TypeOK, LogInv, EditsKnown, Undrifted, Steady
  PROVE  Undrifted'
  <1> SUFFICES ASSUME cause' = {}
               PROVE  /\ \A t \in Tasks : Faithful(list[t], t)'
                      /\ \A m \in (InFlight \ upset)' :
                            /\ \A t \in Tasks : Faithful(mut[m].ledger[t], t)'
                            /\ (mut[m].pc = "conflict" =>
                                  /\ mut[m].expected <= mut[m].answer.ver
                                  /\ Version(mut[m].answer.ver, mut[m].task))'
    BY DEF Undrifted
  <1>1. /\ UNCHANGED <<row, events, list, upset, patched, skipped>>
        /\ Pending' = Pending /\ cause = {}
        /\ fetch'.pc # "idle" \/ fetch' = fetch
        /\ \A m \in Mutations : Onward(m)
    BY SteadyParts
  <1>2. \A t \in Tasks : News(t)' = News(t) BY <1>1 DEF News
  <1>3. \A t \in Tasks : Removed(t) => Removed(t)' BY <1>1 DEF Removed, Onward, SameEdit
  <1>4. \A m \in Mutations : mut'[m].pc = "ok" => mut'[m] = mut[m] BY <1>1 DEF Onward
  <1>5. ASSUME NEW s, NEW t \in Tasks, Faithful(s, t) PROVE Faithful(s, t)'
    BY <1>1, <1>2, <1>3, <1>4, <1>5, StillFaithful
  <1>6. \A t \in Tasks : Faithful(list[t], t)'
    <2>1. \A t \in Tasks : Faithful(list[t], t) BY <1>1 DEF Undrifted
    <2> QED BY <1>1, <1>5, <2>1
  <1>7. ASSUME NEW m \in (InFlight \ upset)'
        PROVE  /\ \A t \in Tasks : Faithful(mut[m].ledger[t], t)'
               /\ (mut[m].pc = "conflict" => /\ mut[m].expected <= mut[m].answer.ver
                                            /\ Version(mut[m].answer.ver, mut[m].task))'
    <2>1. m \in Mutations /\ m \in InFlight \ upset /\ mut'[m].ledger = mut[m].ledger
      BY <1>1 DEF InFlight, Onward, Flying, SameEdit
    <2>2. \A t \in Tasks : Faithful(mut[m].ledger[t], t) BY <1>1, <2>1 DEF Undrifted
    <2>3. \A t \in Tasks : Faithful(mut[m].ledger[t], t)' BY <1>5, <2>1, <2>2
    <2>4. ASSUME mut'[m].pc = "conflict"
          PROVE  /\ mut'[m].expected <= mut'[m].answer.ver
                 /\ Version(mut[m].answer.ver, mut[m].task)'
      <3>1. mut[m].task \in Tasks BY <2>1, Parts
      <3>2. CASE mut'[m] = mut[m]
        <4>1. mut[m].expected <= mut[m].answer.ver /\ Version(mut[m].answer.ver, mut[m].task)
          BY <1>1, <2>1, <2>4, <3>2 DEF Undrifted
        <4> QED BY <1>1, <1>2, <3>1, <3>2, <4>1 DEF Version
      <3>3. CASE mut'[m] # mut[m]
        <4>1. SameEdit(m) /\ mut'[m].answer = row[mut[m].task]
          BY <1>1, <2>1, <2>4, <3>3 DEF Onward
        <4>2. /\ mut[m].ledger[mut[m].task].state = "shown"
              /\ mut[m].ledger[mut[m].task].ver = mut[m].expected
          BY <2>1 DEF EditsKnown, Known, Made, InFlight
        <4>3. mut[m].expected <= row[mut[m].task].ver BY <2>2, <3>1, <4>2 DEF Faithful
        <4> QED BY <1>1, <4>1, <4>3 DEF SameEdit, Version
      <3> QED BY <3>2, <3>3
    <2> QED BY <2>3, <2>4
  <1> QED BY <1>6, <1>7

-----------------------------------------------------------------------------
(* Commits.                                                                *)

Commit(x, t, kind, fs) ==
    \/ x \in Others /\ CommitOther(x, t, kind, fs)
    \/ /\ x \in Mutations /\ Publishes(x, t, kind, fs) /\ Answered(x, "ok", row'[t])
       /\ t = mut[x].task /\ kind = mut[x].kind /\ mut[x].fields \subseteq fs

\* Who made the edit hears of it, unless the browser gave up.
Told(n, x, t, kind, fs) ==
    \/ mut'[n] = mut[n]
    \/ /\ n = x /\ SameEdit(n) /\ mut[n].pc = "sent" /\ mut'[n].pc = "ok"
       /\ mut'[n].answer = row'[t]
       /\ mut[n].task = t /\ mut[n].kind = kind /\ mut[n].fields \subseteq fs

LEMMA CommitParts ==
  ASSUME TypeOK, NEW x, NEW t, NEW kind, NEW fs, Commit(x, t, kind, fs)
  PROVE  /\ Publishes(x, t, kind, fs) /\ x \in Edits
         /\ \A n \in Mutations : Told(n, x, t, kind, fs)
  <1>1. CASE x \in Others /\ CommitOther(x, t, kind, fs)
    BY <1>1 DEF CommitOther, Told, Edits
  <1>2. CASE /\ x \in Mutations /\ Publishes(x, t, kind, fs) /\ Answered(x, "ok", row'[t])
             /\ t = mut[x].task /\ kind = mut[x].kind /\ mut[x].fields \subseteq fs
    <2>2. \A n \in Mutations : Told(n, x, t, kind, fs)
      BY <1>2, AnsweredEffect DEF Told
    <2> QED BY <1>2, <2>2 DEF Edits
  <1> QED BY <1>1, <1>2 DEF Commit

LEMMA CommitEdits ==
  ASSUME TypeOK, TypeOK', LogInv, EditsKnown, Sighted, NEW x, NEW t \in Tasks, NEW fs \in SUBSET Fields,
         NEW kind \in {"edit", "delete", "restore", "create"}, Commit(x, t, kind, fs)
  PROVE  EditsKnown' /\ Sighted'
  <1>1. /\ Publishes(x, t, kind, fs) /\ x \in Edits
        /\ \A n \in Mutations : Told(n, x, t, kind, fs)
    BY CommitParts
  <1>2. /\ events' = events \cup {Published(x, t, kind, fs)}
        /\ \A u \in Tasks : u # t => row'[u] = row[u]
        /\ row'[t].ver = row[t].ver + 1
        /\ row'[t].state = IF kind = "delete" THEN "deleted" ELSE "live"
        /\ began' = [began EXCEPT ![x] = 0] /\ began[x] # 0
    BY <1>1, PublishParts
  <1>3. \A r \in Row, u \in Tasks : AsOf(r, u) => AsOf(r, u)' BY <1>1, AsOfPublish
  <1>4. \A u \in Tasks : row'[u].ver \in Nat /\ row[u].ver <= row'[u].ver
    BY <1>2, RowParts
  <1>5. \A n \in Mutations : began'[n] # 0 => began[n] # 0
    BY <1>2 DEF Edits, TypeOK
  <1>6. \A n \in Mutations : Made(n)' => Made(n) /\ SameEdit(n)
    BY <1>1, <1>2, <1>5 DEF Made, Told, Flying, SameEdit
  <1>7. ASSUME NEW n \in Mutations PROVE Known(n)'
    <2>1. Known(n) BY DEF EditsKnown
    <2>2. CASE mut'[n] = mut[n] BY <1>2, <1>3, <1>4, <1>5, <1>6, <2>1, <2>2, KnownKept
    <2>3. CASE mut'[n] # mut[n]
      <3>1. /\ SameEdit(n) /\ mut[n].pc = "sent" /\ mut'[n].pc = "ok" /\ mut'[n].answer = row'[t]
            /\ mut'[n].task = t /\ mut'[n].kind = kind /\ Made(n)
        BY <1>1, <2>3 DEF Told, SameEdit, Made, Flying
      <3>2. kind = "edit" => row'[t].state = "live" BY <1>2
      <3>3. AsOf(row[t], t)'
        <4>1. LogInv' BY <1>1, PublishLog
        <4>2. \A g \in Fields : row'[t].by[g] \in Nat /\ row'[t].by[g] <= row'[t].ver
          BY <4>1 DEF TypeOK, Row, LogInv, Versions
        <4>3. row'[t].state = "live" => 0 < row'[t].ver
          BY <1>4, <4>1 DEF LogInv, Versions
        <4> QED BY <1>4, <4>2, <4>3 DEF AsOf
      <3>4. kind = "edit" =>
              \E e \in events' : e.task = t /\ e.kind = "edit" /\ e.ver = row'[t].ver
        <4> DEFINE p == Published(x, t, kind, fs)
        <4>1. p \in events' /\ p.task = t /\ p.kind = kind /\ p.ver = row'[t].ver
          BY <1>2 DEF Published
        <4> QED BY <4>1
      <3>5. AsOf(mut[n].answer, mut[n].task)' BY <3>1, <3>3
      <3>6. mut[n].pc \in Flying BY <3>1 DEF Flying
      <3> QED BY <2>1, <3>1, <3>2, <3>4, <3>5, <3>6 DEF Known, SameEdit
    <2> QED BY <2>2, <2>3
  <1>8. ASSUME NEW n \in Mutations PROVE Sight(n)'
    <2>1. Sight(n) /\ mut[n].task \in Tasks BY Parts DEF Sighted
    <2>2. CASE mut[n].task # t BY <1>2, <1>6, <2>1, <2>2, SightKept
    <2>3. CASE mut[n].task = t BY <1>2, <1>6, <2>1, <2>3, SightPassed
    <2> QED BY <2>2, <2>3
  <1> QED BY <1>7, <1>8 DEF EditsKnown, Sighted

LEMMA CommitFetch ==
  ASSUME TypeOK, LogInv, FetchKnown, NEW x, NEW t \in Tasks, NEW fs \in SUBSET Fields,
         NEW kind \in {"edit", "delete", "restore", "create"}, Commit(x, t, kind, fs)
  PROVE  FetchKnown'
  <1>1. /\ Publishes(x, t, kind, fs) /\ x \in Edits
        /\ \A n \in Mutations : Told(n, x, t, kind, fs)
    BY CommitParts
  <1>2. UNCHANGED <<fetch, loaded, list>> /\ (Trusted' => Trusted) BY <1>1, PublishParts
  <1>3. \A n \in Mutations : mut'[n].pc \in Flying => mut[n].pc \in Flying
    BY <1>1 DEF Told, Flying
  <1>4. InFlight' \subseteq InFlight BY <1>3 DEF InFlight
  <1>5. ASSUME fetch.pc = "answered", NEW u \in Tasks
        PROVE  AsOf(fetch.got[u], u)' /\ (Trusted' => NewsPast(u, fetch.got[u].ver)')
    <2>1. AsOf(fetch.got[u], u) /\ (Trusted => NewsPast(u, fetch.got[u].ver))
          /\ fetch.got[u] \in Row
      BY <1>5 DEF FetchKnown, TypeOK
    <2>2. AsOf(fetch.got[u], u)' BY <1>1, <1>2, <2>1, AsOfPublish
    <2>3. Trusted' => NewsPast(u, fetch.got[u].ver)' BY <1>1, <1>2, <2>1, NewsPastPublish
    <2> QED BY <2>2, <2>3
  <1> QED BY <1>2, <1>4, <1>5 DEF FetchKnown

\* A commit puts its news on its way: what was faithful is.
LEMMA CommitFaithful ==
  ASSUME TypeOK, LogInv, NEW x, NEW t \in Tasks, NEW fs \in SUBSET Fields,
         NEW kind \in {"edit", "delete", "restore", "create"}, Commit(x, t, kind, fs),
         cause' = {}, NEW s \in Shown, NEW u \in Tasks, Faithful(s, u)
  PROVE  Faithful(s, u)'
  <1> DEFINE p == Published(x, t, kind, fs)
  <1>1. /\ Publishes(x, t, kind, fs) /\ x \in Edits
        /\ \A n \in Mutations : Told(n, x, t, kind, fs)
    BY CommitParts
  <1>2. /\ events' = events \cup {p}
        /\ \A w \in Tasks : w # t => row'[w] = row[w]
        /\ row'[t].ver = row[t].ver + 1
        /\ UNCHANGED <<fetch, patched, skipped>>
    BY <1>1, PublishParts
  <1>3. LogInv' /\ Pending \subseteq Pending' /\ Pending' \subseteq Pending \cup {p} /\ p \in Pending'
    BY <1>1, PublishLog
  <1>4. p.task = t /\ p.kind = kind /\ p.ver = row[t].ver + 1 /\ p.fields = fs BY DEF Published
  <1>5. row[t].ver \in Nat BY RowParts
  <1> HIDE DEF p
  <1>6. \A w \in Tasks : News(w) \subseteq News(w)' BY <1>3 DEF News
  <1>7. p \in News(t)' BY <1>3, <1>4 DEF News
  <1>8. \A v : \A w \in Tasks : NewsPast(w, v) => NewsPast(w, v)' BY <1>2, <1>3 DEF NewsPast
  <1>9. Membership(s, u)'
    <2>1. Membership(s, u) BY DEF Faithful
    <2>2. CASE u = t /\ kind # "edit"
      BY <1>4, <1>7, <2>2 DEF Membership, Structural
    <2>3. CASE u # t \/ kind = "edit"
      <3>1. row'[u].state = row[u].state
        <4>1. kind = "edit" => row'[t].state = row[t].state BY <1>1, PublishParts
        <4> QED BY <1>2, <2>3, <4>1
      <3>2. Removed(u) => Removed(u)'
        <4>1. \A n \in Mutations :
                 mut[n].pc \in {"sent", "conflict", "lost"} /\ mut[n].kind = "delete" /\ mut[n].task = u
                 => mut'[n] = mut[n]
          BY <1>1, <2>3 DEF Told
        <4> QED BY <4>1 DEF Removed
      <3> QED BY <1>2, <1>6, <2>1, <3>1, <3>2 DEF Membership
    <2> QED BY <2>2, <2>3
  <1>10. SUFFICES ASSUME s.state = "shown"
                  PROVE  /\ 0 < s.ver /\ s.ver <= row'[u].ver
                         /\ Version(s.ver, u)'
                         /\ \A g \in Fields : Field(s.by[g], u, g)'
                         /\ Seen(s, u)'
                         /\ Overtakes(s, u)'
    BY <1>9 DEF Faithful
  <1>11. /\ 0 < s.ver /\ s.ver <= row[u].ver /\ s.ver \in Nat /\ row[u].ver \in Nat
         /\ Version(s.ver, u) /\ Seen(s, u) /\ Overtakes(s, u)
         /\ \A g \in Fields : Field(s.by[g], u, g)
    BY <1>10, RowParts DEF Faithful, Shown
  <1>12. s.ver <= row'[u].ver /\ (u = t => s.ver # row'[u].ver) BY <1>2, <1>5, <1>11
  <1>13. Version(s.ver, u)'
    <2>1. CASE u = t BY <1>7, <2>1 DEF Version
    <2>2. CASE u # t BY <1>2, <1>6, <1>11, <2>2 DEF Version
    <2> QED BY <2>1, <2>2
  <1>14. ASSUME NEW v, NEW g \in Fields, Field(v, u, g) PROVE Field(v, u, g)'
    <2>1. Field(v, u, g) BY <1>14
    <2>2. NewsOf(u, g) \subseteq NewsOf(u, g)' BY <1>6 DEF NewsOf
    <2>3. row'[u].by[g] = row[u].by[g] \/ NewsOf(u, g)' # {}
      <3>1. CASE u # t BY <1>2, <3>1
      <3>2. CASE u = t
        <4>1. kind # "create" BY <1>1, <1>5, <1>11, <3>2, PublishParts
        <4>2. CASE kind = "edit" /\ g \in fs BY <1>4, <1>7, <3>2, <4>2 DEF NewsOf
        <4>3. CASE ~(kind = "edit" /\ g \in fs)
          BY <1>1, <3>2, <4>1, <4>3, PublishParts
        <4> QED BY <4>2, <4>3
      <3> QED BY <3>1, <3>2
    <2>4. CASE v \notin Mutations BY <1>2, <2>1, <2>2, <2>3, <2>4 DEF Field
    <2>5. CASE v \in Mutations /\ mut'[v] = mut[v] BY <1>2, <2>1, <2>2, <2>3, <2>5 DEF Field
    <2>6. CASE v \in Mutations /\ mut'[v] # mut[v]
      <3>1. /\ SameEdit(v) /\ mut[v].pc \in Flying /\ mut'[v].pc = "ok" /\ mut'[v].pc \in Flying
            /\ mut'[v].answer = row'[t]
            /\ mut[v].task = t /\ mut[v].kind = kind /\ mut[v].fields \subseteq fs
        BY <1>1, <2>6 DEF Told, Flying
      <3>2. CASE <<u, g>> \in skipped BY <1>2, <3>2 DEF Field
      <3>3. CASE <<u, g>> \notin skipped
        <4>1. u = t /\ kind = "edit" /\ g \in fs /\ g \in mut[v].fields
          BY <2>1, <2>6, <3>1, <3>3 DEF Field
        <4>2. row'[t].by[g] = row'[t].ver BY <1>1, <1>2, <4>1, PublishParts
        <4> QED BY <2>6, <3>1, <4>1, <4>2 DEF Field, SameEdit
      <3> QED BY <3>2, <3>3
    <2> QED BY <2>4, <2>5, <2>6
  <1>15. Seen(s, u)'
    <2>1. CASE u = t BY <1>12, <2>1 DEF Seen
    <2>2. CASE u # t BY <1>2, <1>11, <2>2 DEF Seen
    <2> QED BY <2>1, <2>2
  <1>16. Overtakes(s, u)'
    <2>1. SUFFICES ASSUME NEW n \in Mutations,
                          mut'[n].pc = "ok" /\ mut'[n].kind = "edit" /\ mut'[n].task = u
                   PROVE  s.ver > mut'[n].answer.ver \/ NewsPast(u, mut[n].answer.ver)'
      BY DEF Overtakes
    <2>2. CASE mut'[n] = mut[n]
      <3>1. s.ver > mut[n].answer.ver \/ NewsPast(u, mut[n].answer.ver)
        BY <1>11, <2>1, <2>2 DEF Overtakes
      <3> QED BY <1>8, <2>2, <3>1
    <2>3. CASE mut'[n] # mut[n]
      <3>1. mut'[n].answer = row'[t] /\ u = t BY <1>1, <2>1, <2>3 DEF Told, SameEdit
      <3>2. \A e \in events' : e.task = t => ~(e.ver > row'[t].ver)
        <4>1. \A e \in events : e.task = t => e.ver <= row[t].ver /\ e.ver \in Nat
          BY Numbers DEF LogInv, Versions
        <4> QED BY <1>2, <1>4, <1>5, <4>1
      <3> QED BY <3>1, <3>2 DEF NewsPast
    <2> QED BY <2>2, <2>3
  <1> QED BY <1>11, <1>12, <1>13, <1>14, <1>15, <1>16

LEMMA CommitUndrifted ==
  ASSUME TypeOK, LogInv, Undrifted, NEW x, NEW t \in Tasks, NEW fs \in SUBSET Fields,
         NEW kind \in {"edit", "delete", "restore", "create"}, Commit(x, t, kind, fs)
  PROVE  Undrifted'
  <1> SUFFICES ASSUME cause' = {}
               PROVE  /\ \A u \in Tasks : Faithful(list[u], u)'
                      /\ \A m \in (InFlight \ upset)' :
                            /\ \A u \in Tasks : Faithful(mut[m].ledger[u], u)'
                            /\ (mut[m].pc = "conflict" =>
                                  /\ mut[m].expected <= mut[m].answer.ver
                                  /\ Version(mut[m].answer.ver, mut[m].task))'
    BY DEF Undrifted
  <1>1. /\ Publishes(x, t, kind, fs) /\ x \in Edits
        /\ \A n \in Mutations : Told(n, x, t, kind, fs)
    BY CommitParts
  <1>2. UNCHANGED <<list, upset, fetch>> /\ cause = {}
        /\ \A w \in Tasks : w # t => row'[w] = row[w]
    BY <1>1, PublishParts
  <1>3. ASSUME NEW s \in Shown, NEW u \in Tasks, Faithful(s, u) PROVE Faithful(s, u)'
    BY <1>3, CommitFaithful
  <1>4. \A u \in Tasks : Faithful(list[u], u)'
    <2>1. \A u \in Tasks : Faithful(list[u], u) /\ list[u] \in Shown BY <1>2, Parts DEF Undrifted
    <2> QED BY <1>2, <1>3, <2>1
  <1>5. ASSUME NEW m \in (InFlight \ upset)'
        PROVE  /\ \A u \in Tasks : Faithful(mut[m].ledger[u], u)'
               /\ (mut[m].pc = "conflict" => /\ mut[m].expected <= mut[m].answer.ver
                                            /\ Version(mut[m].answer.ver, mut[m].task))'
    <2>1. m \in Mutations /\ m \in InFlight \ upset /\ mut'[m].ledger = mut[m].ledger
      BY <1>1, <1>2 DEF InFlight, Told, Flying, SameEdit
    <2>2. \A u \in Tasks : Faithful(mut[m].ledger[u], u) /\ mut[m].ledger[u] \in Shown
      BY <1>2, <2>1, Parts DEF Undrifted, Mutation
    <2>3. \A u \in Tasks : Faithful(mut[m].ledger[u], u)' BY <1>3, <2>1, <2>2
    <2>4. ASSUME mut'[m].pc = "conflict"
          PROVE  /\ mut'[m].expected <= mut'[m].answer.ver
                 /\ Version(mut[m].answer.ver, mut[m].task)'
      <3>1. mut'[m] = mut[m] /\ mut[m].task \in Tasks BY <1>1, <2>1, <2>4, Parts DEF Told
      <3>2. mut[m].expected <= mut[m].answer.ver /\ Version(mut[m].answer.ver, mut[m].task)
        BY <1>2, <2>1, <2>4, <3>1 DEF Undrifted
      <3>3. \A w \in Tasks : News(w) \subseteq News(w)' BY <1>1, PublishLog DEF News
      <3>4. News(t)' # {}
        <4>1. Published(x, t, kind, fs) \in Pending' BY <1>1, PublishLog
        <4>2. Published(x, t, kind, fs).task = t BY DEF Published
        <4> QED BY <4>1, <4>2 DEF News
      <3> QED BY <1>2, <3>1, <3>2, <3>3, <3>4 DEF Version
    <2> QED BY <2>3, <2>4
  <1> QED BY <1>4, <1>5

-----------------------------------------------------------------------------
(* The list is fetched.                                                    *)

\* The copy of a row is faithful, when all that is newer is on its way.
LEMMA ListedFaithful ==
  ASSUME TypeOK, TypeOK', LogInv, UNCHANGED <<row, events>>,
         NEW r \in Row, NEW t \in Tasks, AsOf(r, t), NewsPast(t, r.ver)'
  PROVE  Faithful(Listed(r), t)'
  <1> DEFINE s == Listed(r)
  <1>1. r.ver \in Nat /\ row[t].ver \in Nat /\ \A f \in Fields : row[t].by[f] \in Nat /\ r.by[f] \in Nat
    BY RowParts DEF Row
  <1>2. \A e \in events : e.task = t /\ e.ver > r.ver => e \in News(t)'
    BY DEF NewsPast, News
  <1>3. /\ r.state = "live" => s.state = "shown" /\ s.ver = r.ver /\ s.by = r.by
        /\ r.state # "live" => s.state = "hidden"
    BY DEF Listed, Hidden
  <1> HIDE DEF s
  <1>4. Membership(s, t)'
    <2>2. ASSUME NEW g \in events, g.task = t, Structural(g), g.ver > r.ver
          PROVE  \E e \in News(t)' : Structural(e)
      BY <1>2, <2>2
    <2>3. \/ (r.state = "live") <=> (row[t].state = "live")
          \/ \E g \in events : g.task = t /\ Structural(g) /\ g.ver > r.ver
      BY DEF AsOf
    <2>4. \/ (s.state = "shown") <=> (row'[t].state = "live")
          \/ \E e \in News(t)' : Structural(e)
      BY <1>3, <2>2, <2>3
    <2> QED BY <2>4 DEF Membership, Structural
  <1>5. SUFFICES ASSUME s.state = "shown"
                 PROVE  /\ 0 < s.ver /\ s.ver <= row'[t].ver
                        /\ Version(s.ver, t)'
                        /\ \A g \in Fields : Field(s.by[g], t, g)'
                        /\ Seen(s, t)'
                        /\ Overtakes(s, t)'
    BY <1>4 DEF Faithful, s
  <1>6. r.state = "live" /\ s.ver = r.ver /\ s.by = r.by BY <1>3, <1>5
  <1>7. 0 < r.ver /\ r.ver <= row[t].ver BY <1>6 DEF AsOf
  <1>8. Version(s.ver, t)'
    <2>1. CASE r.ver = row[t].ver BY <1>6, <2>1 DEF Version
    <2>2. CASE r.ver # row[t].ver
      <3>1. row[t].ver > 1 /\ row[t].ver > r.ver BY <1>1, <1>7, <2>2
      <3>2. PICK e \in events : e.task = t /\ e.ver = row[t].ver BY <3>1 DEF LogInv, Versions
      <3>3. e \in News(t)' BY <1>2, <3>1, <3>2
      <3> QED BY <3>3 DEF Version
    <2> QED BY <2>1, <2>2
  <1>9. ASSUME NEW g \in Fields PROVE Field(s.by[g], t, g)'
    <2>1. s.by[g] \notin Mutations BY <1>1, <1>6, EditsAreApart
    <2>2. CASE row[t].by[g] <= r.ver
      <3>1. s.by[g] = row'[t].by[g] BY <1>6, <2>2 DEF AsOf
      <3> QED BY <2>1, <3>1 DEF Field
    <2>3. CASE ~(row[t].by[g] <= r.ver)
      <3>1. row[t].by[g] > 1 /\ row[t].by[g] > r.ver BY <1>1, <1>7, <2>3
      <3>2. PICK e \in events : e.task = t /\ e.kind = "edit" /\ g \in e.fields /\ e.ver = row[t].by[g]
        BY <3>1 DEF LogInv, Versions
      <3>3. e \in NewsOf(t, g)' BY <1>2, <3>1, <3>2 DEF NewsOf
      <3> QED BY <2>1, <3>3 DEF Field
    <2> QED BY <2>2, <2>3
  <1>10. Seen(s, t)' BY <1>6 DEF Seen, AsOf
  <1>11. Overtakes(s, t)'
    <2>1. SUFFICES ASSUME NEW m \in Mutations, ~(s.ver > mut'[m].answer.ver)
                   PROVE  NewsPast(t, mut[m].answer.ver)'
      BY DEF Overtakes
    <2>2. mut'[m].answer.ver \in Nat BY DEF TypeOK, Mutation, Row
    <2>3. r.ver <= mut'[m].answer.ver BY <1>1, <1>6, <2>1, <2>2
    <2>4. \A e \in events : e.ver > mut'[m].answer.ver => e.ver > r.ver
      BY <1>1, <2>2, <2>3, Numbers
    <2> QED BY <2>4 DEF NewsPast
  <1> QED BY <1>1, <1>6, <1>7, <1>8, <1>9, <1>10, <1>11

LEMMA LandDrift ==
  ASSUME TypeOK, TypeOK', DriftInv, LandFetch
  PROVE  DriftInv'
  <1>1. /\ LogInv' /\ UNCHANGED <<row, events>> /\ Pending' = Pending
        /\ Trusted' => Trusted \/ AnswerFetch
    BY OtherLog DEF DriftInv, OtherStep
  <1>2. /\ fetch.pc = "answered" /\ fetch'.pc = "idle" /\ loaded' = "yes"
        /\ list' = [t \in Tasks |-> Listed(fetch.got[t])]
        /\ upset' = InFlight /\ mut' = mut /\ began' = began
    BY DEF LandFetch, server
  <1>3. InFlight' = InFlight BY <1>2 DEF InFlight
  <1>4. FetchKnown' BY <1>2 DEF FetchKnown
  <1>5. EditsKnown'
    <2>1. \A r, t : AsOf(r, t) => AsOf(r, t)' BY <1>1, AsOfKept
    <2>2. \A t \in Tasks : row'[t].ver \in Nat /\ row[t].ver <= row'[t].ver BY <1>1, RowParts
    <2> QED BY <1>1, <1>2, <2>1, <2>2, KnownKept DEF DriftInv, EditsKnown, Made
  <1>6. Sighted'
    BY <1>1, <1>2, SightKept DEF DriftInv, Sighted, Made, SameEdit
  <1>7. Undrifted'
    <2>1. SUFFICES ASSUME cause' = {} PROVE \A t \in Tasks : Faithful(list[t], t)'
      BY <1>2, <1>3 DEF Undrifted
    <2>2. Trusted BY <2>1 DEF LandFetch, Trusted
    <2>3. ASSUME NEW t \in Tasks PROVE Faithful(list[t], t)'
      <3>1. AsOf(fetch.got[t], t) /\ NewsPast(t, fetch.got[t].ver)
        BY <1>2, <2>2 DEF DriftInv, FetchKnown
      <3>2. ASSUME NEW r \in Row, AsOf(r, t), NewsPast(t, r.ver) PROVE Faithful(Listed(r), t)'
        <4>1. NewsPast(t, r.ver)' BY <1>1, <3>2 DEF NewsPast
        <4> QED BY <1>1, <3>2, <4>1, ListedFaithful DEF DriftInv
      <3>3. fetch.got[t] \in Row BY DEF TypeOK
      <3>4. \A r \in Row : AsOf(r, t) /\ NewsPast(t, r.ver) => \A s : s = Listed(r) => Faithful(s, t)'
        BY <3>2
      <3> QED BY <1>2, <3>1, <3>3, <3>4
    <2> QED BY <2>3
  <1> QED BY <1>1, <1>4, <1>5, <1>6, <1>7 DEF DriftInv

-----------------------------------------------------------------------------
(* An event is received.                                                   *)

\* What a reader knows of the first event on the stream and what follows it.
LEMMA HeadParts ==
  ASSUME TypeOK, LogInv, Receive, Trusted, NEW e, e = Head(wire)
  PROVE  /\ e \in events /\ e \in Event /\ e.task \in Tasks /\ e.ver \in Nat /\ e.fields \subseteq Fields
         /\ e.kind \in {"edit", "delete", "restore", "create"}
         /\ UNCHANGED <<row, events, mut, patched>> /\ skipped \subseteq skipped'
         /\ \A h \in News(e.task) : h # e => h.ver > e.ver /\ h \in News(e.task)'
         /\ News(e.task)' \subseteq News(e.task) \ {e}
         /\ \A t \in Tasks : t # e.task => News(t)' = News(t)
         /\ \A g \in events : g.task = e.task /\ g.ver > e.ver => g \in News(e.task)'
         /\ \A v \in Nat : e.ver <= v => NewsPast(e.task, v)'
  <1>1. /\ UNCHANGED <<row, events>> /\ e \in Pending /\ e \in events
        /\ Pending' = Pending \ {e}
        /\ \A g \in Pending \ {e} : e.at < g.at
    BY ReceiveLog
  <1>2. /\ e \in Event /\ e.at \in Nat /\ e.task \in Tasks /\ e.ver \in Nat /\ e.fields \subseteq Fields
        /\ e.kind \in {"edit", "delete", "restore", "create"}
    BY <1>1, EventParts
  <1>3. \A h \in Pending : h \in events BY PendingParts DEF LogInv
  <1>4. ASSUME NEW h \in News(e.task), h # e PROVE h.ver > e.ver /\ h \in News(e.task)'
    <2>1. h \in Pending /\ h \in events /\ h.task = e.task BY <1>3 DEF News
    <2>2. e.at < h.at /\ h.at \in Nat /\ h.ver \in Nat BY <1>1, <1>4, <2>1, Numbers
    <2>3. h.ver # e.ver BY <1>1, <1>4, <2>1 DEF LogInv, Versions
    <2>4. ~(h.ver < e.ver)
      <3>1. h.ver < e.ver => h.at < e.at BY <1>1, <2>1 DEF LogInv, Ordered
      <3> QED BY <1>2, <2>2, <3>1
    <2> QED BY <1>1, <1>2, <1>4, <2>1, <2>2, <2>3, <2>4 DEF News
  <1>5. ASSUME NEW g \in events, g.task = e.task, g.ver > e.ver PROVE g \in News(e.task)'
    <2>1. g \in Pending BY <1>1, <1>2, <1>5, Numbers DEF LogInv, Ordered
    <2>2. g # e BY <1>2, <1>5
    <2> QED BY <1>1, <1>5, <2>1, <2>2 DEF News
  <1>6. ASSUME NEW v \in Nat, e.ver <= v PROVE NewsPast(e.task, v)'
    <2>1. SUFFICES ASSUME NEW g \in events, g.task = e.task, g.ver > v PROVE g \in Pending'
      BY <1>1 DEF NewsPast
    <2>2. g.ver > e.ver BY <1>2, <1>6, <2>1, Numbers
    <2> QED BY <1>5, <2>1, <2>2 DEF News
  <1>7. News(e.task)' \subseteq News(e.task) \ {e} BY <1>1 DEF News
  <1>8. \A t \in Tasks : t # e.task => News(t)' = News(t) BY <1>1 DEF News
  <1>9. UNCHANGED <<mut, patched>> /\ skipped \subseteq skipped' BY DEF Receive
  <1> QED BY <1>1, <1>2, <1>4, <1>5, <1>6, <1>7, <1>8, <1>9

LEMMA ReceiveFetch ==
  ASSUME TypeOK, LogInv, FetchKnown, Receive
  PROVE  FetchKnown'
  <1> DEFINE e == Head(wire)
  <1>1. /\ UNCHANGED <<row, events>> /\ e \in events /\ Pending' = Pending \ {e}
    BY ReceiveLog
  <1>2. /\ UNCHANGED <<loaded, mut>>
        /\ loaded = "no" => list' = list
        /\ fetch' = fetch \/ fetch' = Invalidated
        /\ Trusted' => Trusted /\ ~(fetch'.pc = "answered" /\ fetch.got[e.task].ver < e.ver)
    BY DEF Receive, Notes, Trusted
  <1> HIDE DEF e
  <1>3. fetch' = fetch \/ fetch'.pc = "asked" BY <1>2 DEF Invalidated
  <1>4. InFlight' = InFlight BY <1>2 DEF InFlight
  <1>5. ASSUME fetch'.pc = "answered", NEW t \in Tasks
        PROVE  AsOf(fetch.got[t], t)' /\ (Trusted' => NewsPast(t, fetch.got[t].ver)')
    <2>1. fetch' = fetch BY <1>3, <1>5
    <2>2. AsOf(fetch.got[t], t) /\ (Trusted => NewsPast(t, fetch.got[t].ver))
      BY <1>5, <2>1 DEF FetchKnown
    <2>3. AsOf(fetch.got[t], t)' BY <1>1, <2>1, <2>2 DEF AsOf, Structural
    <2>4. ASSUME Trusted' PROVE NewsPast(t, fetch.got[t].ver)'
      <3>1. Trusted /\ ~(fetch.got[e.task].ver < e.ver) BY <1>2, <1>5, <2>1, <2>4
      <3>2. fetch.got[t].ver \in Nat /\ e.ver \in Nat BY <1>1, Numbers DEF TypeOK, Row
      <3>3. e.task = t => ~(e.ver > fetch.got[t].ver) BY <3>1, <3>2
      <3> QED BY <1>1, <2>1, <2>2, <3>1, <3>3 DEF NewsPast
    <2> QED BY <2>3, <2>4
  <1> QED BY <1>2, <1>3, <1>4, <1>5 DEF FetchKnown

\* What is shown of the task of the event, when the event leaves it alone.
LEMMA ReceivedAside ==
  ASSUME TypeOK, LogInv, EditsKnown, Receive, Trusted, NEW e, e = Head(wire),
         NEW s \in Shown, Faithful(s, e.task), e.kind # "delete",
         e.kind = "restore" => fetch'.pc # "idle",
         fetch.pc # "idle" => fetch'.pc # "idle",
         e.kind = "edit" => s.state = "hidden",
         e.kind = "create" => s.state = "shown"
  PROVE  Faithful(s, e.task)'
  <1> DEFINE t == e.task
  <1>1. /\ e \in events /\ t \in Tasks /\ e.ver \in Nat
        /\ UNCHANGED <<row, events, mut, patched>> /\ skipped \subseteq skipped'
        /\ \A h \in News(t) : h # e => h.ver > e.ver /\ h \in News(t)'
        /\ \A g \in events : g.task = t /\ g.ver > e.ver => g \in News(t)'
        /\ \A v \in Nat : e.ver <= v => NewsPast(t, v)'
        /\ e.kind \in {"edit", "delete", "restore", "create"}
    BY HeadParts
  <1>2. row[t].ver \in Nat /\ s.ver \in Nat BY <1>1, RowParts DEF Shown
  <1> HIDE DEF t
  <1>3. e.task = t BY DEF t
  <1>4. Membership(s, t)'
    <2>1. CASE fetch'.pc # "idle" BY <2>1 DEF Membership
    <2>2. CASE fetch'.pc = "idle" /\ e.kind = "create"
      <3>1. \/ row[t].state = "live"
            \/ \E g \in events : g.task = t /\ Structural(g) /\ g.ver > e.ver
        BY <1>1, <1>3, <2>2 DEF LogInv, Deletions, Structural
      <3>2. CASE \E g \in events : g.task = t /\ Structural(g) /\ g.ver > e.ver
        BY <1>1, <3>2 DEF Membership, Structural
      <3>3. CASE row[t].state = "live" BY <1>1, <2>2, <3>3 DEF Membership
      <3> QED BY <3>1, <3>2, <3>3
    <2>3. CASE fetch'.pc = "idle" /\ e.kind = "edit"
      <3>1. \A g \in News(t) : Structural(g) => g \in News(t)' BY <1>1, <2>3 DEF Structural
      <3>2. Removed(t) => Removed(t)' BY <1>1 DEF Removed
      <3>3. Membership(s, t) BY <1>3 DEF Faithful
      <3> QED BY <1>1, <2>3, <3>1, <3>2, <3>3 DEF Membership, Structural
    <2> QED BY <1>1, <2>1, <2>2, <2>3
  <1>5. SUFFICES ASSUME s.state = "shown"
                 PROVE  /\ 0 < s.ver /\ s.ver <= row'[t].ver
                        /\ Version(s.ver, t)'
                        /\ \A g \in Fields : Field(s.by[g], t, g)'
                        /\ Seen(s, t)'
                        /\ Overtakes(s, t)'
    BY <1>3, <1>4 DEF Faithful
  <1>6. e.kind \in {"create", "restore"} BY <1>1, <1>5
  <1>7. /\ 0 < s.ver /\ s.ver <= row[t].ver
        /\ Seen(s, t) /\ Overtakes(s, t)
        /\ \A g \in Fields : Field(s.by[g], t, g)
    BY <1>3, <1>5 DEF Faithful
  <1>8. Version(s.ver, t)'
    <2>1. CASE e.kind = "restore" BY <2>1 DEF Version
    <2>2. CASE e.kind = "create" /\ s.ver # row[t].ver
      <3>1. e.ver = 1 /\ row[t].ver > 1 BY <1>1, <1>2, <1>7, <2>2 DEF LogInv, Versions
      <3>2. PICK g \in events : g.task = t /\ g.ver = row[t].ver
        BY <1>1, <3>1 DEF LogInv, Versions
      <3> QED BY <1>1, <3>1, <3>2 DEF Version
    <2>3. CASE s.ver = row[t].ver BY <1>1, <2>3 DEF Version
    <2> QED BY <1>6, <2>1, <2>2, <2>3
  <1>9. ASSUME NEW v, NEW g \in Fields, Field(v, t, g) PROVE Field(v, t, g)'
    <2>1. NewsOf(t, g) \subseteq NewsOf(t, g)' BY <1>1, <1>6 DEF NewsOf
    <2> QED BY <1>1, <1>9, <2>1 DEF Field
  <1>10. Seen(s, t)' BY <1>1, <1>7 DEF Seen
  <1>11. Overtakes(s, t)'
    <2>1. SUFFICES ASSUME NEW m \in Mutations, mut[m].pc = "ok", mut[m].kind = "edit", mut[m].task = t
                   PROVE  s.ver > mut[m].answer.ver \/ NewsPast(t, mut[m].answer.ver)'
      BY <1>1 DEF Overtakes
    <2> DEFINE a == mut[m].answer
    <2>2. a.ver \in Nat BY Parts DEF Row
    <2>3. AsOf(a, t) /\ a.state = "live"
          /\ \E h \in events : h.task = t /\ h.kind = "edit" /\ h.ver = a.ver
      BY <2>1 DEF EditsKnown, Known
    <2>4. s.ver > a.ver \/ NewsPast(t, a.ver) BY <1>7, <2>1 DEF Overtakes
    <2>5. ASSUME NewsPast(t, a.ver) PROVE NewsPast(t, a.ver)'
      <3>1. CASE e.ver <= a.ver
        <4>1. NewsPast(t, a.ver)' <=> \A g \in events' : g.task = t /\ g.ver > a.ver => g \in Pending'
          BY <1>1 DEF NewsPast
        <4>2. \A v \in Nat : e.ver <= v => \A g \in events' : g.task = t /\ g.ver > v => g \in Pending'
          BY <1>1 DEF NewsPast
        <4> QED BY <2>2, <3>1, <4>1, <4>2
      <3>2. CASE ~(e.ver <= a.ver)
        <4>1. a.ver > 0 BY <2>3 DEF AsOf
        <4>2. e.kind = "restore" BY <1>1, <1>6, <2>2, <3>2, <4>1 DEF LogInv, Versions
        <4>3. PICK d \in events : d.task = t /\ d.kind = "delete" /\ d.ver + 1 = e.ver
          BY <1>1, <1>3, <4>2 DEF LogInv, Deletions
        <4>4. d.ver \in Nat BY Numbers
        <4>5. d.ver # a.ver BY <2>3, <4>3 DEF LogInv, Versions
        <4>6. d.ver > a.ver /\ d # e BY <1>1, <2>2, <3>2, <4>3, <4>4, <4>5
        <4>7. d \in News(t) BY <2>5, <4>3, <4>6 DEF NewsPast, News
        <4>8. d.ver > e.ver BY <1>1, <4>6, <4>7
        <4> QED BY <1>1, <4>3, <4>4, <4>8
      <3> QED BY <3>1, <3>2
    <2> QED BY <2>4, <2>5
  <1> QED BY <1>1, <1>7, <1>8, <1>9, <1>10, <1>11

\* An edit is patched in: the task has its version, and its fields but for those that
\* are skipped.
LEMMA ReceivedEdit ==
  ASSUME TypeOK, TypeOK', LogInv, Receive, Trusted, NEW e, e = Head(wire),
         NEW s \in Shown, Faithful(s, e.task), e.kind = "edit", s.state = "shown",
         fetch' = fetch, \A f \in Passed(s, e) : <<e.task, f>> \in skipped'
  PROVE  Faithful(Patched(s, e), e.task)'
  <1> DEFINE t == e.task
             p == [state |-> "shown", ver |-> e.ver, by |-> Merged(s.by, e)]
  <1>1. /\ e \in events /\ t \in Tasks /\ e.ver \in Nat /\ e.fields \subseteq Fields
        /\ UNCHANGED <<row, events, mut, patched>> /\ skipped \subseteq skipped'
        /\ \A h \in News(t) : h # e => h.ver > e.ver /\ h \in News(t)'
        /\ News(t)' \subseteq News(t) \ {e}
        /\ \A g \in events : g.task = t /\ g.ver > e.ver => g \in News(t)'
        /\ \A v \in Nat : e.ver <= v => NewsPast(t, v)'
    BY HeadParts
  <1>2. row[t].ver \in Nat /\ \A f \in Fields : row[t].by[f] \in Nat BY <1>1, RowParts
  <1>3. Patched(s, e) = p BY DEF Patched
  <1>4. \A f \in e.fields : f \in Folded \/ s.by[f] = e.ver \/ <<t, f>> \in skipped'
    BY DEF Passed
  <1>5. /\ p.state = "shown" /\ p.ver = e.ver
        /\ \A f \in Fields : p.by[f] = IF f \in e.fields \cap Folded THEN e.ver ELSE s.by[f]
    BY DEF Merged
  <1>6. /\ e.task = t /\ 0 < e.ver /\ e.ver <= row[t].ver
        /\ \A f \in e.fields : e.ver <= row[t].by[f]
    BY <1>1 DEF LogInv, Versions
  <1> HIDE DEF p, t
  <1>7. \A f \in Fields : Field(s.by[f], t, f) BY <1>6 DEF Faithful
  <1>8. Membership(p, t)'
    <2>1. Membership(s, t) BY <1>6 DEF Faithful
    <2>2. \A g \in News(t) : Structural(g) => g \in News(t)' BY <1>1 DEF Structural
    <2> QED BY <1>1, <1>5, <2>1, <2>2 DEF Membership, Structural
  <1>9. Version(e.ver, t)'
    <2>1. SUFFICES ASSUME e.ver # row[t].ver PROVE News(t)' # {} BY <1>1 DEF Version
    <2>2. row[t].ver > 1 /\ row[t].ver > e.ver BY <1>1, <1>2, <1>6, <2>1
    <2>3. PICK g \in events : g.task = t /\ g.ver = row[t].ver
      BY <1>1, <2>2 DEF LogInv, Versions
    <2> QED BY <1>1, <2>2, <2>3
  <1>10. ASSUME NEW f \in Fields PROVE Field(p.by[f], t, f)'
    <2>1. CASE f \in e.fields /\ p.by[f] = e.ver
      <3>1. e.ver \notin Mutations BY <1>1, EditsAreApart
      <3>2. SUFFICES ASSUME e.ver # row[t].by[f] PROVE NewsOf(t, f)' # {}
        BY <1>1, <2>1, <3>1 DEF Field
      <3>3. row[t].by[f] > 1 /\ row[t].by[f] > e.ver BY <1>1, <1>2, <1>6, <2>1, <3>2
      <3>4. PICK g \in events : /\ g.task = t /\ g.kind = "edit"
                                /\ f \in g.fields /\ g.ver = row[t].by[f]
        BY <1>1, <3>3 DEF LogInv, Versions
      <3> QED BY <1>1, <3>3, <3>4 DEF NewsOf
    <2>2. CASE f \notin e.fields
      <3>1. NewsOf(t, f) \subseteq NewsOf(t, f)' BY <1>1, <2>2 DEF NewsOf
      <3>2. ASSUME NEW v, Field(v, t, f) PROVE Field(v, t, f)'
        BY <1>1, <3>1, <3>2 DEF Field
      <3> QED BY <1>5, <1>7, <2>2, <3>2
    <2>3. CASE <<t, f>> \in skipped' BY <2>3 DEF Field
    <2> QED BY <1>4, <1>5, <2>1, <2>2, <2>3
  <1>11. Seen(p, t)'
    <2>1. SUFFICES ASSUME e.ver = row[t].ver, NEW f \in Fields, p.by[f] \notin Mutations,
                          <<t, f>> \notin skipped'
                   PROVE  p.by[f] = row[t].by[f]
      BY <1>1, <1>5 DEF Seen
    <2>2. CASE f \in e.fields /\ p.by[f] = e.ver
      BY <1>1, <1>2, <1>6, <2>1, <2>2 DEF LogInv, Versions
    <2>3. CASE f \notin e.fields
      <3>1. NewsOf(t, f) = {}
        <4>1. SUFFICES ASSUME NEW h \in NewsOf(t, f) PROVE FALSE OBVIOUS
        <4>2. h \in News(t) /\ h # e BY <2>3 DEF NewsOf
        <4>3. h \in events /\ h.task = t BY <4>2, PendingParts DEF News, LogInv
        <4>4. h.ver > e.ver /\ h.ver <= row[t].ver /\ h.ver \in Nat
          BY <1>1, <4>2, <4>3, Numbers DEF LogInv, Versions
        <4> QED BY <1>1, <1>2, <2>1, <4>4
      <3> QED BY <1>1, <1>5, <1>7, <2>1, <2>3, <3>1 DEF Field
    <2> QED BY <1>4, <1>5, <2>1, <2>2, <2>3
  <1>12. Overtakes(p, t)'
    <2>1. SUFFICES ASSUME NEW m \in Mutations, ~(e.ver > mut'[m].answer.ver)
                   PROVE  NewsPast(t, mut[m].answer.ver)'
      BY <1>5 DEF Overtakes
    <2>2. mut'[m].answer.ver \in Nat BY DEF TypeOK, Mutation, Row
    <2>3. e.ver <= mut'[m].answer.ver BY <1>1, <2>1, <2>2
    <2>4. \A v \in Nat : e.ver <= v => \A g \in events' : g.task = t /\ g.ver > v => g \in Pending'
      BY <1>1 DEF NewsPast
    <2> QED BY <2>2, <2>3, <2>4 DEF NewsPast
  <1>13. Faithful(p, t)'
    BY <1>1, <1>5, <1>6, <1>8, <1>9, <1>10, <1>11, <1>12 DEF Faithful
  <1>14. ASSUME NEW q, q = p PROVE Faithful(q, t)'
    BY <1>13, <1>14
  <1> QED BY <1>3, <1>6, <1>14

\* A task that is created is shown as it was created.
LEMMA ReceivedCreate ==
  ASSUME TypeOK, TypeOK', LogInv, Receive, Trusted, NEW e, e = Head(wire), e.kind = "create"
  PROVE  Faithful(Listed(First), e.task)'
  <1> DEFINE t == e.task
  <1>1. /\ e \in events /\ t \in Tasks /\ e.ver \in Nat
        /\ UNCHANGED <<row, events>>
        /\ \A v \in Nat : e.ver <= v => NewsPast(t, v)'
    BY HeadParts
  <1>2. /\ row[t].ver \in Nat /\ row[t].state \in {"absent", "live", "deleted"}
        /\ row[t].by \in [Fields -> Nat] /\ row[t] \in Row
    BY <1>1, RowParts
  <1>3. e.ver = 1 /\ e.ver <= row[t].ver BY <1>1 DEF LogInv, Versions
  <1>4. \A f \in Fields : 0 < row[t].by[f] BY <1>1, <1>2, <1>3 DEF LogInv, Versions
  <1>5. /\ First.state = "live" /\ First.ver = 1 /\ First.by = [f \in Fields |-> 1]
        /\ First \in Row
    BY ConstantsTyped DEF First
  <1>6. AsOf(First, t)
    <2>1. First.ver = row[t].ver => First = row[t]
      <3>1. SUFFICES ASSUME row[t].ver = 1 PROVE First = row[t] BY <1>5
      <3>2. row[t].state = "live"
        <4>1. row[t].state # "absent" BY <1>1, <3>1 DEF LogInv, Versions
        <4>2. row[t].state # "deleted"
          <5>1. SUFFICES ASSUME row[t].state = "deleted" PROVE FALSE OBVIOUS
          <5>2. PICK d \in events : d.task = t /\ d.kind = "delete" /\ d.ver = 1
            BY <1>1, <3>1, <5>1 DEF LogInv, Deletions
          <5>3. d = e BY <1>1, <1>3, <5>2 DEF LogInv, Versions
          <5> QED BY <5>2, <5>3
        <4> QED BY <1>2, <4>1, <4>2
      <3>3. \A f \in Fields : row[t].by[f] = 1
        BY <1>1, <1>2, <1>4, <3>1 DEF LogInv, Versions
      <3>4. row[t].by = [f \in Fields |-> 1] BY <1>2, <3>3
      <3> QED BY <1>2, <3>1, <3>2, <3>4 DEF First, Row
    <2>2. \A f \in Fields : row[t].by[f] <= 1 => row[t].by[f] = 1 BY <1>2, <1>4
    <2>3. \/ row[t].state = "live"
          \/ \E g \in events : g.task = t /\ Structural(g) /\ g.ver > 1
      BY <1>1, <1>3 DEF LogInv, Deletions, Structural
    <2> QED BY <1>1, <1>2, <1>3, <1>5, <2>1, <2>2, <2>3 DEF AsOf
  <1>7. NewsPast(t, 1)' BY <1>1, <1>3
  <1> HIDE DEF t
  <1>8. e.task = t BY DEF t
  <1>9. ASSUME NEW r \in Row, AsOf(r, e.task), r.ver = 1 PROVE Faithful(Listed(r), e.task)'
    <2>1. NewsPast(e.task, r.ver)' BY <1>7, <1>9 DEF t, NewsPast
    <2> QED BY <1>1, <1>8, <1>9, <2>1, ListedFaithful
  <1>10. \A r \in Row : AsOf(r, e.task) /\ r.ver = 1 => \A s : s = Listed(r) => Faithful(s, e.task)'
    BY <1>9
  <1> QED BY <1>5, <1>6, <1>8, <1>10

\* A task that is deleted is not shown.
LEMMA ReceivedDelete ==
  ASSUME TypeOK, LogInv, Receive, Trusted, NEW e, e = Head(wire), e.kind = "delete"
  PROVE  Faithful(Hidden, e.task)'
  <1> DEFINE t == e.task
  <1>1. /\ e \in events /\ t \in Tasks /\ e.ver \in Nat
        /\ UNCHANGED <<row, events>>
        /\ \A g \in events : g.task = t /\ g.ver > e.ver => g \in News(t)'
    BY HeadParts
  <1>2. \/ row[t].state # "live"
        \/ \E g \in events : g.task = t /\ Structural(g) /\ g.ver > e.ver
    BY <1>1 DEF LogInv, Deletions, Structural
  <1>3. \/ row'[t].state # "live"
        \/ \E g \in News(t)' : Structural(g)
    BY <1>1, <1>2
  <1> HIDE DEF t
  <1>4. e.task = t BY DEF t
  <1>5. ASSUME NEW s, s.state = "hidden" PROVE Faithful(s, t)'
    BY <1>3, <1>5 DEF Faithful, Membership, Structural
  <1>6. Hidden.state = "hidden" BY DEF Hidden
  <1> QED BY <1>4, <1>5, <1>6

LEMMA ReceiveUndrifted ==
  ASSUME TypeOK, TypeOK', LogInv, FetchKnown, EditsKnown, Undrifted, Receive
  PROVE  Undrifted'
  <1>1. upset' = InFlight /\ UNCHANGED <<mut, patched, row, events>> BY DEF Receive, server
  <1>2. InFlight' = InFlight BY <1>1 DEF InFlight
  <1>3. SUFFICES ASSUME cause' = {}, NEW t \in Tasks PROVE Faithful(list[t], t)'
    BY <1>1, <1>2 DEF Undrifted
  <1>4. cause = {} /\ Trusted BY <1>3 DEF Receive, Notes, Trusted
  <1>5. PICK e : e = Head(wire) OBVIOUS
  <1>6. /\ list' = IF loaded = "no" THEN list
                   ELSE [list EXCEPT ![e.task] = Patched(list[e.task], e)]
        /\ fetch' = IF e.kind = "restore" THEN Invalidated ELSE fetch
        /\ skipped' = skipped \cup ({e.task} \X Passed(list[e.task], e))
    BY <1>5 DEF Receive
  <1>7. fetch.pc # "idle" \/ e.kind = "restore" => fetch'.pc # "idle"
    BY <1>6 DEF Invalidated
  <1>8. /\ e.task \in Tasks /\ e.kind \in {"edit", "delete", "restore", "create"}
        /\ e \in Event /\ \A u \in Tasks : u # e.task => News(u)' = News(u)
    BY <1>4, <1>5, HeadParts
  <1>9. Faithful(list[t], t) /\ list[t] \in Shown BY <1>4, Parts DEF Undrifted
  <1>10. CASE loaded = "no"
    <2>1. fetch'.pc # "idle" /\ list'[t].state = "hidden" BY <1>6, <1>7, <1>10 DEF FetchKnown
    <2> QED BY <2>1 DEF Faithful, Membership
  <1>11. CASE loaded # "no" /\ t # e.task
    <2>1. list'[t] = list[t] BY <1>6, <1>8, <1>11 DEF TypeOK
    <2>2. News(t)' = News(t) BY <1>8, <1>11
    <2>3. Removed(t) => Removed(t)' BY <1>1 DEF Removed
    <2>4. \A m \in Mutations : Onward(m) BY <1>1 DEF Onward
    <2>5. ASSUME NEW s, Faithful(s, t) PROVE Faithful(s, t)'
      BY <1>1, <1>6, <1>7, <2>2, <2>3, <2>4, <2>5, StillFaithful
    <2> QED BY <1>9, <2>1, <2>5
  <1>12. CASE loaded # "no" /\ t = e.task
    <2>1. list'[t] = Patched(list[t], e) BY <1>6, <1>8, <1>12 DEF TypeOK
    <2>2. ASSUME NEW s \in Shown, Faithful(s, e.task),
                 \A f \in Passed(s, e) : <<e.task, f>> \in skipped'
          PROVE  \A q : q = Patched(s, e) => Faithful(q, e.task)'
      <3>1. CASE e.kind = "edit" /\ s.state = "shown"
        <4>1. fetch' = fetch BY <1>6, <3>1
        <4>2. Faithful(Patched(s, e), e.task)' BY <1>4, <1>5, <2>2, <3>1, <4>1, ReceivedEdit
        <4> QED BY <4>2
      <3>2. CASE e.kind = "create" /\ s.state = "hidden"
        <4>1. Patched(s, e) = Listed(First) BY <3>2 DEF Patched
        <4>2. Faithful(Listed(First), e.task)' BY <1>4, <1>5, <3>2, ReceivedCreate
        <4> QED BY <4>1, <4>2
      <3>3. CASE e.kind = "delete"
        <4>1. Patched(s, e) = Hidden BY <3>3 DEF Patched
        <4>2. Faithful(Hidden, e.task)' BY <1>4, <1>5, <3>3, ReceivedDelete
        <4> QED BY <4>1, <4>2
      <3>4. CASE /\ e.kind # "delete" /\ ~(e.kind = "edit" /\ s.state = "shown")
                 /\ ~(e.kind = "create" /\ s.state = "hidden")
        <4>1. Patched(s, e) = s BY <3>4 DEF Patched
        <4>2. s.state \in {"hidden", "shown"} BY DEF Shown
        <4>3. Faithful(s, e.task)' BY <1>4, <1>5, <1>7, <2>2, <3>4, <4>2, ReceivedAside
        <4> QED BY <4>1, <4>3
      <3> QED BY <3>1, <3>2, <3>3, <3>4
    <2>3. \A f \in Passed(list[t], e) : <<e.task, f>> \in skipped' BY <1>6, <1>12
    <2> QED BY <1>9, <1>12, <2>1, <2>2, <2>3
  <1> QED BY <1>10, <1>11, <1>12

-----------------------------------------------------------------------------
(* The user edits, and an edit ends.                                       *)

LEMMA MutateDrift ==
  ASSUME TypeOK, TypeOK', PhantomInv, DriftInv, NEW m \in Mutations, NEW t \in Tasks,
         NEW fs \in SUBSET Folded, NEW kind \in {"edit", "delete"}, Mutate(m, t, kind, fs)
  PROVE  DriftInv'
  <1> DEFINE d == IF cause # {} THEN "mishap" ELSE IF t \in patched THEN "patched" ELSE "none"
  <1>1. LogInv' /\ UNCHANGED <<row, events>> /\ Pending' = Pending /\ (Trusted' => Trusted)
    <2>1. OtherStep BY DEF OtherStep
    <2>2. ~AnswerFetch BY DEF Mutate, AnswerFetch
    <2>3. Trusted' => Trusted BY DEF Mutate, NoMishap, Notes, Trusted
    <2> QED BY <2>1, <2>3, OtherLog DEF DriftInv
  <1>2. /\ mut[m].pc = "idle" /\ loaded = "yes" /\ list[t].state = "shown"
        /\ mut' = [mut EXCEPT ![m] =
                     [pc |-> "sent", task |-> t, kind |-> kind, fields |-> fs,
                      expected |-> list[t].ver, ledger |-> list, under |-> InFlight, doubt |-> d,
                      missed |-> {f \in Fields : <<t, f>> \in skipped}, answer |-> Absent]]
        /\ list' = [list EXCEPT ![t] = Optimistic(m, list[t], kind, fs)]
        /\ UNCHANGED <<loaded, fetch, upset, patched, skipped, began>>
        /\ cause' = cause
    BY DEF Mutate, NoMishap, Notes, server, Snapshot
  <1>3. /\ \A n \in Mutations : n # m => mut'[n] = mut[n]
        /\ mut'[m].pc = "sent" /\ mut'[m].task = t /\ mut'[m].kind = kind /\ mut'[m].fields = fs
        /\ mut'[m].expected = list[t].ver /\ mut'[m].ledger = list /\ mut'[m].doubt = d
        /\ mut'[m].missed = {f \in Fields : <<t, f>> \in skipped}
    BY <1>2 DEF TypeOK
  <1>4. /\ \A u \in Tasks : u # t => list'[u] = list[u]
        /\ list'[t] = Optimistic(m, list[t], kind, fs)
    BY <1>2 DEF TypeOK
  <1>5. \A u \in Tasks, g \in Fields : list[u].by[g] # m
    BY <1>2 DEF PhantomInv, ListAccounted, InFlight, Over, Failed, Flying
  <1>6. FetchKnown'
    <2>1. \A r, u : AsOf(r, u) => AsOf(r, u)' BY <1>1, AsOfKept
    <2>2. \A u, v : NewsPast(u, v) => NewsPast(u, v)' BY <1>1 DEF NewsPast
    <2>3. fetch'.pc = "answered" => \A u \in Tasks :
             AsOf(fetch.got[u], u)' /\ (Trusted' => NewsPast(u, fetch.got[u].ver)')
      BY <1>1, <1>2, <2>1, <2>2 DEF DriftInv, FetchKnown
    <2> QED BY <1>2, <2>3 DEF FetchKnown
  <1>7. EditsKnown'
    <2>1. ASSUME NEW n \in Mutations, n # m PROVE Known(n)'
      <3>1. mut'[n] = mut[n] /\ began' = began BY <1>2, <1>3, <2>1
      <3>2. \A r, u : AsOf(r, u) => AsOf(r, u)' BY <1>1, AsOfKept
      <3>3. \A u \in Tasks : row'[u].ver \in Nat /\ row[u].ver <= row'[u].ver BY <1>1, RowParts
      <3>4. Made(n)' => Made(n) BY <3>1 DEF Made
      <3> QED BY <1>1, <3>1, <3>2, <3>3, <3>4, KnownKept DEF DriftInv, EditsKnown
    <2>2. Known(m)' BY <1>2, <1>3, <1>5 DEF Known, Flying
    <2> QED BY <2>1, <2>2 DEF EditsKnown
  <1>8. Sighted'
    <2>1. ASSUME NEW n \in Mutations, n # m PROVE Sight(n)'
      <3>1. Made(n)' => Made(n) /\ SameEdit(n) BY <1>2, <1>3, <2>1 DEF Made, SameEdit
      <3> QED BY <1>1, <3>1, SightKept DEF DriftInv, Sighted
    <2>2. Sight(m)'
      <3>1. SUFFICES ASSUME d = "none"
                     PROVE  /\ list[t].ver <= row[t].ver
                            /\ list[t].ver = row[t].ver =>
                                 \A g \in Fields : \/ <<t, g>> \in skipped
                                                   \/ list[t].by[g] \in Mutations
                                                   \/ list[t].by[g] = row[t].by[g]
        BY <1>1, <1>3 DEF Sight
      <3>2. cause = {} /\ t \notin patched BY <3>1
      <3>3. Faithful(list[t], t) BY <3>2 DEF DriftInv, Undrifted
      <3> QED BY <1>2, <3>2, <3>3 DEF Faithful, Seen
    <2> QED BY <2>1, <2>2 DEF Sighted
  <1>9. Undrifted'
    <2> SUFFICES ASSUME cause' = {}
                 PROVE  /\ \A u \in Tasks : Faithful(list[u], u)'
                        /\ \A n \in (InFlight \ upset)' :
                              /\ \A u \in Tasks : Faithful(mut[n].ledger[u], u)'
                              /\ (mut[n].pc = "conflict" =>
                                    /\ mut[n].expected <= mut[n].answer.ver
                                    /\ Version(mut[n].answer.ver, mut[n].task))'
      BY DEF Undrifted
    <2>1. cause = {} BY <1>2
    <2>2. \A u \in Tasks : News(u)' = News(u) BY <1>1 DEF News
    <2>3. \A u \in Tasks : Removed(u) => Removed(u)'
      <3>1. \A n \in Mutations : mut[n].pc \in {"sent", "conflict", "lost"} => mut'[n] = mut[n]
        BY <1>2, <1>3
      <3> QED BY <3>1 DEF Removed
    <2>4. ASSUME NEW s, NEW u \in Tasks, Faithful(s, u) PROVE Faithful(s, u)'
      <3>1. \A g \in Fields : s.by[g] \in Mutations =>
               Onward(s.by[g]) \/ Accepted(s.by[g]) \/ mut[s.by[g]].pc = "idle"
        BY <1>2, <1>3 DEF Onward
      <3>2. \A n \in Mutations : mut'[n].pc = "ok" => mut'[n] = mut[n] BY <1>3
      <3> QED BY <1>1, <1>2, <2>2, <2>3, <2>4, <3>1, <3>2, StillFaithful
    <2>5. \A u \in Tasks : Faithful(list[u], u) BY <2>1 DEF DriftInv, Undrifted
    <2>6. ASSUME NEW u \in Tasks PROVE Faithful(list[u], u)'
      <3>1. CASE u # t BY <1>4, <2>4, <2>5, <3>1
      <3>2. CASE u = t /\ kind = "delete"
        <4>1. list'[u].state = "hidden" BY <1>4, <3>2 DEF Optimistic, Hidden
        <4>2. Removed(t)' BY <1>3, <3>2 DEF Removed
        <4> QED BY <3>2, <4>1, <4>2 DEF Faithful, Membership
      <3>3. CASE u = t /\ kind = "edit"
        <4>1. /\ list'[t].state = list[t].state /\ list'[t].ver = list[t].ver
              /\ \A g \in Fields : list'[t].by[g] = IF g \in fs THEN m ELSE list[t].by[g]
          BY <1>4, <3>3 DEF Optimistic, Tagged
        <4>2. ASSUME NEW s, Faithful(s, t)', NEW q, q.state = s.state, q.ver = s.ver,
                     \A g \in Fields : q.by[g] = IF g \in fs THEN m ELSE s.by[g]
              PROVE  Faithful(q, t)'
          <5>1. \A g \in fs : Field(m, t, g)' BY <1>3, <3>3 DEF Field, Flying
          <5>2. q.state = "shown" => \A g \in Fields : Field(q.by[g], t, g)'
            <6>1. q.state = "shown" => \A g \in Fields : Field(s.by[g], t, g)'
              BY <4>2 DEF Faithful
            <6> QED BY <4>2, <5>1, <6>1
          <5>3. Membership(q, t)' BY <4>2 DEF Faithful, Membership
          <5>4. q.state = "shown" =>
                  0 < q.ver /\ q.ver <= row'[t].ver /\ Version(q.ver, t)' /\ Overtakes(q, t)'
            BY <4>2 DEF Faithful, Overtakes, Version
          <5>5. q.state = "shown" => Seen(q, t)' BY <4>2 DEF Faithful, Seen
          <5> QED BY <5>2, <5>3, <5>4, <5>5 DEF Faithful
        <4>3. \A s : s = list[t] => Faithful(s, t)' BY <2>4, <2>5
        <4> QED BY <3>3, <4>1, <4>2, <4>3
      <3> QED BY <3>1, <3>2, <3>3
    <2>7. ASSUME NEW n \in (InFlight \ upset)'
          PROVE  /\ \A u \in Tasks : Faithful(mut[n].ledger[u], u)'
                 /\ (mut[n].pc = "conflict" => /\ mut[n].expected <= mut[n].answer.ver
                                              /\ Version(mut[n].answer.ver, mut[n].task))'
      <3>1. CASE n = m
        <4>1. \A u \in Tasks : mut'[n].ledger[u] = list[u] /\ mut'[n].pc # "conflict"
          BY <1>3, <3>1
        <4> QED BY <2>4, <2>5, <4>1
      <3>2. CASE n # m
        <4>1. n \in Mutations /\ mut'[n] = mut[n] /\ n \in InFlight \ upset
          BY <1>2, <1>3, <3>2 DEF InFlight
        <4>2. /\ \A u \in Tasks : Faithful(mut[n].ledger[u], u)
              /\ mut[n].pc = "conflict" => /\ mut[n].expected <= mut[n].answer.ver
                                          /\ Version(mut[n].answer.ver, mut[n].task)
          BY <2>1, <4>1 DEF DriftInv, Undrifted
        <4>3. \A v, u : u \in Tasks /\ Version(v, u) => Version(v, u)'
          BY <1>1, <1>2, <2>2 DEF Version
        <4>4. mut[n].task \in Tasks BY <4>1, Parts
        <4> QED BY <2>4, <4>1, <4>2, <4>3, <4>4
      <3> QED BY <3>1, <3>2
    <2> QED BY <2>6, <2>7
  <1> QED BY <1>1, <1>6, <1>7, <1>8, <1>9 DEF DriftInv

\* What an edit leaves behind when it ends.
LEMMA SettleEdits ==
  ASSUME TypeOK, LogInv, EditsKnown, Sighted, UNCHANGED <<row, events, began>>,
         NEW m \in Mutations, NEW pc \in {"done", "failed"}, Settle(m, pc)
  PROVE  EditsKnown' /\ Sighted'
  <1>1. /\ mut'[m].pc = pc /\ \A n \in Mutations : n # m => mut'[n] = mut[n]
        /\ began[m] # 0 => SameEdit(m)
    BY DEF Settle, TypeOK, Spare, Turned, SameEdit
  <1>2. \A n \in Mutations : Made(n)' => Made(n) /\ SameEdit(n)
    BY <1>1 DEF Made, Flying, SameEdit
  <1>3. ASSUME NEW n \in Mutations PROVE Known(n)'
    <2>1. Known(n) BY DEF EditsKnown
    <2>2. CASE n # m
      <3>1. \A r, u : AsOf(r, u) => AsOf(r, u)' BY AsOfKept
      <3>2. \A u \in Tasks : row'[u].ver \in Nat /\ row[u].ver <= row'[u].ver BY RowParts
      <3> QED BY <1>1, <1>2, <2>1, <2>2, <3>1, <3>2, KnownKept
    <2>3. CASE n = m
      <3>1. mut'[m].pc \notin Flying /\ mut'[m].pc \notin {"idle", "ok", "conflict"}
        BY <1>1 DEF Flying
      <3> QED BY <1>2, <2>1, <2>3, <3>1 DEF Known, SameEdit
    <2> QED BY <2>2, <2>3
  <1>4. ASSUME NEW n \in Mutations PROVE Sight(n)'
    BY <1>2, SightKept DEF Sighted
  <1> QED BY <1>3, <1>4 DEF EditsKnown, Sighted

\* The parts of the invariant that the end of an edit does not disturb.
LEMMA SettledParts ==
  ASSUME TypeOK, DriftInv, NEW m \in Mutations, Succeed(m) \/ Fail(m)
  PROVE  /\ LogInv' /\ FetchKnown' /\ EditsKnown' /\ Sighted'
         /\ UNCHANGED <<row, events>> /\ Pending' = Pending
         /\ loaded = "yes" /\ fetch' = fetch
  <1>1. LogInv' /\ UNCHANGED <<row, events>> /\ Pending' = Pending /\ (Trusted' => Trusted)
    <2>1. OtherStep BY DEF OtherStep
    <2>2. Trusted' => Trusted BY DEF Succeed, Fail, Notes, Trusted
    <2> QED BY <2>1, <2>2, OtherLog DEF DriftInv
  <1>2. UNCHANGED <<fetch, loaded, row, events, began>> BY DEF Succeed, Fail, server
  <1>3. loaded = "yes"
    <2>1. m \in InFlight BY DEF InFlight, Succeed, Fail, Flying
    <2> QED BY <2>1 DEF DriftInv, FetchKnown, TypeOK
  <1>4. FetchKnown'
    <2>1. \A r, u : AsOf(r, u) => AsOf(r, u)' BY <1>1, AsOfKept
    <2>2. \A u, v : NewsPast(u, v) => NewsPast(u, v)' BY <1>1 DEF NewsPast
    <2>3. fetch'.pc = "answered" => \A u \in Tasks :
             AsOf(fetch.got[u], u)' /\ (Trusted' => NewsPast(u, fetch.got[u].ver)')
      BY <1>1, <1>2, <2>1, <2>2 DEF DriftInv, FetchKnown
    <2> QED BY <1>2, <1>3, <2>3 DEF FetchKnown
  <1>5. EditsKnown' /\ Sighted'
    BY <1>2, SettleEdits DEF DriftInv, Succeed, Fail
  <1> QED BY <1>1, <1>2, <1>3, <1>4, <1>5

LEMMA SucceedDrift ==
  ASSUME TypeOK, TypeOK', DriftInv, NEW m \in Mutations, Succeed(m)
  PROVE  DriftInv'
  <1> DEFINE t == mut[m].task
             r == mut[m].answer
  <1>1. /\ LogInv' /\ FetchKnown' /\ EditsKnown' /\ Sighted'
        /\ UNCHANGED <<row, events>> /\ Pending' = Pending /\ fetch' = fetch
    BY SettledParts
  <1>2. /\ mut[m].pc = "ok" /\ mut'[m].pc = "done" /\ mut'[m].answer = mut[m].answer
        /\ \A n \in Mutations : n # m => mut'[n] = mut[n]
        /\ patched' = patched /\ skipped' = skipped /\ upset' = upset \ {m}
        /\ list' = IF mut[m].kind = "edit" /\ list[t].state = "shown"
                   THEN [list EXCEPT ![t] = Listed(r)] ELSE list
    BY DEF Succeed, Settle, TypeOK, Spare, Turned
  <1>3. t \in Tasks /\ r \in Row /\ r.ver \in Nat BY Parts DEF Row
  <1> HIDE DEF t, r
  <1>4. InFlight' = InFlight \ {m} BY <1>2 DEF InFlight, Flying
  <1>5. Undrifted'
    <2> SUFFICES ASSUME cause' = {}
                 PROVE  /\ \A u \in Tasks : Faithful(list[u], u)'
                        /\ \A n \in (InFlight \ upset)' :
                              /\ \A u \in Tasks : Faithful(mut[n].ledger[u], u)'
                              /\ (mut[n].pc = "conflict" =>
                                    /\ mut[n].expected <= mut[n].answer.ver
                                    /\ Version(mut[n].answer.ver, mut[n].task))'
      BY DEF Undrifted
    <2>1. cause = {} /\ ~(mut[m].kind = "edit" /\ list[t].ver > r.ver)
      BY DEF Succeed, Notes, t, r
    <2>2. \A u \in Tasks : News(u)' = News(u) BY <1>1 DEF News
    <2>3. \A u \in Tasks : Removed(u) => Removed(u)'
      <3>1. \A n \in Mutations : mut[n].pc \in {"sent", "conflict", "lost"} => mut'[n] = mut[n]
        BY <1>2
      <3> QED BY <3>1 DEF Removed
    <2>4. ASSUME NEW s, NEW u \in Tasks, Faithful(s, u) PROVE Faithful(s, u)'
      <3>1. \A g \in Fields : s.by[g] \in Mutations =>
               Onward(s.by[g]) \/ Accepted(s.by[g]) \/ mut[s.by[g]].pc = "idle"
        BY <1>2 DEF Onward, Accepted
      <3>2. \A n \in Mutations : mut'[n].pc = "ok" => mut'[n] = mut[n] BY <1>2
      <3> QED BY <1>1, <1>2, <2>2, <2>3, <2>4, <3>1, <3>2, StillFaithful
    <2>5. \A u \in Tasks : Faithful(list[u], u) /\ list[u] \in Shown
      BY <2>1, Parts DEF DriftInv, Undrifted
    <2>6. ASSUME NEW u \in Tasks PROVE Faithful(list[u], u)'
      <3>1. CASE list'[u] = list[u] BY <2>4, <2>5, <3>1
      <3>2. CASE list'[u] # list[u]
        <4>1. u = t /\ mut[m].kind = "edit" /\ list[t].state = "shown" /\ list'[t] = Listed(r)
          BY <1>2, <1>3, <3>2 DEF TypeOK
        <4>2. AsOf(r, t) BY <1>2, <4>1 DEF DriftInv, EditsKnown, Known, t, r
        <4>3. NewsPast(t, r.ver)
          <5>1. list[t].ver > r.ver \/ NewsPast(t, r.ver)
            BY <1>2, <1>3, <2>5, <4>1 DEF Faithful, Overtakes, t, r
          <5> QED BY <2>1, <4>1, <5>1
        <4>4. ASSUME NEW q \in Row, NEW w \in Tasks, AsOf(q, w), NewsPast(w, q.ver)
              PROVE  Faithful(Listed(q), w)'
          <5>1. NewsPast(w, q.ver)' BY <1>1, <4>4 DEF NewsPast
          <5> QED BY <1>1, <4>4, <5>1, ListedFaithful DEF DriftInv
        <4>5. \A q \in Row, w \in Tasks : AsOf(q, w) /\ NewsPast(w, q.ver) =>
                 \A s : s = Listed(q) => Faithful(s, w)'
          BY <4>4
        <4> QED BY <1>3, <4>1, <4>2, <4>3, <4>5
      <3> QED BY <3>1, <3>2
    <2>7. ASSUME NEW n \in (InFlight \ upset)'
          PROVE  /\ \A u \in Tasks : Faithful(mut[n].ledger[u], u)'
                 /\ (mut[n].pc = "conflict" => /\ mut[n].expected <= mut[n].answer.ver
                                              /\ Version(mut[n].answer.ver, mut[n].task))'
      <3>1. n \in Mutations /\ mut'[n] = mut[n] /\ n \in InFlight \ upset
        BY <1>2, <1>4 DEF InFlight
      <3>2. /\ \A u \in Tasks : Faithful(mut[n].ledger[u], u)
            /\ mut[n].pc = "conflict" => /\ mut[n].expected <= mut[n].answer.ver
                                        /\ Version(mut[n].answer.ver, mut[n].task)
        BY <2>1, <3>1 DEF DriftInv, Undrifted
      <3>3. \A v, u : u \in Tasks /\ Version(v, u) => Version(v, u)'
        BY <1>1, <2>2 DEF Version
      <3>4. mut[n].task \in Tasks BY <3>1, Parts
      <3> QED BY <2>4, <3>1, <3>2, <3>3, <3>4
    <2> QED BY <2>6, <2>7
  <1> QED BY <1>1, <1>5 DEF DriftInv

LEMMA FailDrift ==
  ASSUME TypeOK, TypeOK', DriftInv, NEW m \in Mutations, Fail(m)
  PROVE  DriftInv'
  <1>0. PICK t \in Tasks, back \in [Tasks -> Shown], v \in Nat :
           t = mut[m].task /\ back = mut[m].ledger /\ v = mut[m].answer.ver
    BY Parts DEF Mutation, Row
  <1>1. /\ LogInv' /\ FetchKnown' /\ EditsKnown' /\ Sighted'
        /\ UNCHANGED <<row, events>> /\ Pending' = Pending /\ fetch' = fetch
    BY SettledParts
  <1>2. /\ mut[m].pc \in {"conflict", "lost"} /\ mut'[m].pc = "failed"
        /\ \A n \in Mutations : n # m => mut'[n] = mut[n]
        /\ upset' = InFlight \ {m} /\ skipped' = skipped
        /\ patched' = IF mut[m].pc = "conflict" THEN patched \cup {t} ELSE patched
        /\ list' = IF mut[m].pc = "conflict" THEN [back EXCEPT ![t] = Versioned(back[t], v)]
                   ELSE back
    BY <1>0 DEF Fail, Settle, TypeOK, Spare, Turned
  <1>3. t \in Tasks /\ back \in [Tasks -> Shown] /\ v \in Nat BY <1>0
  <1>4. /\ back[t].state = "shown" /\ back[t].ver = mut[m].expected
        /\ \A u \in Tasks, f \in Fields : back[u].by[f] # m
        /\ mut[m].pc = "conflict" => 0 < v /\ v <= row[t].ver
    BY <1>0, <1>2 DEF DriftInv, EditsKnown, Known, Made, Flying
  <1>5. m \in InFlight /\ InFlight' = InFlight \ {m} BY <1>2 DEF InFlight, Flying
  <1>6. Undrifted'
    <2>1. SUFFICES ASSUME cause' = {} PROVE \A u \in Tasks : Faithful(list[u], u)'
      BY <1>2, <1>5 DEF Undrifted
    <2>2. cause = {} /\ m \notin upset BY <2>1 DEF Fail, Notes
    <2>3. /\ \A u \in Tasks : Faithful(back[u], u)
          /\ mut[m].pc = "conflict" => mut[m].expected <= v /\ Version(v, t)
      BY <1>0, <1>5, <2>2 DEF DriftInv, Undrifted
    <2>4. \A u \in Tasks : News(u)' = News(u) BY <1>1 DEF News
    <2>5. \A u \in Tasks : u # t => (Removed(u) => Removed(u)') BY <1>0, <1>2 DEF Removed
    <2>6. ASSUME NEW u \in Tasks, NEW s, Faithful(s, u), \A f \in Fields : s.by[f] # m,
                 u = t => s.state = "shown"
          PROVE  Faithful(s, u)'
      <3>1. \A f \in Fields : s.by[f] \in Mutations =>
               Onward(s.by[f]) \/ Accepted(s.by[f]) \/ mut[s.by[f]].pc = "idle"
        BY <1>2, <2>6 DEF Onward
      <3>2. \A n \in Mutations : mut'[n].pc = "ok" => mut'[n] = mut[n] BY <1>2
      <3>3. u \in patched => u \in patched' BY <1>2
      <3>4. s.state = "shown" \/ (Removed(u) => Removed(u)') BY <2>5, <2>6
      <3> QED BY <1>1, <1>2, <2>4, <2>6, <3>1, <3>2, <3>3, <3>4, StillFaithful
    <2>7. \A u \in Tasks : \A s : s = back[u] => Faithful(s, u)' BY <1>4, <2>3, <2>6
    <2>8. ASSUME NEW u \in Tasks PROVE Faithful(list[u], u)'
      <3>1. CASE list'[u] = back[u] BY <2>7, <3>1
      <3>2. CASE list'[u] # back[u]
        <4>1. u = t /\ mut[m].pc = "conflict" /\ list'[t] = Versioned(back[t], v)
          BY <1>2, <1>3, <3>2
        <4>2. t \in patched' BY <1>2, <4>1
        <4>3. /\ list'[t].state = "shown" /\ list'[t].ver = v /\ list'[t].by = back[t].by
          BY <1>4, <4>1 DEF Versioned
        <4>4. 0 < v /\ v <= row'[t].ver /\ back[t].ver <= v /\ back[t].ver \in Nat
          BY <1>1, <1>3, <1>4, <2>3, <4>1 DEF Shown
        <4>5. \A w \in Nat : Version(w, t) => Version(w, t)' BY <1>1, <1>3, <2>4 DEF Version
        <4>6. ASSUME NEW s, Faithful(s, t)', s.state = "shown", s.ver \in Nat,
                     NEW w \in Nat, s.ver <= w, 0 < w, w <= row'[t].ver, Version(w, t)',
                     NEW q, q.state = "shown", q.ver = w, q.by = s.by
              PROVE  Faithful(q, t)'
          <5>1. Membership(q, t)' BY <4>6 DEF Faithful, Membership
          <5>2. Seen(q, t)' BY <4>2 DEF Seen
          <5>3. Overtakes(q, t)'
            <6>1. \A n \in Mutations : mut'[n].answer.ver \in Nat BY DEF TypeOK, Mutation, Row
            <6>2. Overtakes(s, t)' BY <4>6 DEF Faithful
            <6>3. \A n \in Mutations : s.ver > mut'[n].answer.ver => q.ver > mut'[n].answer.ver
              BY <4>6, <6>1
            <6> QED BY <6>2, <6>3 DEF Overtakes
          <5>4. \A f \in Fields : Field(q.by[f], t, f)' BY <4>6 DEF Faithful
          <5>5. Version(q.ver, t)' BY <4>6
          <5> QED BY <4>6, <5>1, <5>2, <5>3, <5>4, <5>5 DEF Faithful
        <4>7. \A w : w = v => Version(w, t)' BY <1>3, <2>3, <4>1, <4>5
        <4> QED BY <1>3, <1>4, <2>7, <4>1, <4>3, <4>4, <4>6, <4>7
      <3> QED BY <3>1, <3>2
    <2> QED BY <2>8
  <1> QED BY <1>1, <1>6 DEF DriftInv

-----------------------------------------------------------------------------
(* The theorems.                                                           *)

DInv == IInv /\ DriftInv

LEMMA InitDrift == Init => DriftInv
  <1> SUFFICES ASSUME Init PROVE DriftInv OBVIOUS
  <1>0. TypeOK BY InitInv DEF IInv
  <1>1. /\ events = {} /\ wire = << >> /\ clock = 0 /\ mark = 0
        /\ \A x \in Edits : began[x] = 0
        /\ \A m \in Mutations : mut[m].pc = "idle" /\ began[m] = 0
        /\ \A t \in Tasks : list[t].state = "hidden"
        /\ fetch.pc = "asked"
    BY DEF Init, Spare, Empty, Hidden, Edits
  <1>2. Pending = {} BY <1>1 DEF Pending, Untapped
  <1>3. InFlight = {} BY <1>1 DEF InFlight, Flying
  <1>4. Instants BY <1>1 DEF Instants
  <1>5. \A t \in Tasks : row[t] = Absent \/ row[t] = First BY DEF Init
  <1>6. \A t \in Tasks : /\ row[t].state = "absent" <=> row[t].ver = 0
                         /\ row[t].state # "deleted" /\ row[t].ver \in {0, 1}
                         /\ \A f \in Fields : row[t].by[f] = row[t].ver
    BY <1>5 DEF Absent, First
  <1>7. Versions BY <1>1, <1>6 DEF Versions
  <1>8. Deletions BY <1>1, <1>6 DEF Deletions
  <1>9. Wired BY <1>1 DEF Wired
  <1>10. Ordered BY <1>2 DEF Ordered
  <1>11. FetchKnown BY <1>1, <1>3 DEF FetchKnown
  <1>12. EditsKnown BY <1>1 DEF EditsKnown, Known, Made, Flying
  <1>13. Sighted BY <1>1 DEF Sighted, Sight, Made, Flying
  <1>14. \A t \in Tasks : Faithful(list[t], t) BY <1>1 DEF Faithful, Membership
  <1>15. Undrifted BY <1>3, <1>14 DEF Undrifted
  <1> QED BY <1>4, <1>7, <1>8, <1>9, <1>10, <1>11, <1>12, <1>13, <1>15 DEF DriftInv, LogInv

LEMMA SteadyDrift ==
  ASSUME TypeOK, DriftInv, Steady
  PROVE  DriftInv'
  BY SteadyParts, SteadyFetch, SteadyEdits, SteadyUndrifted DEF DriftInv

LEMMA CommitDrift ==
  ASSUME TypeOK, TypeOK', DriftInv, NEW x, NEW t \in Tasks, NEW fs \in SUBSET Fields,
         NEW kind \in {"edit", "delete", "restore", "create"}, Commit(x, t, kind, fs)
  PROVE  DriftInv'
  <1>1. LogInv' BY CommitParts, PublishLog DEF DriftInv
  <1>2. EditsKnown' /\ Sighted' BY CommitEdits DEF DriftInv
  <1>3. FetchKnown' BY CommitFetch DEF DriftInv
  <1>4. Undrifted' BY CommitUndrifted DEF DriftInv
  <1> QED BY <1>1, <1>2, <1>3, <1>4 DEF DriftInv

LEMMA ReceiveDrift ==
  ASSUME TypeOK, TypeOK', DriftInv, Receive
  PROVE  DriftInv'
  <1>1. LogInv' /\ UNCHANGED <<row, events>> BY ReceiveLog DEF DriftInv
  <1>2. FetchKnown' BY ReceiveFetch DEF DriftInv
  <1>3. mut' = mut /\ began' = began BY DEF Receive, server
  <1>4. EditsKnown'
    <2>1. \A r, t : AsOf(r, t) => AsOf(r, t)' BY <1>1, AsOfKept
    <2>2. \A t \in Tasks : row'[t].ver \in Nat /\ row[t].ver <= row'[t].ver BY <1>1, RowParts
    <2> QED BY <1>1, <1>3, <2>1, <2>2, KnownKept DEF DriftInv, EditsKnown, Made
  <1>5. Sighted' BY <1>1, <1>3, SightKept DEF DriftInv, Sighted, Made, SameEdit
  <1>6. Undrifted' BY ReceiveUndrifted DEF DriftInv
  <1> QED BY <1>1, <1>2, <1>4, <1>5, <1>6 DEF DriftInv

LEMMA NextDrift == DInv /\ [Next]_vars => DInv'
  <1> SUFFICES ASSUME DInv, [Next]_vars PROVE DInv' OBVIOUS
  <1>1. TypeOK /\ PhantomInv /\ DriftInv /\ IInv BY DEF DInv, IInv
  <1>2. IInv' /\ TypeOK' BY <1>1, NextInv DEF IInv
  <1>3. ASSUME Steady PROVE DriftInv' BY <1>1, <1>3, SteadyDrift
  <1>4. ASSUME NEW x \in Others, NEW t \in Tasks, NEW fs \in SUBSET Fields,
               NEW kind \in {"edit", "delete", "restore", "create"}, CommitOther(x, t, kind, fs)
        PROVE  DriftInv'
    <2>1. Commit(x, t, kind, fs) BY <1>4 DEF Commit
    <2> QED BY <1>1, <1>2, <2>1, CommitDrift
  <1>5. ASSUME NEW m \in Mutations, CommitMine(m) PROVE DriftInv'
    <2>1. PICK along \in SUBSET (Fields \ Folded) :
             Publishes(m, mut[m].task, mut[m].kind, mut[m].fields \cup along)
      BY <1>5 DEF CommitMine
    <2>2. PICK t \in Tasks, fs \in SUBSET Fields, kind \in {"edit", "delete", "restore", "create"} :
             t = mut[m].task /\ fs = mut[m].fields \cup along /\ kind = mut[m].kind
      BY <1>1, Parts DEF Mutation
    <2>3. Commit(m, t, kind, fs) BY <1>5, <2>1, <2>2 DEF Commit, CommitMine
    <2> QED BY <1>1, <1>2, <2>3, CommitDrift
  <1>6. ASSUME LandFetch PROVE DriftInv' BY <1>1, <1>2, <1>6, LandDrift
  <1>7. ASSUME Receive PROVE DriftInv' BY <1>1, <1>2, <1>7, ReceiveDrift
  <1>8. ASSUME NEW m \in Mutations, Succeed(m) \/ Fail(m) PROVE DriftInv'
    BY <1>1, <1>2, <1>8, SucceedDrift, FailDrift
  <1>9. ASSUME NEW m \in Mutations, NEW t \in Tasks, NEW fs \in SUBSET Folded,
               NEW kind \in {"edit", "delete"}, Mutate(m, t, kind, fs)
        PROVE  DriftInv'
    BY <1>1, <1>2, <1>9, MutateDrift
  <1>10. DriftInv'
    BY <1>3, <1>4, <1>5, <1>6, <1>7, <1>8, <1>9 DEF Next, ServerStep, ClientStep, Steady
  <1> QED BY <1>2, <1>10 DEF DInv

LEMMA SpecDrift == Spec => []DInv
  <1>1. Init => DInv BY InitInv, InitDrift DEF DInv
  <1> QED BY <1>1, NextDrift, PTL DEF Spec

\* When nothing is under way any more, the list of the browser shows every task as it is
\* in the database, unless an event was late, inverted or missed, an answer overtaken, or
\* a list rolled back over news; and but for the fields without a branch in mergeTaskPatch
\* that an event wrote since (apply-planner-event.ts, use-optimistic-mutation.ts).
THEOREM DriftOnlyForCause == Spec => []DriftForCause
  <1>1. DInv => DriftForCause
    <2> SUFFICES ASSUME DInv, Quiet, cause = {}, NEW t \in Tasks PROVE ~Drift(t)
      BY DEF DriftForCause
    <2>1. TypeOK /\ DriftInv BY DEF DInv, IInv
    <2>2. Faithful(list[t], t) BY <2>1 DEF DriftInv, Undrifted
    <2>3. Pending = {} BY DEF Quiet, Pending
    <2>4. News(t) = {} /\ \A f \in Fields : NewsOf(t, f) = {} BY <2>3 DEF News, NewsOf
    <2>5. \A m \in Mutations : mut[m].pc \notin Flying BY DEF Quiet, InFlight
    <2>6. ~Removed(t) BY <2>5 DEF Removed, Flying
    <2>7. (list[t].state = "shown") <=> (row[t].state = "live")
      BY <2>2, <2>4, <2>6 DEF Faithful, Membership, Quiet
    <2>8. ASSUME list[t].state = "shown", NEW f \in Fields, <<t, f>> \notin skipped
          PROVE  list[t].ver = row[t].ver /\ Means(list[t].by[f]) = row[t].by[f]
      <3>1. Version(list[t].ver, t) /\ Field(list[t].by[f], t, f) BY <2>2, <2>8 DEF Faithful
      <3>2. list[t].ver = row[t].ver BY <2>4, <3>1 DEF Version, Quiet
      <3>3. CASE list[t].by[f] \notin Mutations BY <2>4, <2>8, <3>1, <3>2, <3>3 DEF Field, Means
      <3>4. CASE list[t].by[f] \in Mutations BY <2>4, <2>5, <2>8, <3>1, <3>2, <3>4 DEF Field, Means
      <3> QED BY <3>2, <3>3, <3>4
    <2>9. list[t].state = "shown" => list[t].ver = row[t].ver
      BY <2>2, <2>4 DEF Faithful, Version, Quiet
    <2> QED BY <2>7, <2>8, <2>9 DEF Drift
  <1> QED BY <1>1, SpecDrift, PTL

\* The version check accepts an edit from a user who did not see the task as it was only
\* after a mishap, or when a conflict had given the task its version but not its fields
\* (patchTaskVersion), or in fields that the patch of an event had left alone while it
\* took the version (mergeTaskPatch).
THEOREM BlindOnlyForCause == Spec => BlindForCause
  <1>1. DInv /\ [Next]_vars =>
          [\A m \in Mutations : CommitMine(m) /\ Unseen(m) => mut[m].doubt # "none"]_vars
    <2> SUFFICES ASSUME DInv, NEW m \in Mutations, CommitMine(m), Unseen(m), mut[m].doubt = "none"
                 PROVE  FALSE
      OBVIOUS
    <2>1. Sight(m) BY DEF DInv, DriftInv, Sighted
    <2>2. Made(m) /\ mut[m].expected = row[mut[m].task].ver
      BY DEF CommitMine, Publishes, UpToDate, Made
    <2> QED BY <2>1, <2>2 DEF Sight, Unseen
  <1> QED BY <1>1, SpecDrift, PTL DEF Spec, BlindForCause
=============================================================================
