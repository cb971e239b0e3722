--------------------------- MODULE BoardStreamInv ---------------------------
(***************************************************************************)
(* Why the list is right when all is quiet: at any moment, what the list   *)
(* and the ledgers still lack is on its way.  DriftForCause speaks of      *)
(* quiet states only; this is the invariant behind it.                     *)
(***************************************************************************)
EXTENDS BoardStream

\* Events that were not received yet, and will be.
Pending == Untapped \cup {wire[i] : i \in DOMAIN wire}
News(t) == {e \in Pending : e.task = t}
NewsOf(t, f) == {e \in News(t) : e.kind = "edit" /\ f \in e.fields}
\* All there is to know of a task past a version is on its way.
NewsPast(t, v) == \A e \in events : e.task = t /\ e.ver > v => e \in Pending

Structural(e) == e.kind # "edit"

-----------------------------------------------------------------------------
(* What the events say of the rows.                                        *)

\* An instant belongs to one transaction, and that has one event.
Instants ==
    /\ \A x \in Edits : began[x] <= clock
    /\ \A x, y \in Edits : began[x] # 0 /\ began[x] = began[y] => x = y
    /\ \A e \in events : 0 < e.at /\ e.at <= clock /\ \A x \in Edits : began[x] # e.at
    /\ \A e, g \in events : e.at = g.at => e = g
    /\ mark = 0 \/ \E e \in events : e.at = mark

\* A version of a task is written by one event, which says what it changed.
Versions ==
    /\ \A t \in Tasks : row[t].state = "absent" <=> row[t].ver = 0
    /\ \A t \in Tasks : row[t].ver > 1 => \E e \in events : e.task = t /\ e.ver = row[t].ver
    /\ \A t \in Tasks, f \in Fields :
          /\ row[t].by[f] <= row[t].ver /\ (row[t].ver > 0 => row[t].by[f] > 0)
          /\ row[t].by[f] > 1 => \E e \in events : /\ e.task = t /\ e.kind = "edit"
                                                  /\ f \in e.fields /\ e.ver = row[t].by[f]
    /\ \A e \in events : 0 < e.ver /\ e.ver <= row[e.task].ver
    /\ \A e, g \in events : e.task = g.task /\ e.ver = g.ver => e = g
    /\ \A e \in events : e.kind = "edit" =>
          e.fields # {} /\ \A f \in e.fields : e.ver <= row[e.task].by[f]
    /\ \A e \in events : e.kind = "create" => e.ver = 1

\* A task is live, unless the last event that says so deletes it; a task is restored
\* right after it was deleted.
Deletions ==
    /\ \A e \in events : Structural(e) =>
          \/ (e.kind # "delete") <=> (row[e.task].state = "live")
          \/ \E g \in events : g.task = e.task /\ Structural(g) /\ g.ver > e.ver
    /\ \A t \in Tasks : row[t].state = "deleted" =>
          \E d \in events : d.task = t /\ d.kind = "delete" /\ d.ver = row[t].ver
    /\ \A e \in events : e.kind = "restore" =>
          \E d \in events : d.task = e.task /\ d.kind = "delete" /\ d.ver + 1 = e.ver

\* The stream carries events in the order of their instants.
Wired ==
    /\ \A i \in DOMAIN wire : wire[i] \in events /\ wire[i].at <= mark
    /\ \A i, j \in DOMAIN wire : i < j => wire[i].at < wire[j].at

\* Since the last mishap, or the answer under way: what follows a version that is
\* on its way is on its way behind it.
Trusted == cause = {} \/ calm
Ordered ==
    Trusted => \A e \in Pending, g \in events :
                  e.task = g.task /\ e.ver < g.ver => e.at < g.at /\ g \in Pending

-----------------------------------------------------------------------------
(* Copies of rows.                                                         *)

\* A row as it was at its version.
AsOf(r, t) ==
    /\ r.state = "live" => 0 < r.ver
    /\ r.ver <= row[t].ver
    /\ r.ver = row[t].ver => r = row[t]
    /\ \A f \in Fields : row[t].by[f] <= r.ver => r.by[f] = row[t].by[f]
    /\ \/ (r.state = "live") <=> (row[t].state = "live")
       \/ \E g \in events : g.task = t /\ Structural(g) /\ g.ver > r.ver

\* The answer to the request for the list; overtaken when an event passes it.
FetchKnown ==
    /\ loaded = "no" =>
          fetch.pc # "idle" /\ InFlight = {} /\ \A t \in Tasks : list[t].state = "hidden"
    /\ fetch.pc = "answered" =>
          \A t \in Tasks : AsOf(fetch.got[t], t) /\ (Trusted => NewsPast(t, fetch.got[t].ver))

\* The user's edits in flight, and the answers to them.
Made(m) == mut[m].pc \in Flying \/ began[m] # 0
Known(m) ==
    LET t == mut[m].task
        s == mut[m].ledger[t]
        r == mut[m].answer
    IN
    /\ began[m] # 0 => mut[m].pc # "idle"
    /\ Made(m) => s.state = "shown" /\ s.ver = mut[m].expected
    /\ mut[m].pc \in Flying =>
          \A u \in Tasks, f \in Fields : mut[m].ledger[u].by[f] # m
    /\ mut[m].pc = "ok" /\ mut[m].kind = "edit" =>
          /\ AsOf(r, t) /\ r.state = "live"
          /\ \E e \in events : e.task = t /\ e.kind = "edit" /\ e.ver = r.ver
    /\ mut[m].pc = "conflict" => 0 < r.ver /\ r.ver <= row[t].ver
EditsKnown == \A m \in Mutations : Known(m)

-----------------------------------------------------------------------------
(* What a list lacks.                                                      *)

Removed(t) ==
    \E m \in Mutations : /\ mut[m].pc \in {"sent", "conflict", "lost"}
                         /\ mut[m].kind = "delete" /\ mut[m].task = t

\* Which tasks it shows: a fetch, an event or the end of an edit will put it right.
Membership(s, t) ==
    \/ fetch.pc # "idle"
    \/ (s.state = "shown") <=> (row[t].state = "live")
    \/ \E e \in News(t) : Structural(e)
    \/ s.state = "hidden" /\ Removed(t)

Version(v, t) == fetch.pc # "idle" \/ News(t) # {} \/ v = row[t].ver

\* A field shows the last value, or a newer one comes, or an edit of the user's will
\* end, or has been accepted; or the last value came, and was skipped.
Field(v, t, f) ==
    <<t, f>> \in skipped \/
    IF v \in Mutations
    THEN /\ mut[v].pc \in Flying => mut[v].task = t /\ mut[v].kind = "edit" /\ f \in mut[v].fields
         /\ mut[v].pc \in {"ok", "done"} => mut[v].answer.ver = row[t].by[f] \/ NewsOf(t, f) # {}
         /\ mut[v].pc \in Flying \cup {"done"}
    ELSE v = row[t].by[f] \/ NewsOf(t, f) # {}

\* A task shown with the last version, and not given it by a conflict, is shown with
\* the last values, but for the fields that were skipped.
Seen(s, t) ==
    t \notin patched /\ s.ver = row[t].ver =>
        \A f \in Fields :
            <<t, f>> \in skipped \/ s.by[f] \in Mutations \/ s.by[f] = row[t].by[f]

\* When an answer is older than what is shown, that is noticed.
Overtakes(s, t) ==
    \A m \in Mutations :
        mut[m].pc = "ok" /\ mut[m].kind = "edit" /\ mut[m].task = t =>
            s.ver > mut[m].answer.ver \/ NewsPast(t, mut[m].answer.ver)

Faithful(s, t) ==
    /\ Membership(s, t)
    /\ s.state = "shown" =>
          /\ 0 < s.ver /\ s.ver <= row[t].ver
          /\ Version(s.ver, t)
          /\ \A f \in Fields : Field(s.by[f], t, f)
          /\ Seen(s, t)
          /\ Overtakes(s, t)

\* Without a mishap so far, the list is faithful, and so is what an edit that is not
\* out of date would bring back.
Undrifted ==
    cause = {} =>
        /\ \A t \in Tasks : Faithful(list[t], t)
        /\ \A m \in InFlight \ upset :
              /\ \A t \in Tasks : Faithful(mut[m].ledger[t], t)
              /\ mut[m].pc = "conflict" => /\ mut[m].expected <= mut[m].answer.ver
                                          /\ Version(mut[m].answer.ver, mut[m].task)

\* An edit made without doubt is made with the last values in view, or comes too late.
Sight(m) ==
    LET t == mut[m].task IN
    Made(m) /\ mut[m].doubt = "none" =>
        /\ mut[m].expected <= row[t].ver
        /\ mut[m].expected = row[t].ver =>
              \A f \in Fields \ mut[m].missed :
                  \/ mut[m].ledger[t].by[f] \in Mutations
                  \/ mut[m].ledger[t].by[f] = row[t].by[f]
Sighted == \A m \in Mutations : Sight(m)

LogInv == Instants /\ Versions /\ Deletions /\ Wired /\ Ordered
DriftInv == LogInv /\ FetchKnown /\ EditsKnown /\ Undrifted /\ Sighted
=============================================================================
