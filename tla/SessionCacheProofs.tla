------------------------- MODULE SessionCacheProofs -------------------------
(***************************************************************************)
(* For any processes, sessions and requests, any assignment of the         *)
(* handlers to processes and any bounds: the state is well typed, and a    *)
(* valid row whose writer did not race with a handler is current, and so   *)
(* is a cached scope in the process whose handler evicted.                 *)
(***************************************************************************)
EXTENDS SessionCache, TLAPS

LEMMA InitSession == Init => SessionInv
  BY BoundsAreNatural
  DEF Init, SessionInv, TypeOK, UnderWay, Fresh, Settled, NoRequest, NoRow, Subs, Scope, Overlay, Request, Job

-----------------------------------------------------------------------------
(* What one request's step, and one handler's step, change.                *)

\* A request's step leaves the other requests alone.
LEMMA GoesTyped ==
  ASSUME TypeOK, NEW r \in Requests, NEW q \in Request, Goes(r, q)
  PROVE  /\ req' \in [Requests -> Request]
         /\ req'[r] = q
         /\ \A o \in Requests : o # r => req'[o] = req[o]
  BY DEF Goes, TypeOK

LEMMA MovesTyped ==
  ASSUME TypeOK, NEW b \in Subs, NEW pc \in {"load", "set", "update", "evict", "commit"}, Moves(b, pc)
  PROVE  /\ job' \in [Subs -> Job]
         /\ job'[b].pc = pc /\ job'[b].proc = job[b].proc
         /\ job'[b].last = job[b].last /\ job'[b].loaded = job[b].loaded
         /\ \A c \in Subs : c # b => job'[c] = job[c]
  BY DEF Moves, TypeOK, Job

LEMMA EndsTyped ==
  ASSUME TypeOK, NEW b \in Subs, Ends(b)
  PROVE  /\ job' \in [Subs -> Job]
         /\ job'[b].pc = "idle" /\ job'[b].last = job[b].last
         /\ \A c \in Subs : c # b => job'[c] = job[c]
  BY DEF Ends, Ended, TypeOK, Job

\* A handler's step marks every request under way.
LEMMA RacesTyped ==
  ASSUME TypeOK, Races
  PROVE  /\ req' \in [Requests -> Request]
         /\ \A r \in Requests :
               /\ req'[r].pc = req[r].pc /\ req'[r].proc = req[r].proc
               /\ req'[r].session = req[r].session
               /\ req'[r].pc # "idle" => req'[r].raced
  <1>1. ASSUME NEW r \in Requests
        PROVE  [req[r] EXCEPT !.raced = req[r].pc # "idle"] \in Request
    BY <1>1 DEF TypeOK, Request
  <1>2. req' \in [Requests -> Request]
    BY <1>1 DEF Races
  <1>3. ASSUME NEW r \in Requests
        PROVE  /\ req'[r].pc = req[r].pc /\ req'[r].proc = req[r].proc
               /\ req'[r].session = req[r].session
               /\ req'[r].pc # "idle" => req'[r].raced
    <2>1. req'[r] = [req[r] EXCEPT !.raced = req[r].pc # "idle"]
      BY <1>3 DEF Races
    <2>2. req[r] \in Request
      BY DEF TypeOK
    <2>3. QED  BY <2>1, <2>2 DEF Request
  <1>4. QED  BY <1>2, <1>3

-----------------------------------------------------------------------------
(* Requests.                                                               *)

\* The obligation of a request's step: the request it leaves is typed and at
\* work somewhere, and what it carries, or writes, is present.
LEMMA RequestMoves ==
  ASSUME SessionInv, NEW r \in Requests, NEW q \in Request, Goes(r, q),
         UNCHANGED <<truth, due, job, faults>>,
         q.pc # "idle" => q.proc \in Servers /\ q.session \in Sessions,
         row' \in [Sessions -> [valid: BOOLEAN, grants: Nat, raced: BOOLEAN]],
         hot' \in [Servers -> [Sessions -> Scope \cup {None}]],
         overlays' \in [Procs -> Overlay \cup {None}],
         Settled => \A s \in Sessions :
                       row'[s].valid /\ ~row'[s].raced => row'[s].grants = truth["grants"],
         Settled => (q.pc \in {"resolve", "fill", "store", "keep"} /\ ~q.raced => q.grants = truth["grants"])
  PROVE  SessionInv'
  <1>1. /\ req' \in [Requests -> Request]
        /\ req'[r] = q
        /\ \A o \in Requests : o # r => req'[o] = req[o]
    BY GoesTyped DEF SessionInv
  <1>2. TypeOK'
    BY <1>1 DEF SessionInv, TypeOK
  <1>3. UnderWay'
    BY <1>1 DEF SessionInv, UnderWay
  <1>4. Fresh'
    BY <1>1 DEF SessionInv, Fresh, Settled
  <1>5. QED  BY <1>2, <1>3, <1>4 DEF SessionInv

\* The request of r, with the type of each field, and what is known of it.
LEMMA RequestTyped ==
  ASSUME SessionInv, NEW r \in Requests
  PROVE  /\ req[r] \in Request
         /\ req[r].pc \in {"idle", "row", "grants", "resolve", "fill", "store", "keep"}
         /\ req[r].proc \in Procs \cup {None} /\ req[r].session \in Sessions \cup {None}
         /\ req[r].build \in BOOLEAN /\ req[r].raced \in BOOLEAN
         /\ req[r].grants \in Nat /\ req[r].overlay \in Nat
         /\ req[r].pc # "idle" => req[r].proc \in Servers /\ req[r].session \in Sessions
  <1>1. req[r] \in Request
    BY DEF SessionInv, TypeOK
  <1>2. req[r].pc # "idle" => req[r].proc \in Servers /\ req[r].session \in Sessions
    BY DEF SessionInv, UnderWay
  <1>3. QED  BY <1>1, <1>2 DEF Request

LEMMA RequestStepKeeps ==
  ASSUME SessionInv, NEW r \in Requests, RequestStep(r)
  PROVE  SessionInv'
<1> DEFINE q == req[r]
<1>t. /\ q \in Request /\ q.build \in BOOLEAN /\ q.raced \in BOOLEAN
      /\ q.grants \in Nat /\ q.overlay \in Nat
      /\ q.pc # "idle" => q.proc \in Servers /\ q.session \in Sessions
  BY RequestTyped
<1>u. /\ row \in [Sessions -> [valid: BOOLEAN, grants: Nat, raced: BOOLEAN]]
      /\ hot \in [Servers -> [Sessions -> Scope \cup {None}]]
      /\ overlays \in [Procs -> Overlay \cup {None}]
      /\ truth["grants"] \in Nat /\ truth["overlay"] \in Nat
  BY DEF SessionInv, TypeOK, Subs
<1>f. Settled =>
        /\ \A s \in Sessions : row[s].valid /\ ~row[s].raced => row[s].grants = truth["grants"]
        /\ q.pc \in {"resolve", "fill", "store", "keep"} /\ ~q.raced => q.grants = truth["grants"]
  BY DEF SessionInv, Fresh
<1> HIDE DEF q
<1>1. CASE ReadRow(r)
  <2> DEFINE found == row[q.session]
             n == IF found.valid
                  THEN [q EXCEPT !.pc = "resolve", !.grants = found.grants,
                                 !.raced = q.raced \/ found.raced]
                  ELSE [q EXCEPT !.pc = "grants", !.build = TRUE]
  <2>1. q.pc = "row" /\ Goes(r, n) /\ UNCHANGED <<truth, due, job, row, hot, overlays, faults>>
    BY <1>1 DEF ReadRow, q
  <2>2. q.proc \in Servers /\ q.session \in Sessions
    BY <2>1, <1>t
  <2>3. found.valid \in BOOLEAN /\ found.grants \in Nat /\ found.raced \in BOOLEAN
    BY <1>u, <2>2
  <2> HIDE DEF found
  <2>4. /\ n \in Request /\ n.proc = q.proc /\ n.session = q.session
        /\ n.pc = (IF found.valid THEN "resolve" ELSE "grants")
        /\ found.valid => n.grants = found.grants /\ (n.raced <=> q.raced \/ found.raced)
    <3>1. CASE found.valid
      BY <3>1, <1>t, <2>3 DEF Request
    <3>2. CASE ~found.valid
      BY <3>2, <1>t, <2>3 DEF Request
    <3>3. QED  BY <3>1, <3>2
  <2>5. Settled => (n.pc \in {"resolve", "fill", "store", "keep"} /\ ~n.raced => n.grants = truth["grants"])
    BY <1>f, <2>2, <2>4 DEF found
  <2> HIDE DEF n
  <2>6. QED  BY <2>1, <2>2, <2>4, <2>5, <1>u, <1>f, RequestMoves
<1>2. CASE ReadGrants(r)
  <2> DEFINE n == [q EXCEPT !.pc = "resolve", !.grants = truth["grants"]]
  <2>1. q.pc = "grants" /\ Goes(r, n) /\ UNCHANGED <<truth, due, job, row, hot, overlays, faults>>
    BY <1>2 DEF ReadGrants, q
  <2>2. n \in Request /\ n.proc = q.proc /\ n.session = q.session /\ n.grants = truth["grants"]
    BY <1>t, <1>u DEF Request
  <2> HIDE DEF n
  <2>3. QED  BY <2>1, <2>2, <1>t, <1>u, <1>f, RequestMoves
<1>r. ASSUME NEW o \in Overlay
      PROVE  /\ Resolved(q, o) \in Request /\ Resolved(q, o).pc \in {"store", "keep"}
             /\ Resolved(q, o).proc = q.proc /\ Resolved(q, o).session = q.session
             /\ Resolved(q, o).grants = q.grants
             /\ ~Resolved(q, o).raced => ~q.raced
  <2>1. o.overlay \in Nat /\ o.raced \in BOOLEAN
    BY <1>r DEF Overlay
  <2>2. CASE q.build
    BY <2>1, <2>2, <1>t DEF Resolved, Request
  <2>3. CASE ~q.build
    BY <2>1, <2>3, <1>t DEF Resolved, Request
  <2>4. QED  BY <2>2, <2>3
<1>3. CASE ResolveHit(r)
  <2>1. /\ q.pc = "resolve" /\ overlays[q.proc] # None /\ Goes(r, Resolved(q, overlays[q.proc]))
        /\ UNCHANGED <<truth, due, job, row, hot, overlays, faults>>
    BY <1>3 DEF ResolveHit, q
  <2>2. overlays[q.proc] \in Overlay
    BY <2>1, <1>t, <1>u, ServersAreProcesses
  <2>3. QED  BY <2>1, <2>2, <1>r, <1>t, <1>u, <1>f, RequestMoves
<1>4. CASE ResolveLoad(r)
  <2> DEFINE n == [q EXCEPT !.pc = "fill", !.overlay = truth["overlay"]]
  <2>1. q.pc = "resolve" /\ Goes(r, n) /\ UNCHANGED <<truth, due, job, row, hot, overlays, faults>>
    BY <1>4 DEF ResolveLoad, q
  <2>2. /\ n \in Request /\ n.proc = q.proc /\ n.session = q.session
        /\ n.grants = q.grants /\ n.raced = q.raced
    BY <1>t, <1>u DEF Request
  <2> HIDE DEF n
  <2>3. QED  BY <2>1, <2>2, <1>t, <1>u, <1>f, RequestMoves
<1>5. CASE ResolveFill(r)
  <2> DEFINE o == [overlay |-> q.overlay, raced |-> q.raced]
  <2>1. /\ q.pc = "fill" /\ overlays' = [overlays EXCEPT ![q.proc] = o] /\ Goes(r, Resolved(q, o))
        /\ UNCHANGED <<truth, due, job, row, hot, faults>>
    BY <1>5 DEF ResolveFill, q
  <2>2. o \in Overlay
    BY <1>t DEF Overlay
  <2> HIDE DEF o
  <2>3. overlays' \in [Procs -> Overlay \cup {None}]
    BY <2>1, <2>2, <1>u
  <2>4. QED  BY <2>1, <2>2, <2>3, <1>r, <1>t, <1>u, <1>f, RequestMoves
<1>6. CASE Store(r)
  <2> DEFINE n == [q EXCEPT !.pc = "keep", !.build = FALSE]
             w == [valid |-> TRUE, grants |-> q.grants, raced |-> q.raced]
  <2>1. /\ q.pc = "store" /\ row' = [row EXCEPT ![q.session] = w] /\ Goes(r, n)
        /\ UNCHANGED <<truth, due, job, hot, overlays, faults>>
    BY <1>6 DEF Store, q
  <2>2. /\ n \in Request /\ n.proc = q.proc /\ n.session = q.session /\ n.pc = "keep"
        /\ n.grants = q.grants /\ n.raced = q.raced
    BY <1>t DEF Request
  <2>3. w \in [valid: BOOLEAN, grants: Nat, raced: BOOLEAN]
    BY <1>t
  <2>4. Settled => (~w.raced => w.grants = truth["grants"])
    BY <2>1, <1>f
  <2> HIDE DEF n, w
  <2>5. row' \in [Sessions -> [valid: BOOLEAN, grants: Nat, raced: BOOLEAN]]
    BY <2>1, <2>3, <1>u
  <2>6. Settled => \A s \in Sessions :
           row'[s].valid /\ ~row'[s].raced => row'[s].grants = truth["grants"]
    BY <2>1, <2>4, <1>u, <1>f
  <2>7. QED  BY <2>1, <2>2, <2>5, <2>6, <1>t, <1>u, <1>f, RequestMoves
<1>7. CASE Keep(r)
  <2>1. /\ q.pc = "keep" /\ hot' = [hot EXCEPT ![q.proc][q.session] = Kept(q)] /\ Goes(r, NoRequest)
        /\ UNCHANGED <<truth, due, job, row, overlays, faults>>
    BY <1>7 DEF Keep, q
  <2>2. Kept(q) \in Scope
    BY <1>t DEF Kept, Scope
  <2>3. q.proc \in Servers /\ q.session \in Sessions
    BY <2>1, <1>t
  <2>4. [hot[q.proc] EXCEPT ![q.session] = Kept(q)] \in [Sessions -> Scope \cup {None}]
    BY <2>2, <2>3, <1>u
  <2>5. hot' = [hot EXCEPT ![q.proc] = [hot[q.proc] EXCEPT ![q.session] = Kept(q)]]
    BY <2>1
  <2>6. hot' \in [Servers -> [Sessions -> Scope \cup {None}]]
    BY <2>4, <2>5, <1>u
  <2>7. NoRequest \in Request /\ NoRequest.pc = "idle"
    BY DEF NoRequest, Request
  <2>8. QED  BY <2>1, <2>6, <2>7, <1>u, <1>f, RequestMoves
<1>8. QED
  BY <1>1, <1>2, <1>3, <1>4, <1>5, <1>6, <1>7 DEF RequestStep

LEMMA AskKeeps ==
  ASSUME SessionInv, NEW r \in Requests, NEW p \in Servers, NEW s \in Sessions, Ask(r, p, s)
  PROVE  SessionInv'
<1> DEFINE n == [NoRequest EXCEPT !.pc = "row", !.proc = p, !.session = s]
<1>1. Goes(r, n) /\ UNCHANGED <<truth, due, job, row, hot, overlays, faults>>
  BY DEF Ask
<1>2. n \in Request /\ n.pc = "row" /\ n.proc = p /\ n.session = s
  BY ServersAreProcesses DEF NoRequest, Request
<1> HIDE DEF n
<1>3. QED  BY <1>1, <1>2, RequestMoves DEF SessionInv, TypeOK, Fresh

-----------------------------------------------------------------------------
(* Writers, handlers, expiry and restarts.                                 *)

\* The obligation of any other step: what it changes is typed, nothing counts as
\* settled that did not before, unless every row was invalidated, and requests
\* and rows go on as they were, are given up, or are marked.
LEMMA OtherMoves ==
  ASSUME SessionInv, TypeOK',
         \A b \in Subs : job'[b].pc # "idle" => due'[b] > 0,
         Settled' => truth'["grants"] = truth["grants"],
         Settled' => Settled \/ \A s \in Sessions : ~row'[s].valid,
         \A s \in Sessions : row'[s] = row[s] \/ ~row'[s].valid,
         \A r \in Requests : \/ req'[r] = req[r]
                             \/ req'[r].pc = "idle"
                             \/ /\ req'[r].raced /\ req'[r].proc = req[r].proc
                                /\ req'[r].session = req[r].session /\ req'[r].pc = req[r].pc,
         Settled' => Settled \/ \A r \in Requests : req'[r].pc # "idle" => req'[r].raced
  PROVE  SessionInv'
  <1>1. UnderWay'
    BY DEF SessionInv, UnderWay
  <1>2. ASSUME Settled' PROVE Fresh'
    <2>1. ASSUME NEW s \in Sessions, row'[s].valid, ~row'[s].raced
          PROVE  row'[s].grants = truth'["grants"]
      BY <1>2, <2>1 DEF SessionInv, Fresh
    <2>2. ASSUME NEW r \in Requests, req'[r].pc \in {"resolve", "fill", "store", "keep"}, ~req'[r].raced
          PROVE  req'[r].grants = truth'["grants"]
      BY <1>2, <2>2 DEF SessionInv, Fresh
    <2>3. QED  BY <2>1, <2>2 DEF Fresh
  <1>3. QED  BY <1>1, <1>2 DEF SessionInv, Fresh

LEMMA ChangeKeeps ==
  ASSUME SessionInv, NEW b \in Subs, Change(b)
  PROVE  SessionInv'
<1>1. /\ truth' = [truth EXCEPT ![b] = truth[b] + 1] /\ due' = [due EXCEPT ![b] = due[b] + 1]
      /\ UNCHANGED <<job, row, hot, overlays, req, faults>>
  BY DEF Change
<1>2. truth \in [Subs -> Nat] /\ due \in [Subs -> Nat] /\ "grants" \in Subs
  BY DEF SessionInv, TypeOK, Subs
<1>3. TypeOK'
  BY <1>1, <1>2 DEF SessionInv, TypeOK
<1>4. /\ \A c \in Subs : job[c].pc # "idle" => due[c] > 0
      /\ \A c \in Subs : due'[c] >= due[c]
  BY <1>1, <1>2 DEF SessionInv, UnderWay
<1>5. \A c \in Subs : job'[c].pc # "idle" => due'[c] > 0
  BY <1>1, <1>2, <1>4
<1>6. CASE b = "grants"
  <2>1. due'["grants"] = due["grants"] + 1
    BY <1>1, <1>2, <1>6
  <2>2. ~Settled'
    BY <1>1, <1>2, <1>4, <2>1 DEF Settled
  <2>3. QED  BY <1>1, <1>3, <1>5, <2>2, OtherMoves
<1>7. CASE b # "grants"
  <2>1. due'["grants"] = due["grants"] /\ truth'["grants"] = truth["grants"]
    BY <1>1, <1>2, <1>7
  <2>2. Settled' => Settled
    BY <1>1, <2>1 DEF Settled
  <2>3. QED  BY <1>1, <1>3, <1>5, <2>1, <2>2, OtherMoves
<1>8. QED  BY <1>6, <1>7

LEMMA HandlerStepKeeps ==
  ASSUME SessionInv, NEW b \in Subs, HandlerStep(b)
  PROVE  SessionInv'
<1>t. /\ TypeOK /\ due \in [Subs -> Nat] /\ job \in [Subs -> Job] /\ "grants" \in Subs
      /\ \A c \in Subs : job[c].pc # "idle" => due[c] > 0
      /\ job[b] \in Job /\ job[b].pc \in {"idle", "load", "set", "update", "evict", "commit"}
      /\ job[b].proc \in Procs \cup {None} /\ job[b].loaded \in Nat
  BY DEF SessionInv, TypeOK, UnderWay, Subs, Job
<1>1. ASSUME NEW p \in RunBy[b], Handle(b, p) PROVE SessionInv'
  <2> DEFINE j == [job[b] EXCEPT !.pc = FirstStep(b), !.proc = p]
  <2>1. /\ due[b] > 0 /\ job[b].pc = "idle" /\ job' = [job EXCEPT ![b] = j]
        /\ UNCHANGED <<truth, due, row, hot, overlays, req, faults>>
    BY <1>1 DEF Handle
  <2>2. p \in Procs /\ FirstStep(b) \in {"load", "update"}
    BY RunByProcesses DEF FirstStep
  <2>3. j \in Job /\ j.pc \in {"load", "update"}
    BY <1>t, <2>2 DEF Job
  <2> HIDE DEF j
  <2>4. job' \in [Subs -> Job] /\ job'[b].pc \in {"load", "update"}
        /\ \A c \in Subs : c # b => job'[c] = job[c]
    BY <1>t, <2>1, <2>3
  <2>5. TypeOK'
    BY <2>1, <2>4 DEF SessionInv, TypeOK
  <2>6. Settled' => Settled
    BY <1>t, <2>1, <2>4 DEF Settled
  <2>7. QED  BY <1>t, <2>1, <2>4, <2>5, <2>6, OtherMoves
<1>2. CASE RefreshLoad(b)
  <2> DEFINE j == [job[b] EXCEPT !.pc = "set", !.loaded = truth["overlay"]]
  <2>1. /\ job[b].pc = "load" /\ job' = [job EXCEPT ![b] = j]
        /\ UNCHANGED <<truth, due, row, hot, overlays, req, faults>>
    BY <1>2 DEF RefreshLoad
  <2>2. truth["overlay"] \in Nat
    BY <1>t DEF TypeOK, Subs
  <2>3. j \in Job /\ j.pc = "set"
    BY <1>t, <2>2 DEF Job
  <2> HIDE DEF j
  <2>4. job' \in [Subs -> Job] /\ job'[b].pc = "set" /\ \A c \in Subs : c # b => job'[c] = job[c]
    BY <1>t, <2>1, <2>3
  <2>5. TypeOK'
    BY <2>1, <2>4 DEF SessionInv, TypeOK
  <2>6. Settled' => Settled
    BY <1>t, <2>1, <2>4 DEF Settled
  <2>7. QED  BY <1>t, <2>1, <2>4, <2>5, <2>6, OtherMoves
<1>3. CASE RefreshSet(b)
  <2> DEFINE o == [overlay |-> job[b].loaded, raced |-> FALSE]
  <2>1. /\ job[b].pc = "set" /\ overlays' = [overlays EXCEPT ![job[b].proc] = o]
        /\ Races /\ Moves(b, "update") /\ UNCHANGED <<truth, due, row, hot, faults>>
    BY <1>3 DEF RefreshSet
  <2>2. o \in Overlay
    BY <1>t DEF Overlay
  <2> HIDE DEF o
  <2>3. overlays' \in [Procs -> Overlay \cup {None}]
    BY <1>t, <2>1, <2>2 DEF TypeOK
  <2>4. /\ job' \in [Subs -> Job] /\ job'[b].pc = "update"
        /\ \A c \in Subs : c # b => job'[c] = job[c]
    BY <1>t, <2>1, MovesTyped
  <2>5. /\ req' \in [Requests -> Request]
        /\ \A r \in Requests :
               /\ req'[r].pc = req[r].pc /\ req'[r].proc = req[r].proc
               /\ req'[r].session = req[r].session
               /\ req'[r].pc # "idle" => req'[r].raced
    BY <1>t, <2>1, RacesTyped
  <2>6. TypeOK'
    BY <2>1, <2>3, <2>4, <2>5 DEF SessionInv, TypeOK
  <2>7. Settled' => Settled
    BY <1>t, <2>1, <2>4 DEF Settled
  <2>8. QED  BY <1>t, <2>1, <2>4, <2>5, <2>6, <2>7, OtherMoves
<1>4. CASE InvalidateRows(b)
  <2>1. /\ job[b].pc = "update" /\ row' = [s \in Sessions |-> NoRow]
        /\ Races /\ Moves(b, "evict") /\ UNCHANGED <<truth, due, hot, overlays, faults>>
    BY <1>4 DEF InvalidateRows
  <2>2. row' \in [Sessions -> [valid: BOOLEAN, grants: Nat, raced: BOOLEAN]]
        /\ \A s \in Sessions : ~row'[s].valid
    BY <2>1 DEF NoRow
  <2>3. /\ job' \in [Subs -> Job] /\ job'[b].pc = "evict"
        /\ \A c \in Subs : c # b => job'[c] = job[c]
    BY <1>t, <2>1, MovesTyped
  <2>4. /\ req' \in [Requests -> Request]
        /\ \A r \in Requests :
               /\ req'[r].pc = req[r].pc /\ req'[r].proc = req[r].proc
               /\ req'[r].session = req[r].session
               /\ req'[r].pc # "idle" => req'[r].raced
    BY <1>t, <2>1, RacesTyped
  <2>5. TypeOK'
    BY <2>1, <2>2, <2>3, <2>4 DEF SessionInv, TypeOK
  <2>6. QED  BY <1>t, <2>1, <2>2, <2>3, <2>4, <2>5, OtherMoves
<1>5. CASE Evict(b)
  <2> DEFINE j == [job[b] EXCEPT !.pc = "commit", !.last = job[b].proc]
  <2>1. /\ job[b].pc = "evict" /\ job' = [job EXCEPT ![b] = j] /\ Races
        /\ hot' = [p \in Servers |-> IF p = job[b].proc THEN [s \in Sessions |-> None] ELSE hot[p]]
        /\ UNCHANGED <<truth, due, row, overlays, faults>>
    BY <1>5 DEF Evict
  <2>2. j \in Job /\ j.pc = "commit"
    BY <1>t DEF Job
  <2> HIDE DEF j
  <2>3. job' \in [Subs -> Job] /\ job'[b].pc = "commit" /\ \A c \in Subs : c # b => job'[c] = job[c]
    BY <1>t, <2>1, <2>2
  <2>4. /\ req' \in [Requests -> Request]
        /\ \A r \in Requests :
               /\ req'[r].pc = req[r].pc /\ req'[r].proc = req[r].proc
               /\ req'[r].session = req[r].session
               /\ req'[r].pc # "idle" => req'[r].raced
    BY <1>t, <2>1, RacesTyped
  <2>5. hot' \in [Servers -> [Sessions -> Scope \cup {None}]]
    BY <2>1 DEF SessionInv, TypeOK
  <2>6. TypeOK'
    BY <2>1, <2>3, <2>4, <2>5 DEF SessionInv, TypeOK
  <2>7. Settled' => Settled
    BY <1>t, <2>1, <2>3 DEF Settled
  <2>8. QED  BY <1>t, <2>1, <2>3, <2>4, <2>6, <2>7, OtherMoves
<1>6. CASE Commit(b)
  <2>1. /\ job[b].pc = "commit" /\ due' = [due EXCEPT ![b] = due[b] - 1] /\ Ends(b)
        /\ UNCHANGED <<truth, row, hot, overlays, req, faults>>
    BY <1>6 DEF Commit
  <2>2. /\ job' \in [Subs -> Job] /\ job'[b].pc = "idle"
        /\ \A c \in Subs : c # b => job'[c] = job[c]
    BY <1>t, <2>1, EndsTyped
  <2>3. due' \in [Subs -> Nat] /\ due'[b] = due[b] - 1 /\ \A c \in Subs : c # b => due'[c] = due[c]
    BY <1>t, <2>1
  <2>4. TypeOK'
    BY <2>1, <2>2, <2>3 DEF SessionInv, TypeOK
  <2>5. Settled' => Settled
    BY <1>t, <2>1, <2>2, <2>3 DEF Settled
  <2>6. QED  BY <1>t, <2>1, <2>2, <2>3, <2>4, <2>5, OtherMoves
<1>7. QED
  BY <1>1, <1>2, <1>3, <1>4, <1>5, <1>6 DEF HandlerStep

LEMMA HandlerFailsKeeps ==
  ASSUME SessionInv, NEW b \in Subs, HandlerFails(b)
  PROVE  SessionInv'
<1>1. /\ job[b].pc # "idle" /\ faults' = faults + 1 /\ Ends(b)
      /\ UNCHANGED <<truth, due, row, hot, overlays, req>>
  BY DEF HandlerFails
<1>2. /\ TypeOK /\ due \in [Subs -> Nat] /\ "grants" \in Subs
      /\ \A c \in Subs : job[c].pc # "idle" => due[c] > 0
  BY DEF SessionInv, TypeOK, UnderWay, Subs
<1>3. /\ job' \in [Subs -> Job] /\ job'[b].pc = "idle"
      /\ \A c \in Subs : c # b => job'[c] = job[c]
  BY <1>1, <1>2, EndsTyped
<1>4. TypeOK'
  BY <1>1, <1>3 DEF SessionInv, TypeOK
<1>5. Settled' => Settled
  BY <1>1, <1>2, <1>3 DEF Settled
<1>6. QED  BY <1>1, <1>2, <1>3, <1>4, <1>5, OtherMoves

LEMMA ExpireKeeps ==
  ASSUME SessionInv, NEW p \in Servers, NEW s \in Sessions, Expire(p, s)
  PROVE  SessionInv'
<1>1. /\ hot' = [hot EXCEPT ![p][s] = None]
      /\ UNCHANGED <<truth, due, job, row, overlays, req, faults>>
  BY DEF Expire
<1>2. hot' \in [Servers -> [Sessions -> Scope \cup {None}]]
  BY <1>1 DEF SessionInv, TypeOK
<1>3. TypeOK'
  BY <1>1, <1>2 DEF SessionInv, TypeOK
<1>4. Settled' => Settled
  BY <1>1 DEF Settled
<1>5. QED  BY <1>1, <1>3, <1>4, OtherMoves DEF SessionInv, UnderWay

LEMMA CrashKeeps ==
  ASSUME SessionInv, NEW p \in Procs, Crash(p)
  PROVE  SessionInv'
<1>1. /\ faults' = faults + 1
      /\ hot' = [o \in Servers |-> IF o = p THEN [s \in Sessions |-> None] ELSE hot[o]]
      /\ overlays' = [overlays EXCEPT ![p] = None]
      /\ req' = [r \in Requests |-> IF req[r].proc = p THEN NoRequest ELSE req[r]]
      /\ job' = [b \in Subs |-> IF job[b].proc = p THEN Ended(job[b]) ELSE job[b]]
      /\ UNCHANGED <<truth, due, row>>
  BY DEF Crash
<1>2. /\ TypeOK /\ due \in [Subs -> Nat] /\ job \in [Subs -> Job] /\ "grants" \in Subs
      /\ \A c \in Subs : job[c].pc # "idle" => due[c] > 0
  BY DEF SessionInv, TypeOK, UnderWay, Subs
<1>3. NoRequest \in Request /\ NoRequest.pc = "idle"
  BY DEF NoRequest, Request
<1>4. /\ req' \in [Requests -> Request]
      /\ \A r \in Requests : req'[r] = req[r] \/ req'[r].pc = "idle"
  BY <1>1, <1>2, <1>3 DEF TypeOK
<1>5. \A b \in Subs : Ended(job[b]) \in Job /\ Ended(job[b]).pc = "idle"
  BY <1>2 DEF Ended, Job
<1>6. /\ job' \in [Subs -> Job]
      /\ \A b \in Subs : job'[b] = job[b] \/ job'[b].pc = "idle"
  BY <1>1, <1>2, <1>5
<1>7. /\ hot' \in [Servers -> [Sessions -> Scope \cup {None}]]
      /\ overlays' \in [Procs -> Overlay \cup {None}]
  BY <1>1, <1>2 DEF TypeOK
<1>8. TypeOK'
  BY <1>1, <1>2, <1>4, <1>6, <1>7 DEF TypeOK
<1>9. Settled' => Settled
  BY <1>1, <1>2, <1>6 DEF Settled
<1>10. QED  BY <1>1, <1>2, <1>4, <1>6, <1>8, <1>9, OtherMoves

-----------------------------------------------------------------------------

LEMMA SessionStep == SessionInv /\ [Next]_vars => SessionInv'
<1> SUFFICES ASSUME SessionInv, [Next]_vars PROVE SessionInv'
  OBVIOUS
<1>1. CASE UNCHANGED vars
  BY <1>1 DEF vars, SessionInv, TypeOK, UnderWay, Fresh, Settled
<1>2. CASE Next
  BY <1>2, ChangeKeeps, HandlerStepKeeps, HandlerFailsKeeps, RequestStepKeeps, AskKeeps,
     ExpireKeeps, CrashKeeps DEF Next
<1>3. QED  BY <1>1, <1>2

THEOREM SessionInvariant == Spec => []SessionInv
  BY InitSession, SessionStep, PTL DEF Spec

\* Every reachable state of the caches, handlers and requests is well typed.
THEOREM SessionTyped == Spec => []TypeOK
<1>1. SessionInv => TypeOK
  BY DEF SessionInv
<1>2. QED  BY <1>1, SessionInvariant, PTL

\* Wherever the handlers run and whatever fails, a valid row whose writer raced
\* with no handler holds the user's present grants once their events are handled.
THEOREM RowsAreCurrent == Spec => []RowIsCurrent
<1>1. SessionInv => RowIsCurrent
  BY DEF SessionInv, Fresh, Settled, RowIsCurrent
<1>2. QED  BY <1>1, SessionInvariant, PTL

-----------------------------------------------------------------------------
(* Scopes in the process that evicted.                                     *)

LEMMA InitScopes == Init => ScopeInv
  BY DEF Init, ScopeInv, Placed, Refreshed, OverlayPresent, Evicted, Subs, NoRequest

\* A process that has evicted has the last overlay, and rows are settled.
LEMMA EvictedIsReady ==
  ASSUME SessionInv, ScopeInv, NEW p \in Servers
  PROVE  /\ Evicted("overlay", p) => Refreshed(p)
         /\ Evicted("grants", p) => Settled
  BY DEF ScopeInv, Placed, Evicted, Refreshed, Settled, Subs

\* The obligation of a request's step: what it carries, and what it leaves in the
\* caches of its process, is present.
LEMMA RequestScopes ==
  ASSUME SessionInv, ScopeInv, NEW r \in Requests, NEW q \in Request, Goes(r, q),
         UNCHANGED <<truth, due, job>>,
         \A p \in Procs : Refreshed(p) =>
             overlays'[p] = None \/ overlays'[p].raced \/ overlays'[p].overlay = truth["overlay"],
         Refreshed(q.proc) /\ q.pc \in {"fill", "store", "keep"} /\ ~q.raced
             => q.overlay = truth["overlay"],
         \A b \in Subs, p \in Servers : Evicted(b, p) =>
             \A s \in Sessions : hot'[p][s] = None \/ hot'[p][s].raced \/ Present(b, hot'[p][s])
  PROVE  ScopeInv'
  <1>1. /\ req'[r] = q
        /\ \A o \in Requests : o # r => req'[o] = req[o]
    BY GoesTyped DEF SessionInv
  <1>2. Placed'
    BY DEF ScopeInv, Placed
  <1>3. \A p \in Procs : Refreshed(p)' => OverlayPresent(p)'
    BY <1>1 DEF ScopeInv, Refreshed, OverlayPresent
  <1>4. \A b \in Subs, p \in Servers :
           Evicted(b, p)' => \A s \in Sessions :
                               (hot[p][s] = None \/ hot[p][s].raced \/ Present(b, hot[p][s]))'
    BY DEF Evicted, Present
  <1>5. QED  BY <1>2, <1>3, <1>4 DEF ScopeInv

LEMMA RequestStepScopes ==
  ASSUME SessionInv, ScopeInv, NEW r \in Requests, RequestStep(r)
  PROVE  ScopeInv'
<1> DEFINE q == req[r]
<1>t. /\ q \in Request /\ q.build \in BOOLEAN /\ q.raced \in BOOLEAN
      /\ q.grants \in Nat /\ q.overlay \in Nat
      /\ q.pc # "idle" => q.proc \in Servers /\ q.session \in Sessions
  BY RequestTyped
<1>u. /\ row \in [Sessions -> [valid: BOOLEAN, grants: Nat, raced: BOOLEAN]]
      /\ hot \in [Servers -> [Sessions -> Scope \cup {None}]]
      /\ overlays \in [Procs -> Overlay \cup {None}]
      /\ truth["grants"] \in Nat /\ truth["overlay"] \in Nat
  BY DEF SessionInv, TypeOK, Subs
<1>o. \A p \in Procs : Refreshed(p) =>
          overlays[p] = None \/ overlays[p].raced \/ overlays[p].overlay = truth["overlay"]
  BY DEF ScopeInv, OverlayPresent
<1>c. Refreshed(q.proc) /\ q.pc \in {"fill", "store", "keep"} /\ ~q.raced
          => q.overlay = truth["overlay"]
  BY <1>t, ServersAreProcesses DEF ScopeInv, OverlayPresent
<1>h. \A b \in Subs, p \in Servers : Evicted(b, p) =>
          \A s \in Sessions : hot[p][s] = None \/ hot[p][s].raced \/ Present(b, hot[p][s])
  BY DEF ScopeInv
<1>g. Settled => (q.pc = "keep" /\ ~q.raced => q.grants = truth["grants"])
  BY DEF SessionInv, Fresh
<1> HIDE DEF q
<1>1. CASE ReadRow(r)
  <2> DEFINE found == row[q.session]
             n == IF found.valid
                  THEN [q EXCEPT !.pc = "resolve", !.grants = found.grants,
                                 !.raced = q.raced \/ found.raced]
                  ELSE [q EXCEPT !.pc = "grants", !.build = TRUE]
  <2>1. q.pc = "row" /\ Goes(r, n) /\ UNCHANGED <<truth, due, job, row, hot, overlays, faults>>
    BY <1>1 DEF ReadRow, q
  <2>2. found.valid \in BOOLEAN /\ found.grants \in Nat /\ found.raced \in BOOLEAN
    BY <1>t, <1>u, <2>1
  <2> HIDE DEF found
  <2>3. n \in Request /\ n.pc \in {"resolve", "grants"}
    <3>1. CASE found.valid
      BY <3>1, <1>t, <2>2 DEF Request
    <3>2. CASE ~found.valid
      BY <3>2, <1>t, <2>2 DEF Request
    <3>3. QED  BY <3>1, <3>2
  <2> HIDE DEF n
  <2>4. QED  BY <2>1, <2>3, <1>o, <1>h, RequestScopes
<1>2. CASE ReadGrants(r)
  <2> DEFINE n == [q EXCEPT !.pc = "resolve", !.grants = truth["grants"]]
  <2>1. q.pc = "grants" /\ Goes(r, n) /\ UNCHANGED <<truth, due, job, row, hot, overlays, faults>>
    BY <1>2 DEF ReadGrants, q
  <2>2. n \in Request /\ n.pc = "resolve"
    BY <1>t, <1>u DEF Request
  <2> HIDE DEF n
  <2>3. QED  BY <2>1, <2>2, <1>o, <1>h, RequestScopes
<1>r. ASSUME NEW o \in Overlay
      PROVE  /\ Resolved(q, o) \in Request /\ Resolved(q, o).proc = q.proc
             /\ Resolved(q, o).overlay = o.overlay
             /\ ~Resolved(q, o).raced => ~o.raced
  <2>1. o.overlay \in Nat /\ o.raced \in BOOLEAN
    BY <1>r DEF Overlay
  <2>2. CASE q.build
    BY <2>1, <2>2, <1>t DEF Resolved, Request
  <2>3. CASE ~q.build
    BY <2>1, <2>3, <1>t DEF Resolved, Request
  <2>4. QED  BY <2>2, <2>3
<1>3. CASE ResolveHit(r)
  <2>1. /\ q.pc = "resolve" /\ overlays[q.proc] # None /\ Goes(r, Resolved(q, overlays[q.proc]))
        /\ UNCHANGED <<truth, due, job, row, hot, overlays, faults>>
    BY <1>3 DEF ResolveHit, q
  <2>2. overlays[q.proc] \in Overlay /\ q.proc \in Procs
    BY <2>1, <1>t, <1>u, ServersAreProcesses
  <2>3. QED  BY <2>1, <2>2, <1>r, <1>o, <1>h, RequestScopes
<1>4. CASE ResolveLoad(r)
  <2> DEFINE n == [q EXCEPT !.pc = "fill", !.overlay = truth["overlay"]]
  <2>1. q.pc = "resolve" /\ Goes(r, n) /\ UNCHANGED <<truth, due, job, row, hot, overlays, faults>>
    BY <1>4 DEF ResolveLoad, q
  <2>2. n \in Request /\ n.overlay = truth["overlay"]
    BY <1>t, <1>u DEF Request
  <2> HIDE DEF n
  <2>3. QED  BY <2>1, <2>2, <1>o, <1>h, RequestScopes
<1>5. CASE ResolveFill(r)
  <2> DEFINE o == [overlay |-> q.overlay, raced |-> q.raced]
  <2>1. /\ q.pc = "fill" /\ overlays' = [overlays EXCEPT ![q.proc] = o] /\ Goes(r, Resolved(q, o))
        /\ UNCHANGED <<truth, due, job, row, hot, faults>>
    BY <1>5 DEF ResolveFill, q
  <2>2. o \in Overlay /\ o.overlay = q.overlay /\ (o.raced <=> q.raced)
    BY <1>t DEF Overlay
  <2> HIDE DEF o
  <2>3. Refreshed(q.proc) => o.raced \/ o.overlay = truth["overlay"]
    BY <2>1, <2>2, <1>c
  <2>4. \A p \in Procs : Refreshed(p) =>
            overlays'[p] = None \/ overlays'[p].raced \/ overlays'[p].overlay = truth["overlay"]
    BY <2>1, <2>3, <1>o, <1>u
  <2>5. QED  BY <2>1, <2>2, <2>3, <2>4, <1>r, <1>h, RequestScopes
<1>6. CASE Store(r)
  <2> DEFINE n == [q EXCEPT !.pc = "keep", !.build = FALSE]
  <2>1. q.pc = "store" /\ Goes(r, n) /\ UNCHANGED <<truth, due, job, hot, overlays, faults>>
    BY <1>6 DEF Store, q
  <2>2. n \in Request /\ n.proc = q.proc /\ n.overlay = q.overlay /\ n.raced = q.raced
    BY <1>t DEF Request
  <2> HIDE DEF n
  <2>3. QED  BY <2>1, <2>2, <1>c, <1>o, <1>h, RequestScopes
<1>7. CASE Keep(r)
  <2>1. /\ q.pc = "keep" /\ hot' = [hot EXCEPT ![q.proc][q.session] = Kept(q)] /\ Goes(r, NoRequest)
        /\ UNCHANGED <<truth, due, job, row, overlays, faults>>
    BY <1>7 DEF Keep, q
  <2>2. q.proc \in Servers /\ q.session \in Sessions
    BY <2>1, <1>t
  <2>3. hot' = [hot EXCEPT ![q.proc] = [hot[q.proc] EXCEPT ![q.session] = Kept(q)]]
    BY <2>1
  <2>4. ASSUME NEW b \in Subs, Evicted(b, q.proc)
        PROVE  Kept(q).raced \/ Present(b, Kept(q))
    <3>1. CASE b = "grants"
      BY <2>1, <2>2, <2>4, <3>1, <1>g, EvictedIsReady DEF Kept, Present
    <3>2. CASE b = "overlay"
      BY <2>1, <2>2, <2>4, <3>2, <1>c, EvictedIsReady DEF Kept, Present
    <3>3. QED  BY <3>1, <3>2 DEF Subs
  <2>5. \A b \in Subs, p \in Servers : Evicted(b, p) =>
           \A s \in Sessions : hot'[p][s] = None \/ hot'[p][s].raced \/ Present(b, hot'[p][s])
    <3> SUFFICES ASSUME NEW b \in Subs, NEW p \in Servers, Evicted(b, p), NEW s \in Sessions
                 PROVE  hot'[p][s] = None \/ hot'[p][s].raced \/ Present(b, hot'[p][s])
      OBVIOUS
    <3>1. hot'[p][s] = (IF p = q.proc /\ s = q.session THEN Kept(q) ELSE hot[p][s])
      BY <2>2, <2>3, <1>u
    <3>2. QED  BY <3>1, <2>4, <1>h
  <2>6. NoRequest \in Request /\ NoRequest.pc = "idle"
    BY DEF NoRequest, Request
  <2>7. QED  BY <2>1, <2>5, <2>6, <1>o, RequestScopes
<1>8. QED
  BY <1>1, <1>2, <1>3, <1>4, <1>5, <1>6, <1>7 DEF RequestStep

\* The obligation of any other step: no process counts as refreshed, or evicted,
\* that did not before, but by what the step does; what was there stays or goes.
LEMMA OtherScopes ==
  ASSUME SessionInv, ScopeInv, Placed',
         due'["overlay"] = 1 /\ job'["overlay"].pc = "set" => job'["overlay"].loaded = truth'["overlay"],
         \A p \in Procs : Refreshed(p)' =>
             \/ /\ overlays'[p].overlay = truth'["overlay"]
                /\ \A r \in Requests : req'[r].pc # "idle" => req'[r].raced
             \/ /\ Refreshed(p) /\ truth'["overlay"] = truth["overlay"]
                /\ overlays'[p] = overlays[p] \/ overlays'[p] = None,
         \A r \in Requests : \/ req'[r] = req[r] \/ req'[r].raced
                             \/ req'[r].pc \notin {"fill", "store", "keep"},
         \A b \in Subs, p \in Servers : Evicted(b, p)' =>
             \/ \A s \in Sessions : hot'[p][s] = None
             \/ /\ Evicted(b, p) /\ truth'[b] = truth[b]
                /\ \A s \in Sessions : hot'[p][s] = hot[p][s] \/ hot'[p][s] = None
  PROVE  ScopeInv'
  <1>1. ASSUME NEW p \in Procs, Refreshed(p)' PROVE OverlayPresent(p)'
    <2>1. CASE /\ overlays'[p].overlay = truth'["overlay"]
               /\ \A r \in Requests : req'[r].pc # "idle" => req'[r].raced
      BY <2>1 DEF OverlayPresent
    <2>2. CASE /\ Refreshed(p) /\ truth'["overlay"] = truth["overlay"]
               /\ overlays'[p] = overlays[p] \/ overlays'[p] = None
      BY <2>2 DEF ScopeInv, OverlayPresent
    <2>3. QED  BY <1>1, <2>1, <2>2
  <1>2. ASSUME NEW b \in Subs, NEW p \in Servers, Evicted(b, p)', NEW s \in Sessions
        PROVE  (hot[p][s] = None \/ hot[p][s].raced \/ Present(b, hot[p][s]))'
    BY <1>2 DEF ScopeInv, Present
  <1>3. QED  BY <1>1, <1>2 DEF ScopeInv

LEMMA AskScopes ==
  ASSUME SessionInv, ScopeInv, NEW r \in Requests, NEW p \in Servers, NEW s \in Sessions, Ask(r, p, s)
  PROVE  ScopeInv'
<1> DEFINE n == [NoRequest EXCEPT !.pc = "row", !.proc = p, !.session = s]
<1>1. Goes(r, n) /\ UNCHANGED <<truth, due, job, row, hot, overlays, faults>>
  BY DEF Ask
<1>2. n \in Request /\ n.pc = "row"
  BY ServersAreProcesses DEF NoRequest, Request
<1> HIDE DEF n
<1>3. QED  BY <1>1, <1>2, RequestScopes DEF ScopeInv, OverlayPresent

LEMMA ChangeScopes ==
  ASSUME SessionInv, ScopeInv, NEW b \in Subs, Change(b)
  PROVE  ScopeInv'
<1>1. /\ truth' = [truth EXCEPT ![b] = truth[b] + 1] /\ due' = [due EXCEPT ![b] = due[b] + 1]
      /\ UNCHANGED <<job, row, hot, overlays, req, faults>>
  BY DEF Change
<1>2. /\ truth \in [Subs -> Nat] /\ due \in [Subs -> Nat] /\ "overlay" \in Subs
      /\ \A c \in Subs : job[c].pc # "idle" => due[c] > 0
  BY DEF SessionInv, TypeOK, UnderWay, Subs
<1>3. /\ due'[b] = due[b] + 1
      /\ \A c \in Subs : c # b => due'[c] = due[c] /\ truth'[c] = truth[c]
  BY <1>1, <1>2
<1>4. Placed'
  BY <1>1 DEF ScopeInv, Placed
<1>5. due'["overlay"] = 1 /\ job'["overlay"].pc = "set" => job'["overlay"].loaded = truth'["overlay"]
  BY <1>1, <1>2, <1>3 DEF ScopeInv
<1>6. \A p \in Procs : Refreshed(p)' => Refreshed(p) /\ truth'["overlay"] = truth["overlay"]
  BY <1>1, <1>2, <1>3 DEF Refreshed
<1>7. \A c \in Subs, p \in Servers : Evicted(c, p)' => Evicted(c, p) /\ truth'[c] = truth[c]
  BY <1>1, <1>2, <1>3 DEF Evicted
<1>8. QED  BY <1>1, <1>4, <1>5, <1>6, <1>7, OtherScopes

LEMMA HandlerStepScopes ==
  ASSUME SessionInv, ScopeInv, NEW b \in Subs, HandlerStep(b)
  PROVE  ScopeInv'
<1>t. /\ TypeOK /\ job \in [Subs -> Job] /\ due \in [Subs -> Nat] /\ "overlay" \in Subs
      /\ \A c \in Subs : job[c].pc # "idle" => due[c] > 0
      /\ Placed /\ job[b] \in Job
  BY DEF SessionInv, TypeOK, UnderWay, Subs, ScopeInv
<1>l. due["overlay"] = 1 /\ job["overlay"].pc = "set" => job["overlay"].loaded = truth["overlay"]
  BY DEF ScopeInv
<1>1. ASSUME NEW p \in RunBy[b], Handle(b, p) PROVE ScopeInv'
  <2> DEFINE j == [job[b] EXCEPT !.pc = FirstStep(b), !.proc = p]
  <2>1. /\ due[b] > 0 /\ job[b].pc = "idle" /\ job' = [job EXCEPT ![b] = j]
        /\ UNCHANGED <<truth, due, row, hot, overlays, req, faults>>
    BY <1>1 DEF Handle
  <2>2. p \in Procs
    BY RunByProcesses
  <2>3. /\ j.pc = FirstStep(b) /\ j.proc = p
    BY <1>t DEF Job
  <2> HIDE DEF j
  <2>4. /\ job'[b].pc = FirstStep(b) /\ job'[b].proc = p
        /\ \A c \in Subs : c # b => job'[c] = job[c]
    BY <1>t, <2>1, <2>3
  <2>5. Placed'
    BY <1>t, <2>2, <2>4 DEF Placed, FirstStep, Subs
  <2>6. due'["overlay"] = 1 /\ job'["overlay"].pc = "set" => job'["overlay"].loaded = truth'["overlay"]
    BY <1>t, <1>l, <2>1, <2>4 DEF FirstStep
  <2>7. \A c \in Procs : Refreshed(c)' => Refreshed(c)
    BY <1>t, <2>1, <2>4 DEF Refreshed, FirstStep
  <2>8. \A c \in Subs, o \in Servers : Evicted(c, o)' => Evicted(c, o)
    BY <1>t, <2>1, <2>4 DEF Evicted, FirstStep
  <2>9. QED  BY <2>1, <2>5, <2>6, <2>7, <2>8, OtherScopes
<1>2. CASE RefreshLoad(b)
  <2> DEFINE j == [job[b] EXCEPT !.pc = "set", !.loaded = truth["overlay"]]
  <2>1. /\ job[b].pc = "load" /\ job' = [job EXCEPT ![b] = j]
        /\ UNCHANGED <<truth, due, row, hot, overlays, req, faults>>
    BY <1>2 DEF RefreshLoad
  <2>2. j.pc = "set" /\ j.loaded = truth["overlay"] /\ j.proc = job[b].proc /\ j.last = job[b].last
    BY <1>t DEF Job
  <2> HIDE DEF j
  <2>3. b = "overlay"
    BY <1>t, <2>1 DEF Placed, Subs
  <2>4. /\ job'[b].pc = "set" /\ job'[b].proc = job[b].proc /\ job'[b].loaded = truth["overlay"]
        /\ \A c \in Subs : c # b => job'[c] = job[c]
    BY <1>t, <2>1, <2>2
  <2>5. Placed'
    BY <1>t, <2>1, <2>3, <2>4 DEF Placed, Subs
  <2>6. \A c \in Procs : Refreshed(c)' => Refreshed(c)
    BY <1>t, <2>1, <2>3, <2>4 DEF Refreshed
  <2>7. \A c \in Subs, o \in Servers : Evicted(c, o)' => Evicted(c, o)
    BY <1>t, <2>1, <2>4 DEF Evicted
  <2>8. QED  BY <2>1, <2>3, <2>4, <2>5, <2>6, <2>7, OtherScopes
<1>3. CASE RefreshSet(b)
  <2> DEFINE o == [overlay |-> job[b].loaded, raced |-> FALSE]
  <2>1. /\ job[b].pc = "set" /\ overlays' = [overlays EXCEPT ![job[b].proc] = o]
        /\ Races /\ Moves(b, "update") /\ UNCHANGED <<truth, due, row, hot, faults>>
    BY <1>3 DEF RefreshSet
  <2>2. b = "overlay" /\ job[b].proc \in Procs
    BY <1>t, <2>1 DEF Placed, Subs
  <2>3. overlays \in [Procs -> Overlay \cup {None}]
    BY <1>t DEF TypeOK
  <2>4. overlays'[job[b].proc].overlay = job[b].loaded
    BY <2>1, <2>2, <2>3
  <2>5. /\ job'[b].pc = "update" /\ job'[b].proc = job[b].proc
        /\ \A c \in Subs : c # b => job'[c] = job[c]
    BY <1>t, <2>1, MovesTyped
  <2>6. \A r \in Requests : req'[r].pc # "idle" => req'[r].raced
    BY <1>t, <2>1, RacesTyped
  <2>7. Placed'
    BY <1>t, <2>1, <2>2, <2>5 DEF Placed, Subs
  <2>8. \A p \in Procs : Refreshed(p)' => overlays'[p].overlay = truth'["overlay"]
    BY <1>t, <1>l, <2>1, <2>2, <2>4, <2>5 DEF Refreshed
  <2>9. \A c \in Subs, p \in Servers : Evicted(c, p)' => Evicted(c, p)
    BY <1>t, <2>1, <2>5 DEF Evicted
  <2>10. QED  BY <2>1, <2>2, <2>5, <2>6, <2>7, <2>8, <2>9, OtherScopes
<1>4. CASE InvalidateRows(b)
  <2>1. /\ job[b].pc = "update" /\ Races /\ Moves(b, "evict")
        /\ UNCHANGED <<truth, due, hot, overlays, faults>>
    BY <1>4 DEF InvalidateRows
  <2>2. /\ job'[b].pc = "evict" /\ job'[b].proc = job[b].proc /\ job'[b].last = job[b].last
        /\ \A c \in Subs : c # b => job'[c] = job[c]
    BY <1>t, <2>1, MovesTyped
  <2>3. \A r \in Requests : req'[r].pc # "idle" => req'[r].raced
    BY <1>t, <2>1, RacesTyped
  <2>4. Placed'
    BY <1>t, <2>1, <2>2 DEF Placed, Subs
  <2>5. due'["overlay"] = 1 /\ job'["overlay"].pc = "set" => job'["overlay"].loaded = truth'["overlay"]
    BY <1>t, <1>l, <2>1, <2>2
  <2>6. \A c \in Procs : Refreshed(c)' => Refreshed(c)
    BY <1>t, <2>1, <2>2 DEF Refreshed
  <2>7. \A c \in Subs, p \in Servers : Evicted(c, p)' => Evicted(c, p)
    BY <1>t, <2>1, <2>2 DEF Evicted
  <2>8. QED  BY <2>1, <2>3, <2>4, <2>5, <2>6, <2>7, OtherScopes
<1>5. CASE Evict(b)
  <2> DEFINE j == [job[b] EXCEPT !.pc = "commit", !.last = job[b].proc]
  <2>1. /\ job[b].pc = "evict" /\ job' = [job EXCEPT ![b] = j] /\ Races
        /\ hot' = [p \in Servers |-> IF p = job[b].proc THEN [s \in Sessions |-> None] ELSE hot[p]]
        /\ UNCHANGED <<truth, due, row, overlays, faults>>
    BY <1>5 DEF Evict
  <2>2. j.pc = "commit" /\ j.last = job[b].proc /\ j.proc = job[b].proc
    BY <1>t DEF Job
  <2> HIDE DEF j
  <2>3. /\ job'[b].pc = "commit" /\ job'[b].last = job[b].proc /\ job'[b].proc = job[b].proc
        /\ \A c \in Subs : c # b => job'[c] = job[c]
    BY <1>t, <2>1, <2>2
  <2>4. \A r \in Requests : req'[r].pc # "idle" => req'[r].raced
    BY <1>t, <2>1, RacesTyped
  <2>5. Placed'
    BY <1>t, <2>1, <2>3 DEF Placed, Subs
  <2>6. due'["overlay"] = 1 /\ job'["overlay"].pc = "set" => job'["overlay"].loaded = truth'["overlay"]
    BY <1>t, <1>l, <2>1, <2>3
  <2>7. \A c \in Procs : Refreshed(c)' => Refreshed(c)
    BY <1>t, <2>1, <2>3 DEF Refreshed
  <2>8. ASSUME NEW c \in Subs, NEW p \in Servers, Evicted(c, p)'
        PROVE  \/ \A s \in Sessions : hot'[p][s] = None
               \/ /\ Evicted(c, p)
                  /\ \A s \in Sessions : hot'[p][s] = hot[p][s] \/ hot'[p][s] = None
    <3>1. CASE p = job[b].proc
      BY <2>1, <3>1
    <3>2. CASE p # job[b].proc
      BY <2>1, <2>3, <2>8, <3>2 DEF Evicted
    <3>3. QED  BY <3>1, <3>2
  <2>9. QED  BY <2>1, <2>4, <2>5, <2>6, <2>7, <2>8, OtherScopes
<1>6. CASE Commit(b)
  <2>1. /\ job[b].pc = "commit" /\ due' = [due EXCEPT ![b] = due[b] - 1] /\ Ends(b)
        /\ UNCHANGED <<truth, row, hot, overlays, req, faults>>
    BY <1>6 DEF Commit
  <2>2. /\ job'[b].pc = "idle" /\ job'[b].last = job[b].last
        /\ \A c \in Subs : c # b => job'[c] = job[c]
    BY <1>t, <2>1, EndsTyped
  <2>3. due'[b] = due[b] - 1 /\ \A c \in Subs : c # b => due'[c] = due[c]
    BY <1>t, <2>1
  <2>4. job[b].last = job[b].proc
    BY <1>t, <2>1 DEF Placed
  <2>5. Placed'
    BY <1>t, <2>1, <2>2 DEF Placed, Subs
  <2>6. due'["overlay"] = 1 /\ job'["overlay"].pc = "set" => job'["overlay"].loaded = truth'["overlay"]
    BY <1>t, <1>l, <2>1, <2>2, <2>3
  <2>7. \A c \in Procs : Refreshed(c)' => Refreshed(c)
    BY <1>t, <2>1, <2>2, <2>3, <2>4 DEF Refreshed
  <2>8. \A c \in Subs, p \in Servers : Evicted(c, p)' => Evicted(c, p)
    BY <1>t, <2>1, <2>2, <2>3 DEF Evicted
  <2>9. QED  BY <2>1, <2>5, <2>6, <2>7, <2>8, OtherScopes
<1>7. QED
  BY <1>1, <1>2, <1>3, <1>4, <1>5, <1>6 DEF HandlerStep

LEMMA HandlerFailsScopes ==
  ASSUME SessionInv, ScopeInv, NEW b \in Subs, HandlerFails(b)
  PROVE  ScopeInv'
<1>1. /\ job[b].pc # "idle" /\ Ends(b)
      /\ UNCHANGED <<truth, due, row, hot, overlays, req>>
  BY DEF HandlerFails
<1>2. /\ TypeOK /\ due \in [Subs -> Nat] /\ "overlay" \in Subs /\ Placed
      /\ \A c \in Subs : job[c].pc # "idle" => due[c] > 0
  BY DEF SessionInv, TypeOK, UnderWay, Subs, ScopeInv
<1>3. /\ job'[b].pc = "idle" /\ job'[b].last = job[b].last
      /\ \A c \in Subs : c # b => job'[c] = job[c]
  BY <1>1, <1>2, EndsTyped
<1>4. Placed'
  BY <1>2, <1>3 DEF Placed, Subs
<1>5. due'["overlay"] = 1 /\ job'["overlay"].pc = "set" => job'["overlay"].loaded = truth'["overlay"]
  BY <1>1, <1>2, <1>3 DEF ScopeInv
<1>6. \A c \in Procs : Refreshed(c)' => Refreshed(c)
  BY <1>1, <1>2, <1>3 DEF Refreshed
<1>7. \A c \in Subs, p \in Servers : Evicted(c, p)' => Evicted(c, p)
  BY <1>1, <1>2, <1>3 DEF Evicted
<1>8. QED  BY <1>1, <1>4, <1>5, <1>6, <1>7, OtherScopes

LEMMA ExpireScopes ==
  ASSUME SessionInv, ScopeInv, NEW p \in Servers, NEW s \in Sessions, Expire(p, s)
  PROVE  ScopeInv'
<1>1. /\ hot' = [hot EXCEPT ![p][s] = None]
      /\ UNCHANGED <<truth, due, job, row, overlays, req, faults>>
  BY DEF Expire
<1>2. hot \in [Servers -> [Sessions -> Scope \cup {None}]]
  BY DEF SessionInv, TypeOK
<1>3. \A o \in Servers, c \in Sessions : hot'[o][c] = hot[o][c] \/ hot'[o][c] = None
  BY <1>1, <1>2
<1>4. Placed'
  BY <1>1 DEF ScopeInv, Placed
<1>5. due'["overlay"] = 1 /\ job'["overlay"].pc = "set" => job'["overlay"].loaded = truth'["overlay"]
  BY <1>1 DEF ScopeInv
<1>6. /\ \A c \in Procs : Refreshed(c)' => Refreshed(c)
      /\ \A c \in Subs, o \in Servers : Evicted(c, o)' => Evicted(c, o)
  BY <1>1 DEF Refreshed, Evicted
<1>7. QED  BY <1>1, <1>3, <1>4, <1>5, <1>6, OtherScopes

LEMMA CrashScopes ==
  ASSUME SessionInv, ScopeInv, NEW p \in Procs, Crash(p)
  PROVE  ScopeInv'
<1>1. /\ hot' = [o \in Servers |-> IF o = p THEN [s \in Sessions |-> None] ELSE hot[o]]
      /\ overlays' = [overlays EXCEPT ![p] = None]
      /\ req' = [r \in Requests |-> IF req[r].proc = p THEN NoRequest ELSE req[r]]
      /\ job' = [b \in Subs |-> IF job[b].proc = p THEN Ended(job[b]) ELSE job[b]]
      /\ UNCHANGED <<truth, due, row>>
  BY DEF Crash
<1>2. /\ TypeOK /\ due \in [Subs -> Nat] /\ job \in [Subs -> Job] /\ "overlay" \in Subs /\ Placed
      /\ \A c \in Subs : job[c].pc # "idle" => due[c] > 0
  BY DEF SessionInv, TypeOK, UnderWay, Subs, ScopeInv
<1>3. NoRequest.pc = "idle"
  BY DEF NoRequest
<1>4. \A b \in Subs : Ended(job[b]).pc = "idle" /\ Ended(job[b]).last = job[b].last
  BY <1>2 DEF Ended, Job
<1>5. \A b \in Subs : job'[b] = job[b] \/ (job'[b].pc = "idle" /\ job'[b].last = job[b].last)
  BY <1>1, <1>4
<1>6. /\ \A r \in Requests : req'[r] = req[r] \/ req'[r].pc = "idle"
      /\ \A o \in Procs : overlays'[o] = overlays[o] \/ overlays'[o] = None
      /\ \A o \in Servers, s \in Sessions : hot'[o][s] = hot[o][s] \/ hot'[o][s] = None
  BY <1>1, <1>2, <1>3 DEF TypeOK
<1>7. Placed'
  BY <1>2, <1>5 DEF Placed, Subs
<1>8. due'["overlay"] = 1 /\ job'["overlay"].pc = "set" => job'["overlay"].loaded = truth'["overlay"]
  BY <1>1, <1>2, <1>5 DEF ScopeInv
<1>9. \A o \in Procs : Refreshed(o)' => Refreshed(o)
  BY <1>1, <1>2, <1>5 DEF Refreshed
<1>10. \A b \in Subs, o \in Servers : Evicted(b, o)' => Evicted(b, o)
  BY <1>1, <1>2, <1>5 DEF Evicted
<1>11. QED  BY <1>1, <1>6, <1>7, <1>8, <1>9, <1>10, OtherScopes

LEMMA ScopeStep == SessionInv /\ ScopeInv /\ [Next]_vars => ScopeInv'
<1> SUFFICES ASSUME SessionInv, ScopeInv, [Next]_vars PROVE ScopeInv'
  OBVIOUS
<1>1. CASE UNCHANGED vars
  BY <1>1 DEF vars, ScopeInv, Placed, Refreshed, Evicted, OverlayPresent, Present
<1>2. CASE Next
  BY <1>2, ChangeScopes, HandlerStepScopes, HandlerFailsScopes, RequestStepScopes, AskScopes,
     ExpireScopes, CrashScopes DEF Next
<1>3. QED  BY <1>1, <1>2

\* In the process whose handler ran last, a cached scope that did not race with a
\* handler has the present grants and overlay once their events are handled.
THEOREM ScopesAreCurrent == Spec => []ScopeIsCurrent
<1>1. Spec => []ScopeInv
  BY InitScopes, ScopeStep, SessionInvariant, PTL DEF Spec
<1>2. ScopeInv => ScopeIsCurrent
  BY DEF ScopeInv, Evicted, Present, ScopeIsCurrent
<1>3. QED  BY <1>1, <1>2, PTL
=============================================================================
