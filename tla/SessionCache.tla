---------------------------- MODULE SessionCache ----------------------------
(***************************************************************************)
(* The cached session scopes of one user (packages/core/src/session, the   *)
(* session middleware, and the subscribers that invalidate scopes).        *)
(*                                                                         *)
(* A scope is derived from the user's role grants and the tenant's         *)
(* permission overlay.  It is kept in three places: a row of               *)
(* core.session_scope_cache (the roles only), an LRU of each process (roles *)
(* and resolved permissions), and each process keeps the overlay itself.   *)
(* A change of the grants or of the overlay commits an event; a handler in *)
(* some process, later, invalidates.  Requests build scopes meanwhile, and *)
(* every await of a request or of a handler ends an action.                *)
(*                                                                         *)
(* Grants and overlay are abstracted to their versions.  Events of a       *)
(* subscription are handled one at a time, each at least once (EventBus).  *)
(***************************************************************************)
EXTENDS Naturals

CONSTANTS
    Procs,       \* processes
    Servers,     \* the processes that serve requests
    RunBy,       \* the processes that run the handlers of each subscription
    Sessions,    \* sessions of the user
    Requests,    \* requests that may be under way at once
    None,        \* an absent entry
    MaxChanges,  \* bound: changes of the grants, and of the overlay
    MaxFaults    \* bound: restarts and failed handlers

Subs == {"grants", "overlay"}

ASSUME ServersAreProcesses == Servers \subseteq Procs
ASSUME RunByProcesses == RunBy \in [Subs -> SUBSET Procs]
ASSUME NoneIsApart == None \notin Procs /\ None \notin [grants: Nat, overlay: Nat, raced: BOOLEAN]
                      /\ None \notin [overlay: Nat, raced: BOOLEAN]
ASSUME BoundsAreNatural == MaxChanges \in [Subs -> Nat] /\ MaxFaults \in Nat

VARIABLES
    truth,   \* versions of the committed role grants and overlay
    due,     \* events of each subscription not handled yet
    job,     \* the handler of each subscription: where it runs, how far it is
    row,     \* core.session_scope_cache
    hot,     \* each process's LRU of scopes
    overlays,\* each process's overlay store
    req,     \* requests under way
    faults   \* (bound)

vars == <<truth, due, job, row, hot, overlays, req, faults>>

Scope == [grants: Nat, overlay: Nat, raced: BOOLEAN]
Overlay == [overlay: Nat, raced: BOOLEAN]
\* raced is an observer: a handler's step fell within the request that read the
\* data, or within the one it took them from.
Request == [pc: {"idle", "row", "grants", "resolve", "fill", "store", "keep"},
            proc: Procs \cup {None}, session: Sessions \cup {None}, build: BOOLEAN,
            grants: Nat, overlay: Nat, raced: BOOLEAN]
Job == [pc: {"idle", "load", "set", "update", "evict", "commit"}, proc: Procs \cup {None},
        last: Procs \cup {None}, loaded: Nat]

TypeOK ==
    /\ truth \in [Subs -> Nat]
    /\ due \in [Subs -> Nat]
    /\ job \in [Subs -> Job]
    /\ row \in [Sessions -> [valid: BOOLEAN, grants: Nat, raced: BOOLEAN]]
    /\ hot \in [Servers -> [Sessions -> Scope \cup {None}]]
    /\ overlays \in [Procs -> Overlay \cup {None}]
    /\ req \in [Requests -> Request]
    /\ faults \in Nat

\* Absent or invalidated: what it says is not read any more.
NoRow == [valid |-> FALSE, grants |-> 0, raced |-> FALSE]
NoRequest == [pc |-> "idle", proc |-> None, session |-> None, build |-> FALSE,
              grants |-> 0, overlay |-> 0, raced |-> FALSE]

Init ==
    /\ truth = [b \in Subs |-> 0] /\ due = [b \in Subs |-> 0]
    /\ job = [b \in Subs |-> [pc |-> "idle", proc |-> None, last |-> None, loaded |-> 0]]
    /\ row = [s \in Sessions |-> NoRow]
    /\ hot = [p \in Servers |-> [s \in Sessions |-> None]]
    /\ overlays = [p \in Procs |-> None]
    /\ req = [r \in Requests |-> NoRequest]
    /\ faults = 0

-----------------------------------------------------------------------------
(* Writers: a grant or an overlay row changes with its event, in one       *)
(* transaction.                                                            *)

Change(b) ==
    /\ truth[b] < MaxChanges[b]
    /\ truth' = [truth EXCEPT ![b] = truth[b] + 1]
    /\ due' = [due EXCEPT ![b] = due[b] + 1]
    /\ UNCHANGED <<job, row, hot, overlays, req, faults>>

-----------------------------------------------------------------------------
(* getSessionScope                                                         *)

Goes(r, q) == req' = [req EXCEPT ![r] = q]

\* A scope in the LRU answers at once and changes nothing.  Without one the row is read.
Ask(r, p, s) ==
    /\ req[r].pc = "idle" /\ hot[p][s] = None
    /\ Goes(r, [NoRequest EXCEPT !.pc = "row", !.proc = p, !.session = s])
    /\ UNCHANGED <<truth, due, job, row, hot, overlays, faults>>

ReadRow(r) ==
    LET q == req[r]
        found == row[q.session]
    IN /\ q.pc = "row"
       /\ Goes(r, IF found.valid
                  THEN [q EXCEPT !.pc = "resolve", !.grants = found.grants,
                                 !.raced = q.raced \/ found.raced]
                  ELSE [q EXCEPT !.pc = "grants", !.build = TRUE])
       /\ UNCHANGED <<truth, due, job, row, hot, overlays, faults>>

ReadGrants(r) ==
    LET q == req[r]
    IN /\ q.pc = "grants"
       /\ Goes(r, [q EXCEPT !.pc = "resolve", !.grants = truth["grants"]])
       /\ UNCHANGED <<truth, due, job, row, hot, overlays, faults>>

Resolved(q, o) ==
    [q EXCEPT !.pc = IF q.build THEN "store" ELSE "keep", !.overlay = o.overlay,
              !.raced = q.raced \/ o.raced]

\* overlayStore.get: a hit, or a load whose result is kept when it arrives.
ResolveHit(r) ==
    LET q == req[r]
    IN /\ q.pc = "resolve" /\ overlays[q.proc] # None
       /\ Goes(r, Resolved(q, overlays[q.proc]))
       /\ UNCHANGED <<truth, due, job, row, hot, overlays, faults>>

ResolveLoad(r) ==
    LET q == req[r]
    IN /\ q.pc = "resolve" /\ overlays[q.proc] = None
       /\ Goes(r, [q EXCEPT !.pc = "fill", !.overlay = truth["overlay"]])
       /\ UNCHANGED <<truth, due, job, row, hot, overlays, faults>>

ResolveFill(r) ==
    LET q == req[r]
        o == [overlay |-> q.overlay, raced |-> q.raced]
    IN /\ q.pc = "fill"
       /\ overlays' = [overlays EXCEPT ![q.proc] = o]
       /\ Goes(r, Resolved(q, o))
       /\ UNCHANGED <<truth, due, job, row, hot, faults>>

\* INSERT ... ON CONFLICT DO UPDATE, invalidated_at = NULL.
Store(r) ==
    LET q == req[r]
    IN /\ q.pc = "store"
       /\ row' = [row EXCEPT ![q.session] = [valid |-> TRUE, grants |-> q.grants, raced |-> q.raced]]
       /\ Goes(r, [q EXCEPT !.pc = "keep", !.build = FALSE])
       /\ UNCHANGED <<truth, due, job, hot, overlays, faults>>

Kept(q) == [grants |-> q.grants, overlay |-> q.overlay, raced |-> q.raced]

Keep(r) ==
    LET q == req[r]
    IN /\ q.pc = "keep"
       /\ hot' = [hot EXCEPT ![q.proc][q.session] = Kept(q)]
       /\ Goes(r, NoRequest)
       /\ UNCHANGED <<truth, due, job, row, overlays, faults>>

NeverExpires(p, s) == FALSE  \* mutant

\* The LRU forgets a scope after 15 minutes, or for want of room.
Expire(p, s) ==
    /\ hot[p][s] # None
    /\ hot' = [hot EXCEPT ![p][s] = None]
    /\ UNCHANGED <<truth, due, job, row, overlays, req, faults>>

-----------------------------------------------------------------------------
(* The handlers: core.session-invalidate-by-* and                          *)
(* apps.server.refresh-role-overlay.                                       *)

Moves(b, pc) == job' = [job EXCEPT ![b] = [job[b] EXCEPT !.pc = pc]]
EndedMisspelt(j) == [j EXCEPT !.pc = "done", !.proc = None, !.loaded = 0]  \* mutant
Ended(j) == [j EXCEPT !.pc = "idle", !.proc = None, !.loaded = 0]
Ends(b) == job' = [job EXCEPT ![b] = Ended(job[b])]

Races == req' = [r \in Requests |-> [req[r] EXCEPT !.raced = req[r].pc # "idle"]]

AlwaysUpdate(b) == "update"  \* mutant
FirstStep(b) == IF b = "overlay" THEN "load" ELSE "update"

Handle(b, p) ==
    /\ due[b] > 0 /\ job[b].pc = "idle"
    /\ job' = [job EXCEPT ![b] = [job[b] EXCEPT !.pc = FirstStep(b), !.proc = p]]
    /\ UNCHANGED <<truth, due, row, hot, overlays, req, faults>>

\* overlayStore.refresh
RefreshLoad(b) ==
    /\ job[b].pc = "load"
    /\ job' = [job EXCEPT ![b] = [job[b] EXCEPT !.pc = "set", !.loaded = truth["overlay"]]]
    /\ UNCHANGED <<truth, due, row, hot, overlays, req, faults>>

RefreshSet(b) ==
    /\ job[b].pc = "set"
    /\ overlays' = [overlays EXCEPT ![job[b].proc] = [overlay |-> job[b].loaded, raced |-> FALSE]]
    /\ Races /\ Moves(b, "update")
    /\ UNCHANGED <<truth, due, row, hot, faults>>

EvictOnly(b) ==  \* mutant
    /\ job[b].pc = "update"
    /\ Races /\ Moves(b, "evict")
    /\ UNCHANGED <<truth, due, row, hot, overlays, faults>>

\* invalidateUserSessions, invalidateTenantSessions: the rows, then this process's LRU.
InvalidateRows(b) ==
    /\ job[b].pc = "update"
    /\ row' = [s \in Sessions |-> NoRow]
    /\ Races /\ Moves(b, "evict")
    /\ UNCHANGED <<truth, due, hot, overlays, faults>>

Evict(b) ==
    /\ job[b].pc = "evict"
    /\ hot' = [p \in Servers |-> IF p = job[b].proc THEN [s \in Sessions |-> None] ELSE hot[p]]
    /\ Races
    /\ job' = [job EXCEPT ![b] = [job[b] EXCEPT !.pc = "commit", !.last = job[b].proc]]
    /\ UNCHANGED <<truth, due, row, overlays, faults>>

\* The dispatcher commits the cursor.
Commit(b) ==
    /\ job[b].pc = "commit"
    /\ due' = [due EXCEPT ![b] = due[b] - 1]
    /\ Ends(b)
    /\ UNCHANGED <<truth, row, hot, overlays, req, faults>>

\* A query of the handler fails: the event is handled again.
HandlerFails(b) ==
    /\ job[b].pc # "idle" /\ faults < MaxFaults
    /\ faults' = faults + 1
    /\ Ends(b)
    /\ UNCHANGED <<truth, due, row, hot, overlays, req>>

\* A process restarts.
Crash(p) ==
    /\ faults < MaxFaults
    /\ faults' = faults + 1
    /\ hot' = [o \in Servers |-> IF o = p THEN [s \in Sessions |-> None] ELSE hot[o]]
    /\ overlays' = [overlays EXCEPT ![p] = None]
    /\ req' = [r \in Requests |-> IF req[r].proc = p THEN NoRequest ELSE req[r]]
    /\ job' = [b \in Subs |-> IF job[b].proc = p THEN Ended(job[b]) ELSE job[b]]
    /\ UNCHANGED <<truth, due, row>>

-----------------------------------------------------------------------------

RequestStep(r) ==
    \/ ReadRow(r) \/ ReadGrants(r)
    \/ ResolveHit(r) \/ ResolveLoad(r) \/ ResolveFill(r)
    \/ Store(r) \/ Keep(r)

HandlerStep(b) ==
    \/ \E p \in RunBy[b] : Handle(b, p)
    \/ RefreshLoad(b) \/ RefreshSet(b) \/ InvalidateRows(b) \/ Evict(b) \/ Commit(b)

Next ==
    \/ \E b \in Subs : Change(b) \/ HandlerStep(b) \/ HandlerFails(b)
    \/ \E r \in Requests : RequestStep(r) \/ \E p \in Servers, s \in Sessions : Ask(r, p, s)
    \/ \E p \in Servers, s \in Sessions : Expire(p, s)
    \/ \E p \in Procs : Crash(p)

Spec == Init /\ [][Next]_vars

\* Awaited queries return, the dispatcher goes on, entries age.  Nobody has to ask.
FairSpec ==
    /\ Spec
    /\ \A r \in Requests : WF_vars(RequestStep(r))
    /\ \A b \in Subs : WF_vars(HandlerStep(b))
    /\ \A p \in Servers, s \in Sessions : WF_vars(Expire(p, s))

-----------------------------------------------------------------------------
(* Properties.                                                             *)

\* A row that counts as valid holds the user's present grants, unless an event
\* is still to be handled, or the request that wrote it was under way while a
\* handler was (scope.ts against invalidate.ts).
RowIsCurrent ==
    \A s \in Sessions :
        row[s].valid /\ due["grants"] = 0 /\ ~row[s].raced => row[s].grants = truth["grants"]

\* In the process that handled the last event, a cached scope has the present
\* grants, or overlay, with the same two exceptions.
ScopeIsCurrent ==
    \A b \in Subs, s \in Sessions :
        LET p == job[b].last IN
        p \in Servers /\ due[b] = 0
        => \/ hot[p][s] = None \/ hot[p][s].raced
           \/ IF b = "grants" THEN hot[p][s].grants = truth[b] ELSE hot[p][s].overlay = truth[b]

\* Once the changes are over, the cached scopes of every process come to agree
\* with the rows, also where no handler ran: entries of the LRU age.
ScopesFollowRows ==
    <>[](\A p \in Servers, s \in Sessions :
            hot[p][s] # None /\ row[s].valid => hot[p][s].grants = row[s].grants)

\* Once the changes are over, no server resolves permissions with an overlay that
\* is out of date.
OverlayTakesEffect ==
    <>[](\A p \in Servers, s \in Sessions :
            hot[p][s] # None => hot[p][s].overlay = truth["overlay"])

-----------------------------------------------------------------------------
(* The inductive invariants behind RowIsCurrent and ScopeIsCurrent         *)
(* (SessionCacheProofs).                                                   *)

\* A request under way has its process and session; a handler has its event.
UnderWay ==
    /\ \A r \in Requests : req[r].pc # "idle" => req[r].proc \in Servers /\ req[r].session \in Sessions
    /\ \A b \in Subs : job[b].pc # "idle" => due[b] > 0

\* No change of the grants is still to reach the rows.
Settled == \/ due["grants"] = 0
           \/ due["grants"] = 1 /\ job["grants"].pc \in {"evict", "commit"}

\* Then whoever did not race with a handler has the present grants: the rows,
\* and the requests that carry them.
Fresh ==
    Settled =>
        /\ \A s \in Sessions : row[s].valid /\ ~row[s].raced => row[s].grants = truth["grants"]
        /\ \A r \in Requests :
              req[r].pc \in {"resolve", "fill", "store", "keep"} /\ ~req[r].raced
              => req[r].grants = truth["grants"]

SessionInv == TypeOK /\ UnderWay /\ Fresh

\* Only the overlay is loaded; a handler that has evicted did so where it runs.
Placed ==
    /\ job["grants"].pc \notin {"load", "set"}
    /\ \A b \in Subs : job[b].pc # "idle" => job[b].proc \in Procs
    /\ \A b \in Subs : job[b].pc = "commit" => job[b].last = job[b].proc

\* p has the last overlay, and no change is still to reach it.
Refreshed(p) ==
    \/ due["overlay"] = 0 /\ job["overlay"].last = p
    \/ /\ due["overlay"] = 1 /\ job["overlay"].proc = p
       /\ job["overlay"].pc \in {"update", "evict", "commit"}

\* p has evicted since the last change.
Evicted(b, p) ==
    /\ job[b].last = p
    /\ \/ due[b] = 0
       \/ due[b] = 1 /\ job[b].pc = "commit"

\* The overlay of p, and those its requests resolve with, are present or raced.
OverlayPresent(p) ==
    /\ overlays[p] = None \/ overlays[p].raced \/ overlays[p].overlay = truth["overlay"]
    /\ \A r \in Requests :
          req[r].proc = p /\ req[r].pc \in {"fill", "store", "keep"} /\ ~req[r].raced
          => req[r].overlay = truth["overlay"]

Present(b, c) == IF b = "grants" THEN c.grants = truth[b] ELSE c.overlay = truth[b]

ScopeInv ==
    /\ Placed
    /\ due["overlay"] = 1 /\ job["overlay"].pc = "set" => job["overlay"].loaded = truth["overlay"]
    /\ \A p \in Procs : Refreshed(p) => OverlayPresent(p)
    /\ \A b \in Subs, p \in Servers :
          Evicted(b, p) => \A s \in Sessions :
                              hot[p][s] = None \/ hot[p][s].raced \/ Present(b, hot[p][s])
=============================================================================
