--------------------------- MODULE EventDelivery ---------------------------
(***************************************************************************)
(* What the event bus promises a subscription, without saying how: events  *)
(* are published once and for good, and each subscription gives an event   *)
(* at most one outcome, later events after earlier ones in key order.      *)
(* Batches, cursors, locks, retries and crashes do not appear.  That every *)
(* event gets an outcome is not promised: see EventBus!AtLeastOnce.        *)
(***************************************************************************)
EXTENDS Naturals

CONSTANTS EventIds, Subs

VARIABLES
  log,      \* log[e] : the key (occurred_at, id) of a published event e
  outcome   \* outcome[s][e] : what became of e for subscription s

Published == DOMAIN log

Settled(s) == {e \in EventIds : outcome[s][e] # "none"}

Earlier(k, m) == k.ts < m.ts \/ (k.ts = m.ts /\ k.id < m.id)

Init ==
  /\ log = [e \in {} |-> [ts |-> 0, id |-> 0]]
  /\ outcome = [s \in Subs |-> [e \in EventIds |-> "none"]]

\* The log grows: a published event keeps its key.
Grows(C) ==
  /\ C \subseteq EventIds \ Published
  /\ DOMAIN log' = Published \cup C
  /\ \A e \in Published : log'[e] = log[e]

PublishSome(C) == Grows(C) /\ UNCHANGED outcome

\* Subscription s settles the events of Done (applied) and Dead (dead-lettered) at once,
\* all of them later than everything it settled before, and its handlers publish C.
SettleSome(s, Done, Dead, C) ==
  /\ Done \cap Dead = {}
  /\ Done \cup Dead \subseteq Published \ Settled(s)
  /\ \A e \in Done \cup Dead, f \in Settled(s) : Earlier(log[f], log[e])
  /\ C # {} => Done # {}
  /\ Grows(C)
  /\ outcome' = [outcome EXCEPT ![s] =
       [e \in EventIds |-> IF e \in Done THEN "applied"
                           ELSE IF e \in Dead THEN "dead" ELSE @[e]]]

Next ==
  \/ \E C \in SUBSET EventIds : PublishSome(C)
  \/ \E s \in Subs, Done, Dead, C \in SUBSET EventIds : SettleSome(s, Done, Dead, C)

Spec == Init /\ [][Next]_<<log, outcome>>
=============================================================================
