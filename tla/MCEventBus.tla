----------------------------- MODULE MCEventBus -----------------------------
(* Instances of EventBus for TLC. *)
EXTENDS EventBusInv, TLC

\* One event type, one subscription, drained by one or by two replicas.
OneType == [s \in Subs |-> CHOOSE t \in Types : TRUE]
Silent  == [s \in Subs |-> {}]
OneSub  == [l \in Loops |-> CHOOSE s \in Subs : TRUE]

\* Two subscriptions: the handlers of s1, on type a, emit events of type b, which s2 reads.
CONSTANTS a, b, s1, s2, l1, l2
ChainTypes == s1 :> a @@ s2 :> b
Chain      == s1 :> {b} @@ s2 :> {}
ChainLoops == l1 :> s1 @@ l2 :> s2

=============================================================================
