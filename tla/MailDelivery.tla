---------------------------- MODULE MailDelivery ----------------------------
(***************************************************************************)
(* What the mail outbox promises about each mail: once it is requested it  *)
(* is handed to the transport any number of times until its fate is        *)
(* settled; it is settled as sent only if the transport accepted it; and   *)
(* nothing happens to it any more once it is settled.                      *)
(***************************************************************************)
EXTENDS Naturals

CONSTANT Mails

VARIABLES
    fate,     \* what is recorded of each mail
    accepted  \* how often the transport took it

Request(m) ==
    /\ fate[m] = "absent"
    /\ fate' = [fate EXCEPT ![m] = "pending"]
    /\ UNCHANGED accepted

Accept(m) ==
    /\ fate[m] = "pending"
    /\ accepted' = [accepted EXCEPT ![m] = @ + 1]
    /\ UNCHANGED fate

SettleSent(m) ==
    /\ fate[m] = "pending" /\ accepted[m] > 0
    /\ fate' = [fate EXCEPT ![m] = "sent"]
    /\ UNCHANGED accepted

SettleFailed(m) ==
    /\ fate[m] = "pending"
    /\ fate' = [fate EXCEPT ![m] = "permanently_failed"]
    /\ UNCHANGED accepted

Init ==
    /\ fate = [m \in Mails |-> "absent"]
    /\ accepted = [m \in Mails |-> 0]

Next == \E m \in Mails : Request(m) \/ Accept(m) \/ SettleSent(m) \/ SettleFailed(m)

Spec == Init /\ [][Next]_<<fate, accepted>>
=============================================================================
