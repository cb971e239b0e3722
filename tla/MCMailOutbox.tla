---------------------------- MODULE MCMailOutbox ----------------------------
(* Instances of MailOutbox for TLC.                                        *)
EXTENDS MailOutbox, TLC

CONSTANTS m1, c1, c2

\* An event delivered twice, or a caller that tries again: two calls for one mail.
OneKey == c1 :> m1 @@ c2 :> m1
=============================================================================
