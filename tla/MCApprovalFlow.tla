--------------------------- MODULE MCApprovalFlow ---------------------------
(* Instances of ApprovalFlow for TLC.                                      *)
EXTENDS ApprovalFlow, TLC

NoDots == {}
=============================================================================
