--------------------------- MODULE MCKnowledgeFile ---------------------------
(* Instances of KnowledgeFile for TLC.                                     *)
EXTENDS KnowledgeFile, TLC

CONSTANTS p1, p2
=============================================================================
