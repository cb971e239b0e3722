--------------------------- MODULE MCPlannerBoard ---------------------------
EXTENDS PlannerBoard, TLC

CONSTANTS e1, e2, t1, t2, t3, b1

MCEditors == {e1, e2}
MCTasks == {t1, t2, t3}
MCBuckets == {b1}
\* Two tasks in the bucket; a third may be created.
MCHome == [t \in {t1, t2} |-> b1]
MCRank == (t1 :> 1) @@ (t2 :> 2)

\* Requests are alike.
MCSymmetry == Permutations(MCEditors)
=============================================================================
