SPECIFICATION Spec
CONSTANTS
    e1 = e1  e2 = e2
    t1 = t1  t2 = t2  t3 = t3
    b1 = b1
    None = None
    Editors <- MCEditors
    Tasks <- MCTasks
    Buckets <- MCBuckets
    Home <- MCHome
    Rank <- MCRank
    Gap = 8
    MaxEdits = 3
SYMMETRY MCSymmetry
INVARIANTS TypeOK StaleOnlyIfRaced LiveTaskInLiveBucket HintsDistinct
PROPERTY MoveLands
CHECK_DEADLOCK FALSE
