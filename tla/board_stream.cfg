SPECIFICATION Spec
CONSTANTS
    t1 = t1 t2 = t2 f = f g = g o1 = o1 o2 = o2 m1 = m1 m2 = m2
    Tasks = {t1, t2}
    Fields = {f, g}
    Folded = {f}
    Others = {o1, o2}
    Mutations = {m1, m2}
    Existing = {t1}
    MaxEdits = 3
    MaxExtras = 1
CHECK_DEADLOCK FALSE
SYMMETRY MCSymmetry
INVARIANT TypeOK
INVARIANT DriftForCause
INVARIANT PhantomForCause
PROPERTY BlindForCause
