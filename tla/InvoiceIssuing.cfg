SPECIFICATION Spec
CONSTANTS
    w1 = w1
    w2 = w2
    i1 = i1
    i2 = i2
    l1 = l1
    l2 = l2
    Nil = Nil
    Workers = {w1, w2}
    Invoices = {i1, i2}
    Lines = {l1, l2}
    Taxed = {l2}
SYMMETRY Symmetry
INVARIANTS
    TypeOK
    NumbersAreGapless
    IssuedIsValid
PROPERTIES
    IssuedIsFrozen
    SnapshotIsCurrent
    ImplementsRegister
CHECK_DEADLOCK FALSE
