SPECIFICATION Spec
CONSTANTS
    c1 = c1
    c2 = c2
    Classes = {c1}
    Workers = {w1, w2}
    Requests = {b1, b2}
    Phones = {p1, p2}
    Known = {p1}
    HoldHours = 1
    Capacity <- OnePlace
    CapacityEdits = {2}
    EnrolmentEdits = {0, 1}
    EndOfTime = 1
    None = None
SYMMETRY Alike
INVARIANT TypeOK
INVARIANT EnquiriesAreCountedOnce
