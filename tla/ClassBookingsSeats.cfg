SPECIFICATION Spec
CONSTANTS
    c1 = c1
    c2 = c2
    Classes = {c1}
    Workers = {w1, w2}
    Requests = {b1, b2, b3}
    Phones = {p1, p2, p3}
    Known = {p1}
    HoldHours = 2
    Capacity <- TwoPlaces
    CapacityEdits = {}
    EnrolmentEdits = {}
    EndOfTime = 2
    None = None
SYMMETRY Alike
PROPERTY NoSeatInAFullClass
INVARIANT HeldPlacesAreThere
