SPECIFICATION Spec
CONSTANTS
    s1 = s1
    s2 = s2
    p1 = p1
    p2 = p2
    Workers = {w1, w2}
    Sessions = {s1, s2}
    Periods = {p1, p2}
    Covers <- Overlapping
    Amounts = {0, 2}
    None = None
SYMMETRY Alike
INVARIANT TypeOK
INVARIANT ConfirmedSessionsAreLocked
PROPERTY LockedSessionsAreFrozen
PROPERTY ConfirmedTotalsAreFrozen
