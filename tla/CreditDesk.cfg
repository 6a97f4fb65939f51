SPECIFICATION Spec
CONSTANTS
    s1 = s1
    s2 = s2
    a1 = a1
    a2 = a2
    Desks = {d1}
    Students = {s1, s2}
    Packs = {1, 2}
    Accounts = {a1, a2}
    PaidBy <- OneOfTwo
    Bought <- FirstHasTwo
    MaxIntents = 5
    MaxMoves = 2
    Submits = 3
    Losses = TRUE
    New = New
    None = None
INVARIANT TypeOK
INVARIANT OneFormOneMove
INVARIANT RefundsWithinPurchase
CHECK_DEADLOCK FALSE
