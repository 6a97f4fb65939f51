SPECIFICATION Spec
CONSTANTS
    s1 = s1
    s2 = s2
    mon = mon
    tue = tue
    d1 = d1
    d2 = d2
    Desks = {d1, d2}
    Students = {s1, s2}
    Days = {mon, tue}
    Tomorrow = {tue}
    Timetabled <- OneOnMonday
    Opening <- OneEach
    MaxSessions = 2
    Presses = 4
    Losses = TRUE
    None = None
INVARIANT TypeOK
INVARIANT CreditsAddUp
INVARIANT MarksAreOfTheDay
SYMMETRY DeskSymmetry
CHECK_DEADLOCK FALSE
