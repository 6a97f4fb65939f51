SPECIFICATION Spec
CONSTANTS
    Desks = {d1, d2}
    Days = {mon, wed, nextmon}
    LessonDays = {mon, nextmon}
    FirstClosures = {{}, {nextmon}}
    MaxChanges = 3
    Presses = 3
    Turns = 1
    Nothing = Nothing
SYMMETRY DesksAreAlike
INVARIANT RecordsOK
INVARIANT SpentOnce
INVARIANT MakeupsArePaidFor
INVARIANT CreditsGoWithAbsences
