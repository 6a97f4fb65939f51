SPECIFICATION Spec
CONSTANTS
    Tabs = {t1, t2}
    Rows = {profile}
    Settings = {groups}
    Raising = {profile}
    FirstRevs = {0, 1}
    MaxEdits = 2
    MaxLoads = 2
    Losses = TRUE
    None = None
SYMMETRY TabsAreAlike
INVARIANT TypeOK
INVARIANT WhoeverPassesTheLockKnows
INVARIANT KeptWhenWhole
CHECK_DEADLOCK FALSE
