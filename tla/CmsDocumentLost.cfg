SPECIFICATION Spec
CONSTANTS
    Tabs = {t1, t2}
    Rows = {profile}
    Settings = {groups}
    Raising = {profile}
    FirstRevs = {1}
    MaxEdits = 2
    MaxLoads = 1
    Losses = FALSE
    None = None
SYMMETRY TabsAreAlike
INVARIANT NoEditIsLost
CHECK_DEADLOCK FALSE
