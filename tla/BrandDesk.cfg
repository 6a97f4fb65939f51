SPECIFICATION Spec
CONSTANTS
    Tabs = {t1, t2}
    Incomplete = {2}
    MaxEdits = 2
    MaxCalls = 3
    Losses = TRUE
    None = None
    Unread = Unread
SYMMETRY TabsAreAlike
INVARIANT TypeOK
 
INVARIANT PublishedMeansPublic
INVARIANT PageNamesItsVersion
CHECK_DEADLOCK FALSE
