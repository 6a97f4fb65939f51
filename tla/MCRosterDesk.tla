---------------------------- MODULE MCRosterDesk ----------------------------
\* Values of RosterDesk's constants for TLC.
EXTENDS RosterDesk, TLC

CONSTANTS s1, s2, mon, tue, d1, d2
DeskSymmetry == Permutations({d1, d2})
OneOnMonday == (mon :> {s1}) @@ (tue :> {s1, s2})
OneEach == (s1 :> 1) @@ (s2 :> 1)
=============================================================================
