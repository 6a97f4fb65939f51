-------------------------- MODULE MCMakeupCredits --------------------------
\* Symmetry of MakeupCredits' desks for TLC.
EXTENDS MakeupCredits, TLC

DesksAreAlike == Permutations(Desks)
=============================================================================
