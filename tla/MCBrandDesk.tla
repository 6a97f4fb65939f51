---------------------------- MODULE MCBrandDesk ----------------------------
\* Symmetry of BrandDesk's tabs for TLC.
EXTENDS BrandDesk, TLC

TabsAreAlike == Permutations(Tabs)
=============================================================================
