--------------------------- MODULE MCCmsDocument ---------------------------
\* Symmetry of CmsDocument's tabs for TLC.
EXTENDS CmsDocument, TLC

TabsAreAlike == Permutations(Tabs)
=============================================================================
