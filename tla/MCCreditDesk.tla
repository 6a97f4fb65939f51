---------------------------- MODULE MCCreditDesk ----------------------------
\* Values of CreditDesk's constants for TLC.
EXTENDS CreditDesk

CONSTANTS s1, s2, a1, a2
OneOfTwo == (s1 :> {a1}) @@ (s2 :> {})
FirstHasTwo == (s1 :> 2) @@ (s2 :> 0)
=============================================================================
