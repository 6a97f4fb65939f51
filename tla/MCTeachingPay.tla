---------------------------- MODULE MCTeachingPay ----------------------------
\* Values of TeachingPay's constants for TLC.
EXTENDS TeachingPay, TLC

CONSTANTS s1, s2, p1, p2
OnePeriod == (p1 :> {s1, s2})
Overlapping == (p1 :> {s1, s2}) @@ (p2 :> {s2})
Alike == Permutations(Workers)
=============================================================================
