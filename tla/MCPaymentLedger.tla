------------------------- MODULE MCPaymentLedger -------------------------
\* Values of PaymentLedger's constants for TLC.
EXTENDS PaymentLedger

CONSTANTS i1, i2
TwoInvoices == <<i1, i2>>
TotalOfTwo == (i1 :> 2) @@ (i2 :> 1)
=============================================================================
