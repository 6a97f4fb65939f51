SPECIFICATION FairSpec
CONSTANTS
    Workers = {w1, w2}
    Payments = {p1}
    i1 = i1
    i2 = i2
    Invoices <- TwoInvoices
    Total <- TotalOfTwo
    Amounts = {1, 3}
    Tries = 2
    None = None
INVARIANT TypeOK
INVARIANT RefundsFit
INVARIANT DocumentsExplainTheLedger
PROPERTY VoidIsFinal
PROPERTY OneKeyOnePayment
PROPERTY EveryRequestEnds
CHECK_DEADLOCK FALSE
