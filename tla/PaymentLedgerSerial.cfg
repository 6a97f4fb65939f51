SPECIFICATION Spec
CONSTANTS
    Workers = {w1}
    Payments = {p1, p2}
    i1 = i1
    i2 = i2
    Invoices <- TwoInvoices
    Total <- TotalOfTwo
    Amounts = {1, 3}
    Tries = 2
    None = None
INVARIANT AllocatedWithinPayment
INVARIANT PaidIsSumOfAllocations
INVARIANT NeverOverpaid
CHECK_DEADLOCK FALSE
