-------------------------- MODULE MCInvoiceIssuing --------------------------
EXTENDS InvoiceIssuing, TLC
Symmetry == Permutations(Workers) \cup Permutations(Invoices)
=============================================================================
