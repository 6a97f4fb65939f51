---------------------------- MODULE PaymentLedger ----------------------------
(***************************************************************************)
(* Money in, and the invoices it pays: recording a payment and allocating  *)
(* it to open invoices oldest first, refunding it, reversing an invoice    *)
(* with a credit note, voiding.  Two triggers keep the arithmetic: one     *)
(* checks an allocation against its payment, the other recomputes what its *)
(* invoice has been paid and the status that follows.                      *)
(*                                                                         *)
(* Each request is one READ COMMITTED transaction.  A step is one SQL      *)
(* statement or one trigger query: it sees committed rows and its own, and *)
(* waits for the row locks it needs; it works on with what it read before  *)
(* it waited.                                                              *)
(***************************************************************************)
EXTENDS Integers, FiniteSets, FiniteSetsExt, SequencesExt

CONSTANTS
    Workers,    \* threads of the web server that run requests
    Payments,   \* idempotency keys, each the key of one payments row
    Invoices,   \* the issued invoices of one billing account, oldest due
                \* first: a sequence without repetition
    Amounts,    \* what a payment, a refund or a credit may be worth, in cents
    Total,      \* invoices.total_cents of each
    Tries,      \* how often a client sends one idempotency key: a bound
    None        \* no payment, no invoice

Bills == Range(Invoices)
Pairs == Payments \X Bills

ASSUME RowsAreFinite ==
    /\ Invoices \in Seq(Bills) /\ \A j, k \in DOMAIN Invoices : Invoices[j] = Invoices[k] => j = k
    /\ IsFiniteSet(Payments)
ASSUME TotalsArePositive == Total \in [Bills -> Nat \ {0}]
ASSUME AmountsArePositive == Amounts \subseteq Nat \ {0}
ASSUME TriesIsNumber == Tries \in Nat

VARIABLES
    payment,    \* committed payments rows; amount 0 before the INSERT
    allocation, \* committed payment_allocations.amount_cents; 0 is no row
    stamp,      \* their created_at: the number of the request that wrote them
    invoice,    \* committed invoices rows: status, paid, credited
    documents,  \* sums of the committed refunds and credit_notes rows
    tries,      \* requests begun with each idempotency key
    own,        \* rows each worker has written and not yet committed
    tx          \* where the transaction of each worker stands

vars == <<payment, allocation, stamp, invoice, documents, tries, own, tx>>
rows == <<payment, allocation, stamp, invoice, documents>>

-----------------------------------------------------------------------------
(* Rows.                                                                   *)

Open == {"issued", "part_paid"}
Statuses == Open \cup {"paid", "void"}

NoWrites == [payment |-> <<>>, allocation |-> <<>>, stamp |-> <<>>, invoice |-> <<>>]

Over(f, g) == [x \in DOMAIN f \cup DOMAIN g |-> IF x \in DOMAIN f THEN f[x] ELSE g[x]]
Put(f, x, y) == [z \in DOMAIN f \cup {x} |-> IF z = x THEN y ELSE f[z]]

\* What a statement of worker w sees.
PaymentSeen(w, p) == Over(own[w].payment, payment)[p]
InvoiceSeen(w, i) == Over(own[w].invoice, invoice)[i]
Seen(w) == Over(own[w].allocation, allocation)
StampSeen(w) == Over(own[w].stamp, stamp)

AllocatedIn(alloc, p) == MapThenSumSet(LAMBDA i : alloc[<<p, i>>], Bills)
PaidIn(alloc, i) == MapThenSumSet(LAMBDA p : alloc[<<p, i>>], Payments)

Balance_IgnoresCredit(i, row) == Total[i] - row.paid  \* mutant
Balance(i, row) == Total[i] - row.paid - row.credited
Worth(row) == row.amount - row.refunded

\* The status that trigger sync_invoice_payment_totals derives.
StatusAfter_Revives(i, row, paid) ==        \* mutant: forgets draft and void
    IF paid + row.credited >= Total[i] THEN "paid"
    ELSE IF paid > 0 THEN "part_paid" ELSE "issued"
StatusAfter(i, row, paid) ==
    IF row.status \in {"draft", "void"} THEN row.status
    ELSE IF paid + row.credited >= Total[i] THEN "paid"
    ELSE IF paid > 0 THEN "part_paid" ELSE "issued"

-----------------------------------------------------------------------------
(* Row locks.  A row written and not committed is locked against writers;  *)
(* a FOR UPDATE lock is held from the step that takes it, and so is the    *)
(* KEY SHARE lock with which a foreign key holds the rows it refers to.    *)

LocksPayment_None(w, p) == FALSE            \* mutant: a plain SELECT
LocksPayment(w, p) ==
    /\ tx[w].kind \in {"refund", "credit"}
    /\ tx[w].p = p
    /\ tx[w].pc \notin {"freeze", "lock"}
LocksInvoice_None(w, i) == FALSE            \* mutant: a plain SELECT
LocksInvoice(w, i) ==
    /\ tx[w].kind = "credit"
    /\ tx[w].bill = i
    /\ tx[w].pc # "freeze"
LocksPair(w, x) ==
    /\ tx[w].kind = "credit"
    /\ x = <<tx[w].p, tx[w].bill>>
    /\ tx[w].pc \notin {"freeze", "lock", "credit"}
KeepsPayment(w, p) == tx[w].p = p /\ tx[w].linked # {}
KeepsInvoice(w, i) == i \in tx[w].linked

Others(w) == Workers \ {w}
PaymentWritable(w, p) == \A v \in Others(w) : p \notin DOMAIN own[v].payment
PaymentLinkable(w, p) == PaymentWritable(w, p) /\ \A v \in Others(w) : ~ LocksPayment(v, p)
PaymentLockable(w, p) == PaymentLinkable(w, p) /\ \A v \in Others(w) : ~ KeepsPayment(v, p)
InvoiceLinkable(w, i) == \A v \in Others(w) : ~ LocksInvoice(v, i)
InvoiceWritable(w, i) == InvoiceLinkable(w, i) /\ \A v \in Others(w) : i \notin DOMAIN own[v].invoice
InvoiceLockable(w, i) == InvoiceWritable(w, i) /\ \A v \in Others(w) : ~ KeepsInvoice(v, i)
PairWritable(w, x) == \A v \in Others(w) : x \notin DOMAIN own[v].allocation /\ ~ LocksPair(v, x)

-----------------------------------------------------------------------------
(* Transactions.  tx[w].todo is what the request still has to do to the    *)
(* allocations of its payment, one [bill, amount] each.                    *)

NoTx == [pc |-> "idle", kind |-> "none", p |-> None, bill |-> None, amount |-> 0,
         since |-> 0, left |-> 0, todo |-> <<>>, paid |-> 0, linked |-> {}]

Begin(w, pc, kind, p, bill, amount) ==
    /\ tx[w].pc = "idle"
    /\ tx' = [tx EXCEPT ![w] = [NoTx EXCEPT !.pc = pc, !.kind = kind, !.p = p,
                                            !.bill = bill, !.amount = amount]]

At(w, pc) == tx[w].pc = pc
Goto(w, pc) == tx' = [tx EXCEPT ![w].pc = pc]
Reads == UNCHANGED <<rows, tries, own>>
Writes == UNCHANGED <<rows, tries>>

WritePayment(w, p, row) == own' = [own EXCEPT ![w].payment = Put(@, p, row)]
WriteInvoice(w, i, row) == own' = [own EXCEPT ![w].invoice = Put(@, i, row)]
WritePair(w, x, n, t) ==
    own' = [own EXCEPT ![w].allocation = Put(@, x, n), ![w].stamp = Put(@, x, t)]

End(w) ==
    /\ tx' = [tx EXCEPT ![w] = NoTx]
    /\ own' = [own EXCEPT ![w] = NoWrites]

\* A refund adds a refunds row, a credit a credit note and a refunds row.
Documents(t) ==
    [refunds |-> [p \in Payments |-> documents.refunds[p]
                    + IF t.kind \in {"refund", "credit"} /\ t.p = p THEN t.amount ELSE 0],
     notes |-> [i \in Bills |-> documents.notes[i]
                    + IF t.kind = "credit" /\ t.bill = i THEN t.amount ELSE 0]]

Commit(w) ==
    /\ At(w, "done")
    /\ payment' = Over(own[w].payment, payment)
    /\ allocation' = Over(own[w].allocation, allocation)
    /\ stamp' = Over(own[w].stamp, stamp)
    /\ invoice' = Over(own[w].invoice, invoice)
    /\ documents' = Documents(tx[w])
    /\ End(w)
    /\ UNCHANGED tries

\* The request raises: the handler rolls back and answers 409.
Refuse(w) == End(w) /\ Writes

\* A dropped connection, a crash of the process, or statement_timeout.
Crash(w) == ~ At(w, "idle") /\ Refuse(w)

\* The rows the money gets to: each takes what is left, up to what it has room for.
RoomBefore(bills, room, k) == MapThenSumSet(LAMBDA j : room[bills[j]], 1 .. k - 1)
Spend(left, bills, room) ==
    [k \in {k \in DOMAIN bills : RoomBefore(bills, room, k) < left} |->
       [bill |-> bills[k], amount |-> Min({room[bills[k]], left - RoomBefore(bills, room, k)})]]

-----------------------------------------------------------------------------
(* POST /billing/payments: record_payment, then auto_allocate unless the   *)
(* caller turned it off.  A retry carries the key of the first try.        *)

RecordPayment(w, p, a, bill, kind) ==
    /\ tries[p] < Tries
    /\ tx[w].pc = "idle"
    /\ tries' = [tries EXCEPT ![p] = @ + 1]
    /\ tx' = [tx EXCEPT ![w] = [NoTx EXCEPT !.pc = "insert", !.kind = kind, !.p = p, !.bill = bill,
                                            !.amount = a, !.since = tries[p] + 1]]
    /\ UNCHANGED <<rows, own>>

InsertPayment_Overwrites(w) ==              \* mutant: ON CONFLICT DO UPDATE
    LET p == tx[w].p IN
    /\ At(w, "insert")
    /\ PaymentWritable(w, p)
    /\ WritePayment(w, p, [amount |-> tx[w].amount, refunded |-> 0])
    /\ Goto(w, IF tx[w].kind = "allocate" THEN "read" ELSE "done")
    /\ Writes
InsertPayment(w) ==
    LET p == tx[w].p IN
    /\ At(w, "insert")
    /\ PaymentWritable(w, p)
    /\ IF payment[p].amount > 0 THEN UNCHANGED own
       ELSE WritePayment(w, p, [amount |-> tx[w].amount, refunded |-> 0])
    /\ Goto(w, IF tx[w].kind = "allocate" THEN "read" ELSE "done")
    /\ Writes

\* A refunded payment is not 'succeeded' and is not found.
ReadUnallocated(w) ==
    LET p == tx[w].p
        left == Worth(PaymentSeen(w, p)) - AllocatedIn(Seen(w), p)
    IN
    /\ At(w, "read")
    /\ IF Worth(PaymentSeen(w, p)) = 0 THEN Refuse(w)
       ELSE /\ tx' = [tx EXCEPT ![w].left = left,
                                ![w].pc = IF left <= 0 THEN "done"
                                          ELSE IF tx[w].bill = None THEN "plan" ELSE "prefer"]
            /\ Reads

Payable(w, i) == InvoiceSeen(w, i).status \in Open /\ Balance(i, InvoiceSeen(w, i)) > 0

CheckPreferred(w) ==
    /\ At(w, "prefer")
    /\ IF Payable(w, tx[w].bill) THEN Goto(w, "plan") /\ Reads ELSE Refuse(w)

\* The open invoices: the preferred one, then by due date.
OldestFirst(w) ==
    LET due(i) == CHOOSE k \in DOMAIN Invoices : Invoices[k] = i
        sooner(i, j) == i = tx[w].bill \/ (j # tx[w].bill /\ due(i) < due(j))
    IN  {s \in SetToSeqs({i \in Bills : Payable(w, i)}) :
           \A j, k \in DOMAIN s : j < k => sooner(s[j], s[k])}

PlanAllocations(w) ==
    /\ At(w, "plan")
    /\ \E open \in OldestFirst(w) :
         LET plan == Spend(tx[w].left, open, [i \in Bills |-> Balance(i, InvoiceSeen(w, i))])
         IN  tx' = [tx EXCEPT ![w].left = 0, ![w].todo = plan,
                              ![w].pc = IF plan = <<>> THEN "done" ELSE "check"]
    /\ Reads

\* assert_allocation_within_payment, with `except` the row that is updated.
FitsPayment(w, x, n, except) ==
    AllocatedIn(Seen(w), x[1]) - except + n <= Worth(PaymentSeen(w, x[1]))

NextPair(w) == <<tx[w].p, Head(tx[w].todo).bill>>
NextAmount(w) == Head(tx[w].todo).amount

\* The BEFORE INSERT trigger: the row has a new id, so the row of the same
\* pair that the INSERT is about to conflict with is summed too.
CheckAllocation(w) ==
    /\ At(w, "check")
    /\ IF FitsPayment(w, NextPair(w), NextAmount(w), 0)
       THEN Goto(w, "upsert") /\ Reads
       ELSE Refuse(w)

\* INSERT ... ON CONFLICT (payment_id, invoice_id) DO UPDATE SET amount_cents.
UpsertAllocation(w) ==
    LET x == NextPair(w)
        old == Seen(w)[x]
    IN
    /\ At(w, "upsert")
    /\ PairWritable(w, x)
    /\ \/ /\ old = 0
          /\ WritePair(w, x, NextAmount(w), tx[w].since)
          /\ Goto(w, "link")
          /\ Writes
       \/ /\ old > 0
          /\ FitsPayment(w, x, NextAmount(w), old)
          /\ WritePair(w, x, NextAmount(w), StampSeen(w)[x])
          /\ Goto(w, "sum")
          /\ Writes
       \/ /\ old > 0
          /\ ~ FitsPayment(w, x, NextAmount(w), old)
          /\ Refuse(w)

\* The foreign keys of a new row.
LinkAllocation(w) ==
    LET i == Head(tx[w].todo).bill IN
    /\ At(w, "link")
    /\ PaymentLinkable(w, tx[w].p)
    /\ InvoiceLinkable(w, i)
    /\ tx' = [tx EXCEPT ![w].linked = @ \cup {i}, ![w].pc = "sum"]
    /\ Reads

-----------------------------------------------------------------------------
(* sync_invoice_payment_totals, after each write of an allocation: a SUM,  *)
(* then an UPDATE that may have to wait.                                   *)

SumPaid(w) ==
    /\ At(w, "sum")
    /\ tx' = [tx EXCEPT ![w].paid = PaidIn(Seen(w), Head(tx[w].todo).bill), ![w].pc = "sync"]
    /\ Reads

SyncInvoice(w) ==
    LET i == Head(tx[w].todo).bill
        row == InvoiceSeen(w, i)
        paid == tx[w].paid
        more == Len(tx[w].todo) > 1
        next == IF tx[w].kind = "allocate" THEN IF more THEN "check" ELSE "done"
                ELSE IF tx[w].kind = "refund" /\ more THEN "release" ELSE "repay"
    IN
    /\ At(w, "sync")
    /\ InvoiceWritable(w, i)
    /\ WriteInvoice(w, i, [row EXCEPT !.paid = paid, !.status = StatusAfter(i, row, paid)])
    /\ tx' = [tx EXCEPT ![w].todo = Tail(@), ![w].paid = 0, ![w].pc = next]
    /\ Writes

-----------------------------------------------------------------------------
(* POST /billing/payments/<id>/refund.                                     *)

Refund(w, p, a) ==
    /\ payment[p].amount > 0
    /\ Begin(w, "lock", "refund", p, None, a)
    /\ Reads

LockPayment(w) ==
    LET p == tx[w].p IN
    /\ At(w, "lock")
    /\ PaymentLockable(w, p)
    /\ IF tx[w].amount <= Worth(payment[p])
       THEN Goto(w, IF tx[w].kind = "refund" THEN "pick" ELSE "credit") /\ Reads
       ELSE Refuse(w)

\* ORDER BY created_at DESC, and created_at is now(), when the transaction
\* that wrote the row began: rows of one request tie, and come in any order.
NewestFirst(w, p) ==
    LET held == {i \in Bills : Seen(w)[<<p, i>>] > 0}
        age(i) == StampSeen(w)[<<p, i>>]
    IN  {s \in SetToSeqs(held) : \A j, k \in DOMAIN s : j < k => age(s[j]) >= age(s[k])}

PickAllocations_NoLimit(w) ==               \* mutant: forgets min()
    /\ At(w, "pick")
    /\ \E order \in NewestFirst(w, tx[w].p) :
         LET leaves == [k \in DOMAIN order |->
                          [bill |-> order[k], amount |-> Seen(w)[<<tx[w].p, order[k]>>] - tx[w].amount]]
         IN  tx' = [tx EXCEPT ![w].todo = leaves,
                              ![w].pc = IF leaves = <<>> THEN "repay" ELSE "release"]
    /\ Reads
PickAllocations_Keeps(w) ==                 \* mutant: releases nothing
    At(w, "pick") /\ Goto(w, "repay") /\ Reads
PickAllocations(w) ==
    /\ At(w, "pick")
    /\ \E order \in NewestFirst(w, tx[w].p) :
         LET held == [i \in Bills |-> Seen(w)[<<tx[w].p, i>>]]
             takes == Spend(tx[w].amount, order, held)
             leaves == [k \in DOMAIN takes |->
                          [takes[k] EXCEPT !.amount = held[takes[k].bill] - @]]
         IN  tx' = [tx EXCEPT ![w].todo = leaves,
                              ![w].pc = IF leaves = <<>> THEN "repay" ELSE "release"]
    /\ Reads

\* UPDATE or, down to nothing, DELETE of an allocation, by its id.
ReleaseAllocation_NoDelete(w) ==            \* mutant: the sync trigger misses DELETE
    LET x == NextPair(w) IN
    /\ At(w, "release")
    /\ PairWritable(w, x)
    /\ WritePair(w, x, NextAmount(w), IF NextAmount(w) = 0 THEN 0 ELSE StampSeen(w)[x])
    /\ IF NextAmount(w) = 0
       THEN tx' = [tx EXCEPT ![w].todo = Tail(@), ![w].pc = IF Len(tx[w].todo) > 1 THEN "release" ELSE "repay"]
       ELSE Goto(w, "sum")
    /\ Writes
ReleaseAllocation(w) ==
    LET x == NextPair(w) IN
    /\ At(w, "release")
    /\ PairWritable(w, x)
    /\ IF NextAmount(w) = 0 \/ FitsPayment(w, x, NextAmount(w), Seen(w)[x])
       THEN /\ WritePair(w, x, NextAmount(w), IF NextAmount(w) = 0 THEN 0 ELSE StampSeen(w)[x])
            /\ Goto(w, "sum")
            /\ Writes
       ELSE Refuse(w)

\* payments also has CHECK (refunded_cents <= amount_cents).
RepayPayment(w) ==
    LET p == tx[w].p
        row == [PaymentSeen(w, p) EXCEPT !.refunded = @ + tx[w].amount]
    IN
    /\ At(w, "repay")
    /\ PaymentWritable(w, p)
    /\ IF Worth(row) >= 0
       THEN WritePayment(w, p, row) /\ Goto(w, "done") /\ Writes
       ELSE Refuse(w)

-----------------------------------------------------------------------------
(* A refund of purchased credits with its documents (create_credit_refund) *)
(* reverses part of an invoice: locks the invoice, then its payment, then  *)
(* their allocation.                                                       *)

Credit(w, p, i, a) ==
    /\ allocation[<<p, i>>] > 0
    /\ Begin(w, "freeze", "credit", p, i, a)
    /\ Reads

LockInvoice(w) ==
    LET i == tx[w].bill IN
    /\ At(w, "freeze")
    /\ InvoiceLockable(w, i)
    /\ IF invoice[i].status # "void"
       THEN tx' = [tx EXCEPT ![w].left = Total[i] - invoice[i].credited, ![w].pc = "lock"] /\ Reads
       ELSE Refuse(w)

CreditInvoice(w) ==
    LET i == tx[w].bill
        a == tx[w].amount
        held == Seen(w)[<<tx[w].p, i>>]
    IN
    /\ At(w, "credit")
    /\ PairWritable(w, <<tx[w].p, i>>) /\ InvoiceWritable(w, i)
    /\ IF a <= held /\ a <= tx[w].left
       THEN /\ WriteInvoice(w, i, [invoice[i] EXCEPT !.credited = Total[i] - tx[w].left + a])
            /\ tx' = [tx EXCEPT ![w].left = 0, ![w].todo = <<[bill |-> i, amount |-> held - a]>>,
                                ![w].pc = "release"]
            /\ Writes
       ELSE Refuse(w)

-----------------------------------------------------------------------------
(* POST /billing/invoices/<id>/void: reads the invoice without a lock.     *)

ReadForVoid(w, i) ==
    /\ invoice[i].status # "void"
    /\ invoice[i].paid = 0
    /\ Begin(w, "void", "void", None, i, 0)
    /\ Reads

VoidInvoice(w) ==
    LET i == tx[w].bill IN
    /\ At(w, "void")
    /\ InvoiceWritable(w, i)
    /\ WriteInvoice(w, i, [InvoiceSeen(w, i) EXCEPT !.status = "void"])
    /\ Goto(w, "done")
    /\ Writes

-----------------------------------------------------------------------------
(* Waits.                                                                  *)

Blocked(w) ==
    \/ At(w, "insert") /\ ~ PaymentWritable(w, tx[w].p)
    \/ At(w, "upsert") /\ ~ PairWritable(w, NextPair(w))
    \/ At(w, "link") /\ ~ (PaymentLinkable(w, tx[w].p) /\ InvoiceLinkable(w, Head(tx[w].todo).bill))
    \/ At(w, "sync") /\ ~ InvoiceWritable(w, Head(tx[w].todo).bill)
    \/ At(w, "lock") /\ ~ PaymentLockable(w, tx[w].p)
    \/ At(w, "release") /\ ~ PairWritable(w, NextPair(w))
    \/ At(w, "freeze") /\ ~ InvoiceLockable(w, tx[w].bill)
    \/ At(w, "credit") /\ ~ PairWritable(w, <<tx[w].p, tx[w].bill>>)
    \/ At(w, "void") /\ ~ InvoiceWritable(w, tx[w].bill)

\* lock_timeout ends a wait that does not end by itself.
LockTimeout_Never(w) == FALSE               \* mutant: lock_timeout = 0
LockTimeout(w) == Blocked(w) /\ Refuse(w)

-----------------------------------------------------------------------------
Init ==
    /\ payment = [p \in Payments |-> [amount |-> 0, refunded |-> 0]]
    /\ allocation = [x \in Pairs |-> 0]
    /\ stamp = [x \in Pairs |-> 0]
    /\ invoice = [i \in Bills |-> [status |-> "issued", paid |-> 0, credited |-> 0]]
    /\ documents = [refunds |-> [p \in Payments |-> 0], notes |-> [i \in Bills |-> 0]]
    /\ tries = [p \in Payments |-> 0]
    /\ own = [w \in Workers |-> NoWrites]
    /\ tx = [w \in Workers |-> NoTx]

Start(w) ==
    \/ \E p \in Payments, a \in Amounts :
         \/ \E bill \in Bills \cup {None} : RecordPayment(w, p, a, bill, "allocate")
         \/ RecordPayment(w, p, a, None, "keep")
         \/ Refund(w, p, a)
         \/ \E i \in Bills : Credit(w, p, i, a)
    \/ \E i \in Bills : ReadForVoid(w, i)

Step(w) ==
    \/ InsertPayment(w)
    \/ ReadUnallocated(w)
    \/ CheckPreferred(w)
    \/ PlanAllocations(w)
    \/ CheckAllocation(w)
    \/ UpsertAllocation(w)
    \/ LinkAllocation(w)
    \/ SumPaid(w)
    \/ SyncInvoice(w)
    \/ LockPayment(w)
    \/ PickAllocations(w)
    \/ ReleaseAllocation(w)
    \/ RepayPayment(w)
    \/ LockInvoice(w)
    \/ CreditInvoice(w)
    \/ VoidInvoice(w)
    \/ Commit(w)

Next == \E w \in Workers : Start(w) \/ Step(w) \/ Crash(w) \/ LockTimeout(w)

Spec == Init /\ [][Next]_vars

\* A runnable statement runs, and a lock goes to whoever has waited longest.
Fairness == \A w \in Workers : SF_vars(Step(w)) /\ WF_vars(LockTimeout(w))

FairSpec == Spec /\ Fairness

-----------------------------------------------------------------------------
(* Properties of the ledger, whatever runs at the same time.               *)

\* Committed rows and transactions keep their shape: money columns are
\* numbers that their CHECK constraints allow, and a worker without a
\* transaction has written nothing.
TypeOK ==
    /\ payment \in [Payments -> [amount : Nat, refunded : Nat]]
    /\ allocation \in [Pairs -> Nat]
    /\ stamp \in [Pairs -> Nat]
    /\ invoice \in [Bills -> [status : Statuses, paid : Nat, credited : Nat]]
    /\ documents \in [refunds : [Payments -> Nat], notes : [Bills -> Nat]]
    /\ tries \in [Payments -> 0 .. Tries]
    /\ \A x \in Pairs : allocation[x] = 0 <=> stamp[x] = 0
    /\ \A w \in Workers : At(w, "idle") => own[w] = NoWrites /\ tx[w] = NoTx

\* A refund that fits its payment when it is checked fits when it is written,
\* whichever of the two refund paths runs and however they interleave: the
\* CHECK constraint on payments, whose failure neither handler answers, is
\* never what stops it.
RefundsFit ==
    \A w \in Workers :
      At(w, "repay") => tx[w].amount <= Worth(PaymentSeen(w, tx[w].p))

\* Every cent refunded or credited has its document: payments.refunded_cents
\* is the sum of the refunds rows, invoices.amount_credited_cents (which a
\* credit note overwrites with what it read plus its amount) the sum of the
\* credit notes.
DocumentsExplainTheLedger ==
    /\ \A p \in Payments : payment[p].refunded = documents.refunds[p]
    /\ \A i \in Bills : invoice[i].credited = documents.notes[i]

\* A void document stays void: the trigger that derives a status while money
\* is being allocated to it cannot bring it back to life.
VoidIsFinal ==
    [][\A i \in Bills : invoice[i].status = "void" => invoice'[i].status = "void"]_vars

\* One idempotency key is one payment: a retry, at the same time or later and
\* with whatever amount, neither replaces the row nor takes back a refund.
OneKeyOnePayment ==
    [][\A p \in Payments :
         payment[p].amount > 0 =>
           /\ payment'[p].amount = payment[p].amount
           /\ payment'[p].refunded >= payment[p].refunded]_vars

\* Every request ends: transactions that wait for one another in a circle
\* (a refund releases newest first while an allocation goes oldest first) do
\* not wait for ever.
EveryRequestEnds == \A w \in Workers : ~ At(w, "idle") ~> At(w, "idle")

-----------------------------------------------------------------------------
(* Arithmetic that migration 0035 says its triggers keep "no matter which  *)
(* code path, script or console session touched the rows".  It holds when  *)
(* requests come one at a time.                                            *)

\* A payment is never allocated to more than it is worth.
AllocatedWithinPayment ==
    \A p \in Payments : AllocatedIn(allocation, p) <= Worth(payment[p])

\* The paid total of an invoice is the sum of its allocations.
PaidIsSumOfAllocations == \A i \in Bills : invoice[i].paid = PaidIn(allocation, i)

\* An invoice is not paid beyond its total, whatever mix of payments,
\* refunds, retries and credit notes touches it.
NeverOverpaid == \A i \in Bills : invoice[i].paid + invoice[i].credited <= Total[i]

\* Only an invoice that has taken no money is void.  No run checks it: the
\* guard of a void is the same words, and between two transactions it fails.
VoidHasNoMoney ==
    \A i \in Bills : invoice[i].status = "void" => PaidIn(allocation, i) = 0

\* A refund releases the newest invoice first: while it takes from one
\* invoice, no newer one keeps money of the same payment.  No run checks it:
\* the order is by the time a transaction began (README, "Where the code and
\* its words differ").
RefundsReleaseNewestFirst ==
    [][\A p \in Payments : \A j, k \in DOMAIN Invoices :
         /\ j < k
         /\ payment'[p].refunded > payment[p].refunded
         /\ UNCHANGED <<[i \in Bills |-> invoice[i].credited]>>
         /\ allocation'[<<p, Invoices[j]>>] < allocation[<<p, Invoices[j]>>]
         => allocation'[<<p, Invoices[k]>>] = 0]_vars

\* Repeating a request with its idempotency key changes nothing that is paid:
\* only a refund takes money off an invoice.
RetriesTakeNothingBack ==
    [][\A p \in Payments : payment'[p].refunded = payment[p].refunded =>
         \A i \in Bills : allocation'[<<p, i>>] >= allocation[<<p, i>>]]_vars
=============================================================================
