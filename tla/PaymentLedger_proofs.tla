----------------------- MODULE PaymentLedger_proofs -----------------------
(***************************************************************************)
(* Proofs about PaymentLedger, for any workers, payments, invoices,        *)
(* amounts and tries: what the row locks of refunds and credit notes       *)
(* protect, that rows keep their types, and, of requests that come one at  *)
(* a time, the arithmetic of the ledger.                                   *)
(*                                                                         *)
(* IInv: a transaction holds the rows it has written or locked, and no two *)
(* hold the same; so what it read of a row it holds is still so when it    *)
(* commits.  TInv: the shape of every row and of what a request still has  *)
(* to do.  SInv: between two requests payments, allocations and invoices   *)
(* balance, and in the middle of one they are out of balance by what it    *)
(* has still to do.                                                        *)
(***************************************************************************)
EXTENDS PaymentLedger, FiniteSetTheorems, WellFoundedInduction, TLAPS

-----------------------------------------------------------------------------
(* The invariant. *)

PayRow == [amount : Nat, refunded : Nat]
IsPayment(r) == r \in PayRow /\ r.refunded <= r.amount
IsInvoice(r) ==
    /\ r = [status |-> r.status, paid |-> r.paid, credited |-> r.credited]
    /\ r.status \in Statuses /\ r.credited \in Nat
IsTx(t) ==
    t = [pc |-> t.pc, kind |-> t.kind, p |-> t.p, bill |-> t.bill, amount |-> t.amount,
         since |-> t.since, left |-> t.left, todo |-> t.todo, paid |-> t.paid, linked |-> t.linked]
IsOwn(o) ==
    o = [payment |-> o.payment, allocation |-> o.allocation, stamp |-> o.stamp, invoice |-> o.invoice]

Paying == {"allocate", "keep"}
Repaying == {"refund", "credit"}

\* The kinds of transaction that reach a step.
Reaches(kind, pc) ==
    \/ kind = "none" /\ pc = "idle"
    \/ kind \in Paying /\ pc \in {"insert", "done"}
    \/ kind = "allocate" /\ pc \in {"read", "prefer", "plan", "check", "upsert", "link", "sum", "sync"}
    \/ kind \in Repaying /\ pc \in {"lock", "release", "sum", "sync", "repay", "done"}
    \/ kind = "refund" /\ pc = "pick"
    \/ kind = "credit" /\ pc \in {"freeze", "credit"}
    \/ kind = "void" /\ pc \in {"void", "done"}

\* The rows a transaction has written or locked.
LockedPayment(t, p) == t.kind \in Repaying /\ t.p = p /\ t.pc \notin {"freeze", "lock"}
LockedInvoice(t, i) == t.kind = "credit" /\ t.bill = i /\ t.pc # "freeze"
HoldsPayment(t, o, p) == LockedPayment(t, p) \/ p \in DOMAIN o.payment
HoldsInvoice(t, o, i) == LockedInvoice(t, i) \/ i \in DOMAIN o.invoice

Apart(t, o, u, q) ==
    /\ \A p \in Payments : ~(HoldsPayment(t, o, p) /\ HoldsPayment(u, q, p))
    /\ \A i \in Bills : ~(HoldsInvoice(t, o, i) /\ HoldsInvoice(u, q, i))

\* What a written row says, compared with the committed one.
PaymentWritten(t, p, row) ==
    /\ p = t.p /\ IsPayment(row)
    /\ \/ /\ t.kind \in Repaying /\ t.pc = "done"
          /\ row.amount = payment[p].amount /\ row.refunded = payment[p].refunded + t.amount
       \/ t.kind \in Paying /\ payment[p].amount = 0 /\ row.refunded = 0
InvoiceWritten(t, i, row) ==
    /\ t.pc # "idle" /\ IsInvoice(row)
    /\ t.kind = "credit" /\ t.bill = i => t.pc \notin {"freeze", "lock", "credit"}
    /\ invoice[i].status = "void" => row.status = "void"
    /\ row.credited = invoice[i].credited + IF t.kind = "credit" /\ t.bill = i THEN t.amount ELSE 0

\* What a transaction has read of the rows it holds.
PaymentRead(t, o) ==
    t.kind \in Repaying /\ t.pc \notin {"freeze", "lock"} =>
        /\ payment[t.p].amount > 0
        /\ t.pc = "done" => t.p \in DOMAIN o.payment
        /\ t.pc # "done" => t.amount <= Worth(payment[t.p])
InvoiceRead(t, o) ==
    t.kind = "credit" =>
        /\ t.pc \in {"lock", "credit"} => t.left = Total[t.bill] - invoice[t.bill].credited
        /\ t.pc \in {"release", "sum", "sync", "repay", "done"} => t.bill \in DOMAIN o.invoice

TxTyped(t) ==
    /\ IsTx(t) /\ Reaches(t.kind, t.pc) /\ t.amount \in Nat
    /\ t.kind \in Paying \cup Repaying => t.p \in Payments
    /\ t.kind \in Repaying => t.amount > 0
    /\ t.kind \in {"credit", "void"} => t.bill \in Bills

WorkerOK(t, o) ==
    /\ TxTyped(t) /\ IsOwn(o)
    /\ \A p \in Payments : p \in DOMAIN o.payment => PaymentWritten(t, p, o.payment[p])
    /\ \A i \in Bills : i \in DOMAIN o.invoice => InvoiceWritten(t, i, o.invoice[i])
    /\ PaymentRead(t, o) /\ InvoiceRead(t, o)

Committed ==
    /\ Payments \subseteq DOMAIN payment /\ \A p \in Payments : IsPayment(payment[p])
    /\ Bills \subseteq DOMAIN invoice /\ \A i \in Bills : IsInvoice(invoice[i])

IInv ==
    /\ Committed /\ DocumentsExplainTheLedger
    /\ DOMAIN tx = Workers /\ tx = [w \in Workers |-> tx[w]]
    /\ own = [w \in Workers |-> own[w]]
    /\ \A w \in Workers : WorkerOK(tx[w], own[w])
    /\ \A v, w \in Workers : v # w => Apart(tx[v], own[v], tx[w], own[w])

-----------------------------------------------------------------------------
(* A step of one transaction, before its commit. *)

\* A row that a worker comes to hold was held by nobody else.
Takes(w, t, o) ==
    /\ \A p \in Payments : HoldsPayment(t, o, p) =>
          HoldsPayment(tx[w], own[w], p) \/ \A v \in Others(w) : ~HoldsPayment(tx[v], own[v], p)
    /\ \A i \in Bills : HoldsInvoice(t, o, i) =>
          HoldsInvoice(tx[w], own[w], i) \/ \A v \in Others(w) : ~HoldsInvoice(tx[v], own[v], i)

LEMMA LocalStep ==
  ASSUME IInv, NEW w \in Workers, NEW t, NEW o, UNCHANGED rows,
         tx' = [tx EXCEPT ![w] = t], own' = [own EXCEPT ![w] = o],
         WorkerOK(t, o), Takes(w, t, o)
  PROVE  IInv'
<1>1. UNCHANGED <<payment, invoice, documents>>
  BY DEF rows
<1>2. /\ tx'[w] = t /\ own'[w] = o
      /\ \A v \in Workers \ {w} : tx'[v] = tx[v] /\ own'[v] = own[v]
  BY DEF IInv
<1>3. Committed' /\ DocumentsExplainTheLedger'
  BY <1>1 DEF IInv, Committed, DocumentsExplainTheLedger
<1>4. \A v \in Workers : WorkerOK(tx[v], own[v])'
  <2> SUFFICES ASSUME NEW v \in Workers PROVE WorkerOK(tx[v], own[v])'
    OBVIOUS
  <2>1. WorkerOK(tx'[v], own'[v])
    BY <1>2 DEF IInv
  <2> QED
    BY <2>1, <1>1 DEF WorkerOK, PaymentWritten, InvoiceWritten, PaymentRead, InvoiceRead
<1>5. \A v \in Workers \ {w} : Apart(t, o, tx[v], own[v]) /\ Apart(tx[v], own[v], t, o)
  BY DEF IInv, Apart, Takes, Others
<1>6. \A u, v \in Workers : u # v => Apart(tx[u], own[u], tx[v], own[v])'
  <2> SUFFICES ASSUME NEW u \in Workers, NEW v \in Workers, u # v
               PROVE  Apart(tx'[u], own'[u], tx'[v], own'[v])
    BY DEF Apart, HoldsPayment, HoldsInvoice, LockedPayment, LockedInvoice
  <2> QED
    BY <1>2, <1>5 DEF IInv
<1> QED
  BY <1>3, <1>4, <1>6 DEF IInv

LEMMA NothingWritten == DOMAIN NoWrites.payment = {} /\ DOMAIN NoWrites.invoice = {}
BY DEF NoWrites

LEMMA Ended == WorkerOK(NoTx, NoWrites) /\ \A x : ~HoldsPayment(NoTx, NoWrites, x) /\ ~HoldsInvoice(NoTx, NoWrites, x)
<1>1. TxTyped(NoTx)
  BY DEF TxTyped, IsTx, NoTx, Reaches, Paying, Repaying
<1>2. IsOwn(NoWrites)
  BY DEF IsOwn, NoWrites
<1>3. PaymentRead(NoTx, NoWrites) /\ InvoiceRead(NoTx, NoWrites)
  BY DEF PaymentRead, InvoiceRead, NoTx, Repaying
<1>4. \A x : ~LockedPayment(NoTx, x) /\ ~LockedInvoice(NoTx, x)
  BY DEF LockedPayment, LockedInvoice, NoTx, Repaying
<1> QED
  BY <1>1, <1>2, <1>3, <1>4, NothingWritten DEF WorkerOK, HoldsPayment, HoldsInvoice

LEMMA EndKeeps ==
  ASSUME IInv, NEW w \in Workers, Refuse(w)
  PROVE  IInv'
<1>1. tx' = [tx EXCEPT ![w] = NoTx] /\ own' = [own EXCEPT ![w] = NoWrites] /\ UNCHANGED rows
  BY DEF Refuse, End, Writes
<1>2. Takes(w, NoTx, NoWrites)
  BY Ended DEF Takes
<1> QED
  BY <1>1, <1>2, Ended, LocalStep

\* A step that writes no payment and no invoice.
KeepsRows(w) ==
    /\ own' = [own EXCEPT ![w] = own'[w]] /\ IsOwn(own'[w])
    /\ own'[w].payment = own[w].payment /\ own'[w].invoice = own[w].invoice

LEMMA NothingKeepsRows == ASSUME IInv, NEW w \in Workers, UNCHANGED own PROVE KeepsRows(w)
BY DEF IInv, WorkerOK, KeepsRows

LEMMA PairKeepsRows ==
  ASSUME IInv, NEW w \in Workers, NEW x, NEW n, NEW t, WritePair(w, x, n, t)
  PROVE  KeepsRows(w)
<1>1. IsOwn(own[w]) /\ own = [v \in Workers |-> own[v]]
  BY DEF IInv, WorkerOK
<1> QED
  BY <1>1 DEF WritePair, KeepsRows, IsOwn

LEMMA ReadStep ==
  ASSUME IInv, NEW w \in Workers, NEW t, UNCHANGED rows, KeepsRows(w), tx' = [tx EXCEPT ![w] = t],
         TxTyped(t), t.pc # "idle",
         \A p \in Payments : p \in DOMAIN own[w].payment => PaymentWritten(t, p, own[w].payment[p]),
         \A i \in Bills : i \in DOMAIN own[w].invoice => InvoiceWritten(t, i, own[w].invoice[i]),
         PaymentRead(t, own[w]), InvoiceRead(t, own[w]),
         \A p \in Payments : LockedPayment(t, p) => LockedPayment(tx[w], p)
            \/ \A v \in Others(w) : ~HoldsPayment(tx[v], own[v], p),
         \A i \in Bills : LockedInvoice(t, i) => LockedInvoice(tx[w], i)
            \/ \A v \in Others(w) : ~HoldsInvoice(tx[v], own[v], i)
  PROVE  IInv'
<1>1. PICK o : o = own'[w]
  OBVIOUS
<1>2. o.payment = own[w].payment /\ o.invoice = own[w].invoice /\ IsOwn(o) /\ own' = [own EXCEPT ![w] = o]
  BY <1>1 DEF KeepsRows
<1>3. PaymentRead(t, o) /\ InvoiceRead(t, o)
  BY <1>2 DEF PaymentRead, InvoiceRead
<1>4. WorkerOK(t, o)
  BY <1>2, <1>3 DEF WorkerOK
<1>5. Takes(w, t, o)
  BY <1>2 DEF Takes, HoldsPayment, HoldsInvoice
<1> QED
  BY <1>2, <1>4, <1>5, LocalStep

\* A step of a transaction that goes on to pc, with other working storage, and holds what it held.
LEMMA GoesOn ==
  ASSUME IInv, NEW w \in Workers, NEW t, UNCHANGED rows, KeepsRows(w), tx' = [tx EXCEPT ![w] = t],
         IsTx(t), t.kind = tx[w].kind, t.p = tx[w].p, t.bill = tx[w].bill, t.amount = tx[w].amount,
         Reaches(t.kind, t.pc), t.pc # "idle", tx[w].pc \notin {"idle", "freeze", "lock", "credit", "done"},
         t.pc \notin {"freeze", "lock", "credit"}, t.pc = "done" => t.kind \notin Repaying
  PROVE  IInv'
<1>1. WorkerOK(tx[w], own[w])
  BY DEF IInv
<1>2. TxTyped(t)
  BY <1>1 DEF WorkerOK, TxTyped
<1>3. \A p \in Payments : p \in DOMAIN own[w].payment => PaymentWritten(t, p, own[w].payment[p])
  BY <1>1 DEF WorkerOK, PaymentWritten
<1>4. \A i \in Bills : i \in DOMAIN own[w].invoice => InvoiceWritten(t, i, own[w].invoice[i])
  BY <1>1 DEF WorkerOK, InvoiceWritten
<1>5. t.kind \in {"refund", "credit"} => tx[w].pc \in {"sum", "sync", "release", "repay", "pick"}
  BY <1>1 DEF WorkerOK, TxTyped, Reaches, Paying, Repaying
<1>6. t.kind = "credit" => tx[w].pc \in {"sum", "sync", "release", "repay"}
  BY <1>1 DEF WorkerOK, TxTyped, Reaches, Paying, Repaying
<1>7. PaymentRead(t, own[w])
  BY <1>1, <1>5 DEF WorkerOK, PaymentRead, Repaying
<1>8. InvoiceRead(t, own[w])
  BY <1>1, <1>6 DEF WorkerOK, InvoiceRead
<1>9. \A x : LockedPayment(t, x) => LockedPayment(tx[w], x)
  BY <1>5 DEF LockedPayment, Repaying
<1>10. \A x : LockedInvoice(t, x) => LockedInvoice(tx[w], x)
  BY <1>6 DEF LockedInvoice
<1> QED
  BY <1>2, <1>3, <1>4, <1>7, <1>8, <1>9, <1>10, ReadStep

-----------------------------------------------------------------------------
(* Reads, plans and checks. *)

LEMMA Begins ==
  ASSUME IInv, NEW w \in Workers, NEW t, UNCHANGED <<rows, own>>, tx[w].pc = "idle",
         tx' = [tx EXCEPT ![w] = t], TxTyped(t), t.pc \in {"insert", "lock", "freeze", "void"},
         t.pc = "lock" => t.kind = "refund"
  PROVE  IInv'
<1>1. WorkerOK(tx[w], own[w])
  BY DEF IInv
<1>2. \A p \in Payments : p \notin DOMAIN own[w].payment
  BY <1>1 DEF WorkerOK, TxTyped, Reaches, PaymentWritten, Paying, Repaying
<1>3. \A i \in Bills : i \notin DOMAIN own[w].invoice
  BY <1>1 DEF WorkerOK, InvoiceWritten
<1>4. PaymentRead(t, own[w]) /\ \A p \in Payments : ~LockedPayment(t, p)
  BY DEF TxTyped, Reaches, Paying, Repaying, PaymentRead, LockedPayment
<1>5. t.kind = "credit" => t.pc = "freeze"
  BY DEF TxTyped, Reaches, Paying, Repaying
<1>6. InvoiceRead(t, own[w]) /\ \A i \in Bills : ~LockedInvoice(t, i)
  BY <1>5 DEF InvoiceRead, LockedInvoice
<1> QED
  BY <1>2, <1>3, <1>4, <1>6, NothingKeepsRows, ReadStep

LEMMA NoTxIsTx == IsTx(NoTx)
BY DEF IsTx, NoTx

LEMMA RecordPaymentKeeps ==
  ASSUME IInv, NEW w \in Workers, NEW p \in Payments, NEW a \in Amounts,
         NEW bill \in Bills \cup {None}, NEW kind \in Paying, RecordPayment(w, p, a, bill, kind)
  PROVE  IInv'
<1>1. PICK t : t = [NoTx EXCEPT !.pc = "insert", !.kind = kind, !.p = p, !.bill = bill,
                                !.amount = a, !.since = tries[p] + 1]
  OBVIOUS
<1>2. IsTx(t) /\ t.pc = "insert" /\ t.kind = kind /\ t.p = p /\ t.bill = bill /\ t.amount = a
  BY <1>1, NoTxIsTx DEF IsTx
<1>3. TxTyped(t)
  BY <1>2, AmountsArePositive DEF TxTyped, Reaches, Paying, Repaying
<1>4. tx' = [tx EXCEPT ![w] = t] /\ UNCHANGED <<rows, own>> /\ tx[w].pc = "idle"
  BY <1>1 DEF RecordPayment
<1> QED
  BY <1>2, <1>3, <1>4, Begins

LEMMA RefundKeeps ==
  ASSUME IInv, NEW w \in Workers, NEW p \in Payments, NEW a \in Amounts, Refund(w, p, a)
  PROVE  IInv'
<1>1. PICK t : t = [NoTx EXCEPT !.pc = "lock", !.kind = "refund", !.p = p, !.bill = None, !.amount = a]
  OBVIOUS
<1>2. IsTx(t) /\ t.pc = "lock" /\ t.kind = "refund" /\ t.p = p /\ t.bill = None /\ t.amount = a
  BY <1>1, NoTxIsTx DEF IsTx
<1>3. TxTyped(t)
  BY <1>2, AmountsArePositive DEF TxTyped, Reaches, Paying, Repaying
<1>4. tx' = [tx EXCEPT ![w] = t] /\ UNCHANGED <<rows, own>> /\ tx[w].pc = "idle"
  BY <1>1 DEF Refund, Begin, Reads
<1> QED
  BY <1>2, <1>3, <1>4, Begins

LEMMA CreditKeeps ==
  ASSUME IInv, NEW w \in Workers, NEW p \in Payments, NEW i \in Bills, NEW a \in Amounts,
         Credit(w, p, i, a)
  PROVE  IInv'
<1>1. PICK t : t = [NoTx EXCEPT !.pc = "freeze", !.kind = "credit", !.p = p, !.bill = i, !.amount = a]
  OBVIOUS
<1>2. IsTx(t) /\ t.pc = "freeze" /\ t.kind = "credit" /\ t.p = p /\ t.bill = i /\ t.amount = a
  BY <1>1, NoTxIsTx DEF IsTx
<1>3. TxTyped(t)
  BY <1>2, AmountsArePositive DEF TxTyped, Reaches, Paying, Repaying
<1>4. tx' = [tx EXCEPT ![w] = t] /\ UNCHANGED <<rows, own>> /\ tx[w].pc = "idle"
  BY <1>1 DEF Credit, Begin, Reads
<1> QED
  BY <1>2, <1>3, <1>4, Begins

LEMMA ReadForVoidKeeps ==
  ASSUME IInv, NEW w \in Workers, NEW i \in Bills, ReadForVoid(w, i)
  PROVE  IInv'
<1>1. PICK t : t = [NoTx EXCEPT !.pc = "void", !.kind = "void", !.p = None, !.bill = i, !.amount = 0]
  OBVIOUS
<1>2. IsTx(t) /\ t.pc = "void" /\ t.kind = "void" /\ t.p = None /\ t.bill = i /\ t.amount = 0
  BY <1>1, NoTxIsTx DEF IsTx
<1>3. TxTyped(t)
  BY <1>2 DEF TxTyped, Reaches, Paying, Repaying
<1>4. tx' = [tx EXCEPT ![w] = t] /\ UNCHANGED <<rows, own>> /\ tx[w].pc = "idle"
  BY <1>1 DEF ReadForVoid, Begin, Reads
<1> QED
  BY <1>2, <1>3, <1>4, Begins

\* Only the place and the working storage of worker w's transaction change.
Moves(w, c) ==
    /\ tx' = [tx EXCEPT ![w] = tx'[w]] /\ IsTx(tx'[w]) /\ tx'[w].pc = c
    /\ tx'[w].kind = tx[w].kind /\ tx'[w].p = tx[w].p
    /\ tx'[w].bill = tx[w].bill /\ tx'[w].amount = tx[w].amount

LEMMA MovesOn ==
  ASSUME IInv, NEW w \in Workers, NEW c,
         \/ tx' = [tx EXCEPT ![w].pc = c]
         \/ \E x : tx' = [tx EXCEPT ![w].left = x, ![w].pc = c]
         \/ \E x : tx' = [tx EXCEPT ![w].paid = x, ![w].pc = c]
         \/ \E x : tx' = [tx EXCEPT ![w].todo = x, ![w].pc = c]
         \/ \E x : tx' = [tx EXCEPT ![w].linked = x, ![w].pc = c]
         \/ \E x, y : tx' = [tx EXCEPT ![w].left = x, ![w].todo = y, ![w].pc = c]
         \/ \E x, y : tx' = [tx EXCEPT ![w].todo = x, ![w].paid = y, ![w].pc = c]
  PROVE  Moves(w, c)
<1>1. IsTx(tx[w]) /\ tx = [v \in Workers |-> tx[v]]
  BY DEF IInv, WorkerOK, TxTyped
<1>2. CASE tx' = [tx EXCEPT ![w].pc = c]
  BY <1>1, <1>2 DEF Moves, IsTx
<1>3. ASSUME NEW x, tx' = [tx EXCEPT ![w].left = x, ![w].pc = c] PROVE Moves(w, c)
  BY <1>1, <1>3 DEF Moves, IsTx
<1>4. ASSUME NEW x, tx' = [tx EXCEPT ![w].paid = x, ![w].pc = c] PROVE Moves(w, c)
  BY <1>1, <1>4 DEF Moves, IsTx
<1>5. ASSUME NEW x, tx' = [tx EXCEPT ![w].todo = x, ![w].pc = c] PROVE Moves(w, c)
  BY <1>1, <1>5 DEF Moves, IsTx
<1>6. ASSUME NEW x, tx' = [tx EXCEPT ![w].linked = x, ![w].pc = c] PROVE Moves(w, c)
  BY <1>1, <1>6 DEF Moves, IsTx
<1>7. ASSUME NEW x, NEW y, tx' = [tx EXCEPT ![w].left = x, ![w].todo = y, ![w].pc = c] PROVE Moves(w, c)
  BY <1>1, <1>7 DEF Moves, IsTx
<1>8. ASSUME NEW x, NEW y, tx' = [tx EXCEPT ![w].todo = x, ![w].paid = y, ![w].pc = c] PROVE Moves(w, c)
  BY <1>1, <1>8 DEF Moves, IsTx
<1> QED
  BY <1>2, <1>3, <1>4, <1>5, <1>6, <1>7, <1>8

\* Steps that only move on, with other working storage.
LEMMA PlanKeeps ==
  ASSUME IInv, NEW w \in Workers, ~Refuse(w),
         \/ ReadUnallocated(w) \/ CheckPreferred(w) \/ PlanAllocations(w) \/ CheckAllocation(w)
         \/ LinkAllocation(w) \/ SumPaid(w) \/ PickAllocations(w)
  PROVE  IInv'
<1> DEFINE Onward(c) ==
             \/ tx[w].pc = "read" /\ c \in {"done", "plan", "prefer"}
             \/ tx[w].pc = "prefer" /\ c = "plan"
             \/ tx[w].pc = "plan" /\ c \in {"done", "check"}
             \/ tx[w].pc = "check" /\ c = "upsert"
             \/ tx[w].pc = "link" /\ c = "sum"
             \/ tx[w].pc = "sum" /\ c = "sync"
             \/ tx[w].pc = "pick" /\ c \in {"repay", "release"}
<1>1. UNCHANGED <<rows, own>> /\ \E c : Moves(w, c) /\ Onward(c)
  <2>1. CASE ReadUnallocated(w)
    <3>1. PICK left, c : /\ tx' = [tx EXCEPT ![w].left = left, ![w].pc = c]
                         /\ c \in {"done", "plan", "prefer"}
      BY <2>1 DEF ReadUnallocated
    <3>2. Moves(w, c)
      BY <3>1, MovesOn
    <3> QED
      BY <2>1, <3>1, <3>2 DEF ReadUnallocated, Reads, At
  <2>2. CASE CheckPreferred(w)
    <3>1. Moves(w, "plan")
      BY <2>2, MovesOn DEF CheckPreferred, Goto
    <3> QED
      BY <2>2, <3>1 DEF CheckPreferred, Reads, At
  <2>3. CASE PlanAllocations(w)
    <3>1. PICK todo, c : /\ tx' = [tx EXCEPT ![w].left = 0, ![w].todo = todo, ![w].pc = c]
                         /\ c \in {"done", "check"}
      BY <2>3 DEF PlanAllocations
    <3>2. Moves(w, c)
      BY <3>1, MovesOn
    <3> QED
      BY <2>3, <3>1, <3>2 DEF PlanAllocations, Reads, At
  <2>4. CASE CheckAllocation(w)
    <3>1. Moves(w, "upsert")
      BY <2>4, MovesOn DEF CheckAllocation, Goto
    <3> QED
      BY <2>4, <3>1 DEF CheckAllocation, Reads, At
  <2>5. CASE LinkAllocation(w)
    <3>1. PICK linked : tx' = [tx EXCEPT ![w].linked = linked, ![w].pc = "sum"]
      BY <2>5 DEF LinkAllocation
    <3>2. Moves(w, "sum")
      BY <3>1, MovesOn
    <3> QED
      BY <2>5, <3>2 DEF LinkAllocation, Reads, At
  <2>6. CASE SumPaid(w)
    <3>1. Moves(w, "sync")
      BY <2>6, MovesOn DEF SumPaid
    <3> QED
      BY <2>6, <3>1 DEF SumPaid, Reads, At
  <2>7. CASE PickAllocations(w)
    <3>1. PICK todo, c : tx' = [tx EXCEPT ![w].todo = todo, ![w].pc = c] /\ c \in {"repay", "release"}
      BY <2>7 DEF PickAllocations
    <3>2. Moves(w, c)
      BY <3>1, MovesOn
    <3> QED
      BY <2>7, <3>1, <3>2 DEF PickAllocations, Reads, At
  <2> QED
    BY <2>1, <2>2, <2>3, <2>4, <2>5, <2>6, <2>7
<1>2. PICK c : Moves(w, c) /\ Onward(c)
  BY <1>1
<1>3. Reaches(tx[w].kind, tx[w].pc)
  BY DEF IInv, WorkerOK, TxTyped
<1>4. Reaches(tx[w].kind, c) /\ (c = "done" => tx[w].kind \notin Repaying)
  BY <1>2, <1>3 DEF Reaches, Paying, Repaying
<1>5. PICK t : t = tx'[w]
  OBVIOUS
<1> QED
  BY <1>1, <1>2, <1>4, <1>5, NothingKeepsRows, GoesOn DEF Moves

-----------------------------------------------------------------------------
(* Locks. *)

LEMMA LockPaymentKeeps ==
  ASSUME IInv, NEW w \in Workers, LockPayment(w), ~Refuse(w)
  PROVE  IInv'
<1>1. WorkerOK(tx[w], own[w]) /\ tx[w].pc = "lock" /\ tx[w].kind \in Repaying
  BY DEF LockPayment, At, IInv, WorkerOK, TxTyped, Reaches, Paying
<1>2. tx[w].p \in Payments /\ tx[w].bill = tx[w].bill /\ tx[w].amount \in Nat /\ tx[w].amount > 0
  BY <1>1 DEF WorkerOK, TxTyped
<1>3. PICK c : Goto(w, c) /\ c = IF tx[w].kind = "refund" THEN "pick" ELSE "credit"
  BY DEF LockPayment
<1>4. Moves(w, c) /\ UNCHANGED <<rows, own>>
  BY <1>3, MovesOn DEF Goto, LockPayment, Reads
<1>5. PICK t : t = tx'[w]
  OBVIOUS
<1>6. /\ tx' = [tx EXCEPT ![w] = t] /\ IsTx(t) /\ t.pc = c /\ t.left = tx[w].left
      /\ t.kind = tx[w].kind /\ t.p = tx[w].p /\ t.bill = tx[w].bill /\ t.amount = tx[w].amount
  <2>1. IsTx(tx[w])
    BY <1>1 DEF WorkerOK, TxTyped
  <2>2. tx'[w].left = tx[w].left
    BY <1>3, <2>1 DEF Goto, IInv, IsTx
  <2> QED
    BY <1>4, <1>5, <2>2 DEF Moves
<1>7. TxTyped(t)
  BY <1>1, <1>3, <1>6 DEF WorkerOK, TxTyped, Reaches, Repaying
<1>8. \A p \in Payments : p \notin DOMAIN own[w].payment
  BY <1>1 DEF WorkerOK, PaymentWritten, Paying, Repaying
<1>9. \A i \in Bills : i \in DOMAIN own[w].invoice => InvoiceWritten(t, i, own[w].invoice[i])
  BY <1>1, <1>3, <1>6 DEF WorkerOK, InvoiceWritten
<1>10. PaymentRead(t, own[w])
  <2>1. tx[w].amount <= Worth(payment[tx[w].p])
    BY DEF LockPayment
  <2>2. IsPayment(payment[tx[w].p])
    BY <1>2 DEF IInv, Committed
  <2> QED
    BY <1>2, <1>3, <1>6, <2>1, <2>2 DEF PaymentRead, IsPayment, PayRow, Worth
<1>11. InvoiceRead(t, own[w])
  BY <1>1, <1>3, <1>6 DEF WorkerOK, InvoiceRead
<1>12. \A v \in Others(w) : ~HoldsPayment(tx[v], own[v], tx[w].p)
  BY DEF LockPayment, PaymentLockable, PaymentLinkable, PaymentWritable, LocksPayment,
         HoldsPayment, LockedPayment, Repaying
<1>13. \A p \in Payments : LockedPayment(t, p) => p = tx[w].p
  BY <1>6 DEF LockedPayment
<1>14. \A i \in Bills : LockedInvoice(t, i) => LockedInvoice(tx[w], i)
  BY <1>1, <1>6 DEF LockedInvoice
<1> QED
  BY <1>3, <1>4, <1>6, <1>7, <1>8, <1>9, <1>10, <1>11, <1>12, <1>13, <1>14, NothingKeepsRows, ReadStep

LEMMA LockInvoiceKeeps ==
  ASSUME IInv, NEW w \in Workers, LockInvoice(w), ~Refuse(w)
  PROVE  IInv'
<1>1. WorkerOK(tx[w], own[w]) /\ tx[w].pc = "freeze" /\ tx[w].kind = "credit"
  BY DEF LockInvoice, At, IInv, WorkerOK, TxTyped, Reaches, Paying, Repaying
<1>2. tx[w].p \in Payments /\ tx[w].bill \in Bills
  BY <1>1 DEF WorkerOK, TxTyped, Repaying
<1>3. PICK left : left = Total[tx[w].bill] - invoice[tx[w].bill].credited
  OBVIOUS
<1>4. tx' = [tx EXCEPT ![w].left = left, ![w].pc = "lock"] /\ UNCHANGED <<rows, own>>
  BY <1>3 DEF LockInvoice, Reads
<1>5. Moves(w, "lock")
  BY <1>4, MovesOn
<1>6. PICK t : t = tx'[w]
  OBVIOUS
<1>7. t.left = left
  <2>1. IsTx(tx[w])
    BY <1>1 DEF WorkerOK, TxTyped
  <2> QED
    BY <1>4, <1>6, <2>1 DEF IInv, IsTx
<1>8. /\ tx' = [tx EXCEPT ![w] = t] /\ IsTx(t) /\ t.pc = "lock"
      /\ t.kind = tx[w].kind /\ t.p = tx[w].p /\ t.bill = tx[w].bill /\ t.amount = tx[w].amount
  BY <1>5, <1>6 DEF Moves
<1>9. TxTyped(t)
  BY <1>1, <1>8 DEF WorkerOK, TxTyped, Reaches, Repaying
<1>10. \A p \in Payments : p \notin DOMAIN own[w].payment
  BY <1>1 DEF WorkerOK, PaymentWritten, Paying, Repaying
<1>11. \A i \in Bills : i \in DOMAIN own[w].invoice => InvoiceWritten(t, i, own[w].invoice[i])
  BY <1>1, <1>8 DEF WorkerOK, InvoiceWritten
<1>12. PaymentRead(t, own[w]) /\ InvoiceRead(t, own[w])
  BY <1>3, <1>7, <1>8 DEF PaymentRead, InvoiceRead
<1>13. \A v \in Others(w) : ~HoldsInvoice(tx[v], own[v], tx[w].bill)
  BY DEF LockInvoice, InvoiceLockable, InvoiceWritable, InvoiceLinkable, LocksInvoice,
         HoldsInvoice, LockedInvoice
<1>14. \A x : ~LockedPayment(t, x) /\ (LockedInvoice(t, x) => x = tx[w].bill)
  BY <1>8 DEF LockedPayment, LockedInvoice
<1>15. KeepsRows(w) /\ UNCHANGED rows /\ t.pc # "idle"
  BY <1>4, <1>8, NothingKeepsRows
<1> QED
  BY <1>8, <1>9, <1>10, <1>11, <1>12, <1>13, <1>14, <1>15, ReadStep

-----------------------------------------------------------------------------
(* Writes. *)

LEMMA OverRow ==
  ASSUME NEW f, NEW g, NEW x \in DOMAIN f \cup DOMAIN g
  PROVE  Over(f, g)[x] = IF x \in DOMAIN f THEN f[x] ELSE g[x]
BY DEF Over

\* INSERT ... ON CONFLICT DO NOTHING: what refunds and credits have locked exists.
LEMMA InsertPaymentKeeps ==
  ASSUME IInv, NEW w \in Workers, InsertPayment(w)
  PROVE  IInv'
<1> DEFINE p == tx[w].p
<1>1. WorkerOK(tx[w], own[w]) /\ tx[w].pc = "insert" /\ tx[w].kind \in Paying /\ IsOwn(own[w])
  BY DEF InsertPayment, At, IInv, WorkerOK, TxTyped, Reaches
<1>2. PICK c : Goto(w, c) /\ c = IF tx[w].kind = "allocate" THEN "read" ELSE "done"
  BY DEF InsertPayment
<1>3. Moves(w, c) /\ UNCHANGED rows
  BY <1>2, MovesOn DEF Goto, InsertPayment, Writes
<1>4. PICK t : t = tx'[w]
  OBVIOUS
<1>5. /\ tx' = [tx EXCEPT ![w] = t] /\ IsTx(t) /\ t.pc = c
      /\ t.kind = tx[w].kind /\ t.p = tx[w].p /\ t.bill = tx[w].bill /\ t.amount = tx[w].amount
  BY <1>3, <1>4 DEF Moves
<1>6. Reaches(t.kind, t.pc) /\ t.kind \notin Repaying /\ t.pc \in {"read", "done"}
  BY <1>1, <1>2, <1>5 DEF Reaches, Paying, Repaying
<1>7. CASE payment[p].amount > 0
  <2>1. KeepsRows(w)
    BY <1>7, NothingKeepsRows DEF InsertPayment
  <2> QED
    BY <1>1, <1>3, <1>5, <1>6, <2>1, GoesOn
<1>8. CASE ~(payment[p].amount > 0)
  <2>1. p \in Payments /\ tx[w].amount \in Nat
    BY <1>1 DEF WorkerOK, TxTyped
  <2>2. IsPayment(payment[p])
    BY <2>1 DEF IInv, Committed
  <2>3. PICK row : row = [amount |-> tx[w].amount, refunded |-> 0]
    OBVIOUS
  <2>4. WritePayment(w, p, row) /\ PaymentWritable(w, p)
    BY <1>8, <2>3 DEF InsertPayment
  <2>5. PICK o : o = own'[w]
    OBVIOUS
  <2>6. /\ own' = [own EXCEPT ![w] = o] /\ IsOwn(o)
        /\ o.invoice = own[w].invoice
        /\ DOMAIN o.payment = DOMAIN own[w].payment \cup {p} /\ o.payment[p] = row
    BY <1>1, <2>4, <2>5 DEF WritePayment, IInv, IsOwn, Put
  <2>7. PaymentWritten(t, p, row)
    BY <1>1, <1>5, <1>8, <2>1, <2>2, <2>3 DEF PaymentWritten, IsPayment, PayRow
  <2>8. \A q \in Payments : q \in DOMAIN o.payment => PaymentWritten(t, q, o.payment[q])
    <3>1. \A q \in Payments : q \in DOMAIN own[w].payment => q = p
      BY <1>1 DEF WorkerOK, PaymentWritten
    <3> QED
      BY <2>6, <2>7, <3>1
  <2>9. \A i \in Bills : i \in DOMAIN o.invoice => InvoiceWritten(t, i, o.invoice[i])
    BY <1>1, <1>5, <1>6, <2>6 DEF WorkerOK, InvoiceWritten, Repaying
  <2>10. TxTyped(t)
    BY <1>1, <1>5, <1>6 DEF WorkerOK, TxTyped
  <2>11. PaymentRead(t, o) /\ InvoiceRead(t, o) /\ \A x : ~LockedPayment(t, x) /\ ~LockedInvoice(t, x)
    BY <1>6 DEF PaymentRead, InvoiceRead, LockedPayment, LockedInvoice, Repaying
  <2>12. WorkerOK(t, o)
    BY <2>6, <2>8, <2>9, <2>10, <2>11 DEF WorkerOK
  <2>13. \A v \in Others(w) : ~HoldsPayment(tx[v], own[v], p)
    <3> SUFFICES ASSUME NEW v \in Others(w) PROVE ~HoldsPayment(tx[v], own[v], p)
      OBVIOUS
    <3>1. PaymentRead(tx[v], own[v])
      BY DEF IInv, WorkerOK, Others
    <3> QED
      BY <1>8, <2>4, <3>1 DEF PaymentRead, HoldsPayment, LockedPayment, PaymentWritable
  <2>14. Takes(w, t, o)
    BY <2>6, <2>11, <2>13 DEF Takes, HoldsPayment, HoldsInvoice
  <2> QED
    BY <1>3, <1>5, <2>6, <2>12, <2>14, LocalStep
<1> QED
  BY <1>7, <1>8

LEMMA UpsertAllocationKeeps ==
  ASSUME IInv, NEW w \in Workers, UpsertAllocation(w), ~Refuse(w)
  PROVE  IInv'
<1>1. Reaches(tx[w].kind, tx[w].pc) /\ tx[w].pc = "upsert"
  BY DEF UpsertAllocation, At, IInv, WorkerOK, TxTyped
<1>2. PICK c : Goto(w, c) /\ c \in {"link", "sum"}
  BY DEF UpsertAllocation
<1>3. Moves(w, c) /\ UNCHANGED rows
  BY <1>2, MovesOn DEF Goto, UpsertAllocation, Writes
<1>4. \E x, n, s : WritePair(w, x, n, s)
  BY DEF UpsertAllocation
<1>5. PICK t : t = tx'[w]
  OBVIOUS
<1>6. Reaches(tx[w].kind, c)
  BY <1>1, <1>2 DEF Reaches, Paying, Repaying
<1> QED
  BY <1>1, <1>2, <1>3, <1>4, <1>5, <1>6, PairKeepsRows, GoesOn DEF Moves

LEMMA ReleaseAllocationKeeps ==
  ASSUME IInv, NEW w \in Workers, ReleaseAllocation(w), ~Refuse(w)
  PROVE  IInv'
<1>1. Reaches(tx[w].kind, tx[w].pc) /\ tx[w].pc = "release"
  BY DEF ReleaseAllocation, At, IInv, WorkerOK, TxTyped
<1>2. Moves(w, "sum") /\ UNCHANGED rows
  BY MovesOn DEF Goto, ReleaseAllocation, Writes
<1>3. \E x, n, s : WritePair(w, x, n, s)
  BY DEF ReleaseAllocation
<1>4. PICK t : t = tx'[w]
  OBVIOUS
<1>5. Reaches(tx[w].kind, "sum")
  BY <1>1 DEF Reaches, Paying, Repaying
<1> QED
  BY <1>1, <1>2, <1>3, <1>4, <1>5, PairKeepsRows, GoesOn DEF Moves

LEMMA RepayPaymentKeeps ==
  ASSUME IInv, NEW w \in Workers, RepayPayment(w), ~Refuse(w)
  PROVE  IInv'
<1> DEFINE p == tx[w].p
<1>1. /\ WorkerOK(tx[w], own[w]) /\ tx[w].pc = "repay" /\ tx[w].kind \in Repaying
      /\ IsOwn(own[w]) /\ IsTx(tx[w])
  BY DEF RepayPayment, At, IInv, WorkerOK, TxTyped, Reaches, Paying
<1>2. p \in Payments /\ tx[w].amount \in Nat
  BY <1>1 DEF WorkerOK, TxTyped
<1>3. Moves(w, "done") /\ UNCHANGED rows
  BY MovesOn DEF Goto, RepayPayment, Writes
<1>4. PICK t : t = tx'[w]
  OBVIOUS
<1>5. /\ tx' = [tx EXCEPT ![w] = t] /\ IsTx(t) /\ t.pc = "done"
      /\ t.kind = tx[w].kind /\ t.p = tx[w].p /\ t.bill = tx[w].bill /\ t.amount = tx[w].amount
  BY <1>3, <1>4 DEF Moves
<1>6. \A q \in Payments : q \notin DOMAIN own[w].payment
  BY <1>1 DEF WorkerOK, PaymentWritten, Paying, Repaying
<1>7. PaymentSeen(w, p) = payment[p] /\ IsPayment(payment[p])
  BY <1>2, <1>6, OverRow DEF PaymentSeen, IInv, Committed
<1>8. PICK row : row = [PaymentSeen(w, p) EXCEPT !.refunded = @ + tx[w].amount]
  OBVIOUS
<1>9. WritePayment(w, p, row) /\ Worth(row) >= 0
  BY <1>8 DEF RepayPayment
<1>10. IsPayment(row) /\ row.amount = payment[p].amount /\ row.refunded = payment[p].refunded + tx[w].amount
  BY <1>2, <1>7, <1>8, <1>9 DEF IsPayment, PayRow, Worth
<1>11. PICK o : o = own'[w]
  OBVIOUS
<1>12. /\ own' = [own EXCEPT ![w] = o] /\ IsOwn(o)
       /\ o.invoice = own[w].invoice
       /\ DOMAIN o.payment = DOMAIN own[w].payment \cup {p} /\ o.payment[p] = row
  BY <1>1, <1>9, <1>11 DEF WritePayment, IInv, IsOwn, Put
<1>13. \A q \in Payments : q \in DOMAIN o.payment => PaymentWritten(t, q, o.payment[q])
  BY <1>1, <1>5, <1>6, <1>10, <1>12 DEF PaymentWritten
<1>14. \A i \in Bills : i \in DOMAIN o.invoice => InvoiceWritten(t, i, o.invoice[i])
  BY <1>1, <1>5, <1>12 DEF WorkerOK, InvoiceWritten
<1>15. TxTyped(t)
  BY <1>1, <1>5 DEF WorkerOK, TxTyped, Reaches, Repaying, Paying
<1>16. PaymentRead(t, o) /\ InvoiceRead(t, o)
  BY <1>1, <1>5, <1>12 DEF WorkerOK, PaymentRead, InvoiceRead
<1>17. \A x : /\ LockedPayment(t, x) => LockedPayment(tx[w], x)
              /\ LockedInvoice(t, x) => LockedInvoice(tx[w], x)
  BY <1>1, <1>5 DEF LockedPayment, LockedInvoice
<1>18. LockedPayment(tx[w], p)
  BY <1>1 DEF LockedPayment
<1>19. WorkerOK(t, o)
  BY <1>12, <1>13, <1>14, <1>15, <1>16 DEF WorkerOK
<1>20. Takes(w, t, o)
  BY <1>12, <1>17, <1>18 DEF Takes, HoldsPayment, HoldsInvoice
<1> QED
  BY <1>3, <1>5, <1>12, <1>19, <1>20, LocalStep

\* A step that writes one invoice.
LEMMA InvoiceWriteStep ==
  ASSUME IInv, NEW w \in Workers, NEW c, NEW i, NEW row, UNCHANGED rows,
         Moves(w, c), Reaches(tx[w].kind, c),
         WriteInvoice(w, i, row), InvoiceWritable(w, i),
         tx[w].pc \notin {"idle", "freeze", "lock", "done"}, c \notin {"idle", "freeze", "lock", "credit"},
         c = "done" => tx[w].kind \notin Repaying,
         i \in Bills => InvoiceWritten(tx'[w], i, row),
         tx[w].pc = "credit" => i = tx[w].bill
  PROVE  IInv'
<1>1. WorkerOK(tx[w], own[w]) /\ IsOwn(own[w])
  BY DEF IInv, WorkerOK
<1>2. PICK t : t = tx'[w]
  OBVIOUS
<1>3. /\ tx' = [tx EXCEPT ![w] = t] /\ IsTx(t) /\ t.pc = c
      /\ t.kind = tx[w].kind /\ t.p = tx[w].p /\ t.bill = tx[w].bill /\ t.amount = tx[w].amount
  BY <1>2 DEF Moves
<1>4. PICK o : o = own'[w]
  OBVIOUS
<1>5. /\ own' = [own EXCEPT ![w] = o] /\ IsOwn(o) /\ o.payment = own[w].payment
      /\ DOMAIN o.invoice = DOMAIN own[w].invoice \cup {i} /\ o.invoice[i] = row
      /\ \A k \in DOMAIN own[w].invoice : k # i => o.invoice[k] = own[w].invoice[k]
  BY <1>1, <1>4 DEF WriteInvoice, IInv, IsOwn, Put
<1>6. TxTyped(t)
  BY <1>1, <1>3 DEF WorkerOK, TxTyped
<1>7. \A p \in Payments : p \in DOMAIN o.payment => PaymentWritten(t, p, o.payment[p])
  BY <1>1, <1>3, <1>5 DEF WorkerOK, PaymentWritten
<1>8. \A k \in Bills : k \in DOMAIN o.invoice => InvoiceWritten(t, k, o.invoice[k])
  <2> SUFFICES ASSUME NEW k \in Bills, k \in DOMAIN own[w].invoice, k # i
               PROVE  InvoiceWritten(t, k, own[w].invoice[k])
    BY <1>2, <1>5
  <2> QED
    BY <1>1, <1>3 DEF WorkerOK, InvoiceWritten
<1>9. PaymentRead(t, o)
  BY <1>1, <1>3, <1>5 DEF WorkerOK, PaymentRead
<1>10. InvoiceRead(t, o)
  <2>1. tx[w].kind = "credit" => tx[w].pc \in {"credit", "release", "sum", "sync", "repay"}
    BY <1>1 DEF WorkerOK, TxTyped, Reaches, Paying, Repaying
  <2> QED
    BY <1>1, <1>3, <1>5, <2>1 DEF WorkerOK, InvoiceRead
<1>11. WorkerOK(t, o)
  BY <1>5, <1>6, <1>7, <1>8, <1>9, <1>10 DEF WorkerOK
<1>12. \A x : /\ LockedPayment(t, x) => LockedPayment(tx[w], x)
              /\ LockedInvoice(t, x) => LockedInvoice(tx[w], x)
  BY <1>3 DEF LockedPayment, LockedInvoice
<1>13. \A v \in Others(w) : ~HoldsInvoice(tx[v], own[v], i)
  BY DEF InvoiceWritable, InvoiceLinkable, LocksInvoice, HoldsInvoice, LockedInvoice
<1>14. Takes(w, t, o)
  BY <1>5, <1>12, <1>13 DEF Takes, HoldsPayment, HoldsInvoice
<1> QED
  BY <1>3, <1>5, <1>11, <1>14, LocalStep

\* What a worker sees of an invoice that it does not hold, or has written.
LEMMA SeenInvoice ==
  ASSUME IInv, NEW w \in Workers, NEW i \in Bills
  PROVE  /\ IsInvoice(InvoiceSeen(w, i))
         /\ i \in DOMAIN own[w].invoice => InvoiceWritten(tx[w], i, InvoiceSeen(w, i))
         /\ i \notin DOMAIN own[w].invoice => InvoiceSeen(w, i) = invoice[i]
<1>1. i \in DOMAIN invoice /\ IsInvoice(invoice[i])
  BY DEF IInv, Committed
<1>2. InvoiceSeen(w, i) = IF i \in DOMAIN own[w].invoice THEN own[w].invoice[i] ELSE invoice[i]
  BY <1>1, OverRow DEF InvoiceSeen
<1> QED
  BY <1>1, <1>2 DEF IInv, WorkerOK, InvoiceWritten

\* The trigger keeps void and what is credited.
LEMMA SyncInvoiceKeeps ==
  ASSUME IInv, NEW w \in Workers, SyncInvoice(w)
  PROVE  IInv'
<1> DEFINE i == Head(tx[w].todo).bill
           seen == InvoiceSeen(w, i)
<1>1. WorkerOK(tx[w], own[w]) /\ tx[w].pc = "sync" /\ Reaches(tx[w].kind, "sync")
  BY DEF SyncInvoice, At, IInv, WorkerOK, TxTyped
<1>2. PICK todo, c :
        /\ tx' = [tx EXCEPT ![w].todo = todo, ![w].paid = 0, ![w].pc = c]
        /\ c \in (IF tx[w].kind = "allocate" THEN {"check", "done"} ELSE {"release", "repay"})
  BY DEF SyncInvoice
<1>3. PICK row : row = [seen EXCEPT !.paid = tx[w].paid, !.status = StatusAfter(i, seen, tx[w].paid)]
  OBVIOUS
<1>4. WriteInvoice(w, i, row) /\ InvoiceWritable(w, i) /\ UNCHANGED rows
  BY <1>3 DEF SyncInvoice, Writes
<1>5. Moves(w, c)
  BY <1>2, MovesOn
<1>6. Reaches(tx[w].kind, c) /\ (c = "done" => tx[w].kind \notin Repaying)
  BY <1>1, <1>2 DEF Reaches, Paying, Repaying
<1>7. ASSUME i \in Bills PROVE InvoiceWritten(tx'[w], i, row)
  <2>1. IsInvoice(seen)
    BY <1>7, SeenInvoice
  <2>2. row.credited = seen.credited /\ row.status = StatusAfter(i, seen, tx[w].paid)
    BY <1>3, <2>1 DEF IsInvoice
  <2>3. IsInvoice(row) /\ (seen.status = "void" => row.status = "void")
    BY <1>3, <2>1, <2>2 DEF IsInvoice, StatusAfter, Statuses, Open
  <2>4. /\ invoice[i].status = "void" => seen.status = "void"
        /\ seen.credited = invoice[i].credited
             + IF tx[w].kind = "credit" /\ tx[w].bill = i THEN tx[w].amount ELSE 0
    <3>1. CASE i \in DOMAIN own[w].invoice
      BY <1>7, <3>1, SeenInvoice DEF InvoiceWritten
    <3>2. CASE i \notin DOMAIN own[w].invoice
      <4>1. seen = invoice[i]
        BY <1>7, <3>2, SeenInvoice
      <4>2. ~(tx[w].kind = "credit" /\ tx[w].bill = i)
        BY <1>1, <3>2 DEF WorkerOK, InvoiceRead
      <4>3. invoice[i].credited \in Nat
        BY <2>1, <4>1 DEF IsInvoice
      <4> HIDE DEF i, seen
      <4> QED
        BY <4>1, <4>2, <4>3
    <3> QED
      BY <3>1, <3>2
  <2> HIDE DEF i, seen
  <2> QED
    BY <1>2, <1>5, <2>2, <2>3, <2>4 DEF InvoiceWritten, Moves
<1> HIDE DEF i
<1> QED
  BY <1>1, <1>2, <1>4, <1>5, <1>6, <1>7, InvoiceWriteStep

\* The credit note adds to what it read of the invoice, which it has locked since.
LEMMA CreditInvoiceKeeps ==
  ASSUME IInv, NEW w \in Workers, CreditInvoice(w), ~Refuse(w)
  PROVE  IInv'
<1> DEFINE i == tx[w].bill
<1>1. WorkerOK(tx[w], own[w]) /\ tx[w].pc = "credit" /\ tx[w].kind = "credit"
  BY DEF CreditInvoice, At, IInv, WorkerOK, TxTyped, Reaches, Paying, Repaying
<1>2. i \in Bills /\ tx[w].amount \in Nat
  BY <1>1 DEF WorkerOK, TxTyped
<1>3. tx[w].left = Total[i] - invoice[i].credited
  BY <1>1 DEF WorkerOK, InvoiceRead
<1>4. IsInvoice(invoice[i]) /\ Total[i] \in Nat
  BY <1>2, TotalsArePositive DEF IInv, Committed
<1>5. PICK row : row = [invoice[i] EXCEPT !.credited = Total[i] - tx[w].left + tx[w].amount]
  OBVIOUS
<1>6. PICK todo : tx' = [tx EXCEPT ![w].left = 0, ![w].todo = todo, ![w].pc = "release"]
  BY DEF CreditInvoice
<1>7. WriteInvoice(w, i, row) /\ InvoiceWritable(w, i) /\ UNCHANGED rows
  BY <1>5 DEF CreditInvoice, Writes
<1>8. Moves(w, "release") /\ Reaches(tx[w].kind, "release")
  BY <1>1, <1>6, MovesOn DEF Reaches, Repaying
<1>9. row.credited = invoice[i].credited + tx[w].amount /\ row.status = invoice[i].status /\ IsInvoice(row)
  BY <1>2, <1>3, <1>4, <1>5 DEF IsInvoice
<1>10. InvoiceWritten(tx'[w], i, row)
  BY <1>1, <1>8, <1>9 DEF InvoiceWritten, Moves
<1> QED
  BY <1>1, <1>7, <1>8, <1>10, InvoiceWriteStep

LEMMA VoidInvoiceKeeps ==
  ASSUME IInv, NEW w \in Workers, VoidInvoice(w)
  PROVE  IInv'
<1> DEFINE i == tx[w].bill
<1>1. WorkerOK(tx[w], own[w]) /\ tx[w].pc = "void" /\ tx[w].kind = "void" /\ i \in Bills
  BY DEF VoidInvoice, At, IInv, WorkerOK, TxTyped, Reaches, Paying, Repaying
<1>2. PICK row : row = [InvoiceSeen(w, i) EXCEPT !.status = "void"]
  OBVIOUS
<1>3. WriteInvoice(w, i, row) /\ InvoiceWritable(w, i) /\ UNCHANGED rows
  BY <1>2 DEF VoidInvoice, Writes
<1>4. Moves(w, "done") /\ Reaches(tx[w].kind, "done") /\ tx[w].kind \notin Repaying
  BY <1>1, MovesOn DEF Reaches, Repaying, VoidInvoice, Goto
<1>5. IsInvoice(InvoiceSeen(w, i))
  BY <1>1, SeenInvoice
<1>6. IsInvoice(row) /\ row.status = "void" /\ row.credited = InvoiceSeen(w, i).credited
  BY <1>2, <1>5 DEF IsInvoice, Statuses
<1>7. InvoiceSeen(w, i).credited = invoice[i].credited + 0
  <2>1. CASE i \in DOMAIN own[w].invoice
    BY <1>1, <2>1, SeenInvoice DEF InvoiceWritten
  <2>2. CASE i \notin DOMAIN own[w].invoice
    BY <1>1, <1>5, <2>2, SeenInvoice DEF IsInvoice
  <2> QED
    BY <2>1, <2>2
<1>8. InvoiceWritten(tx'[w], i, row)
  BY <1>1, <1>4, <1>6, <1>7 DEF InvoiceWritten, Moves
<1> QED
  BY <1>1, <1>3, <1>4, <1>8, InvoiceWriteStep

-----------------------------------------------------------------------------
(* Commit: what the other transactions hold is not what this one writes. *)

\* The rows that a commit publishes.
LEMMA Published ==
  ASSUME IInv, NEW w \in Workers, Commit(w)
  PROVE  /\ \A p \in Payments :
              /\ p \in DOMAIN payment' /\ IsPayment(payment'[p])
              /\ p \notin DOMAIN own[w].payment => payment'[p] = payment[p]
              /\ p \in DOMAIN own[w].payment =>
                   payment'[p] = own[w].payment[p] /\ PaymentWritten(tx[w], p, payment'[p])
         /\ \A i \in Bills :
              /\ i \in DOMAIN invoice' /\ IsInvoice(invoice'[i])
              /\ i \notin DOMAIN own[w].invoice => invoice'[i] = invoice[i]
              /\ i \in DOMAIN own[w].invoice =>
                   invoice'[i] = own[w].invoice[i] /\ InvoiceWritten(tx[w], i, invoice'[i])
<1>1. WorkerOK(tx[w], own[w]) /\ Committed
  BY DEF IInv
<1>2. payment' = Over(own[w].payment, payment) /\ invoice' = Over(own[w].invoice, invoice)
  BY DEF Commit
<1>3. ASSUME NEW p \in Payments
      PROVE  /\ p \in DOMAIN payment'
             /\ payment'[p] = IF p \in DOMAIN own[w].payment THEN own[w].payment[p] ELSE payment[p]
  BY <1>1, <1>2 DEF Committed, Over
<1>4. ASSUME NEW i \in Bills
      PROVE  /\ i \in DOMAIN invoice'
             /\ invoice'[i] = IF i \in DOMAIN own[w].invoice THEN own[w].invoice[i] ELSE invoice[i]
  BY <1>1, <1>2 DEF Committed, Over
<1>5. \A p \in Payments : p \in DOMAIN own[w].payment =>
         PaymentWritten(tx[w], p, own[w].payment[p]) /\ IsPayment(own[w].payment[p])
  BY <1>1 DEF WorkerOK, PaymentWritten
<1>6. \A i \in Bills : i \in DOMAIN own[w].invoice =>
         InvoiceWritten(tx[w], i, own[w].invoice[i]) /\ IsInvoice(own[w].invoice[i])
  BY <1>1 DEF WorkerOK, InvoiceWritten
<1> QED
  BY <1>1, <1>3, <1>4, <1>5, <1>6 DEF Committed

LEMMA CommitExplains ==
  ASSUME IInv, NEW w \in Workers, Commit(w)
  PROVE  DocumentsExplainTheLedger'
<1>1. WorkerOK(tx[w], own[w]) /\ tx[w].pc = "done" /\ tx[w].amount \in Nat
  BY DEF IInv, Commit, At, WorkerOK, TxTyped
<1>2. documents' = Documents(tx[w])
  BY DEF Commit
<1>3. ASSUME NEW p \in Payments PROVE payment'[p].refunded = documents'.refunds[p]
  <2>1. documents'.refunds[p] = payment[p].refunded
          + IF tx[w].kind \in Repaying /\ tx[w].p = p THEN tx[w].amount ELSE 0
    BY <1>2, <1>3 DEF Documents, Repaying, IInv, DocumentsExplainTheLedger
  <2>2. IsPayment(payment[p])
    BY DEF IInv, Committed
  <2>3. CASE p \in DOMAIN own[w].payment
    <3>1. PaymentWritten(tx[w], p, payment'[p])
      BY <2>3, Published
    <3> QED
      BY <2>1, <2>2, <3>1 DEF PaymentWritten, IsPayment, PayRow, Paying, Repaying
  <2>4. CASE p \notin DOMAIN own[w].payment
    <3>1. payment'[p] = payment[p]
      BY <2>4, Published
    <3>2. ~(tx[w].kind \in Repaying /\ tx[w].p = p)
      BY <1>1, <2>4 DEF WorkerOK, PaymentRead
    <3> QED
      BY <2>1, <2>2, <3>1, <3>2 DEF IsPayment, PayRow
  <2> QED
    BY <2>3, <2>4
<1>4. ASSUME NEW i \in Bills PROVE invoice'[i].credited = documents'.notes[i]
  <2>1. documents'.notes[i] = invoice[i].credited
          + IF tx[w].kind = "credit" /\ tx[w].bill = i THEN tx[w].amount ELSE 0
    BY <1>2, <1>4 DEF Documents, IInv, DocumentsExplainTheLedger
  <2>2. IsInvoice(invoice[i])
    BY DEF IInv, Committed
  <2>3. CASE i \in DOMAIN own[w].invoice
    BY <2>1, <2>3, Published DEF InvoiceWritten
  <2>4. CASE i \notin DOMAIN own[w].invoice
    <3>1. invoice'[i] = invoice[i]
      BY <2>4, Published
    <3>2. ~(tx[w].kind = "credit" /\ tx[w].bill = i)
      BY <1>1, <2>4 DEF WorkerOK, InvoiceRead
    <3> QED
      BY <2>1, <2>2, <3>1, <3>2 DEF IsInvoice
  <2> QED
    BY <2>3, <2>4
<1> QED
  BY <1>3, <1>4 DEF DocumentsExplainTheLedger

LEMMA CommitKeeps ==
  ASSUME IInv, NEW w \in Workers, Commit(w)
  PROVE  IInv'
<1>1. tx' = [tx EXCEPT ![w] = NoTx] /\ own' = [own EXCEPT ![w] = NoWrites]
  BY DEF Commit, End
<1>2. /\ tx'[w] = NoTx /\ own'[w] = NoWrites
      /\ \A v \in Workers \ {w} : tx'[v] = tx[v] /\ own'[v] = own[v]
  BY <1>1 DEF IInv
<1>3. Committed'
  BY Published DEF Committed
<1>4. WorkerOK(NoTx, NoWrites)'
  <2>1. \A p \in Payments : p \notin DOMAIN NoWrites.payment
    BY NothingWritten
  <2>2. \A i \in Bills : i \notin DOMAIN NoWrites.invoice
    BY NothingWritten
  <2>3. NoTx.kind \notin Repaying /\ NoTx.kind # "credit"
    BY DEF NoTx, Repaying
  <2>4. TxTyped(NoTx) /\ IsOwn(NoWrites)
    BY Ended DEF WorkerOK
  <2> QED
    BY <2>1, <2>2, <2>3, <2>4 DEF WorkerOK, PaymentRead, InvoiceRead
<1>5. ASSUME NEW v \in Workers \ {w} PROVE WorkerOK(tx[v], own[v])'
  <2>1. WorkerOK(tx[v], own[v]) /\ Apart(tx[w], own[w], tx[v], own[v])
    BY DEF IInv
  <2>2. \A p \in Payments : HoldsPayment(tx[v], own[v], p) => payment'[p] = payment[p]
    BY <2>1, Published DEF Apart, HoldsPayment
  <2>3. \A i \in Bills : HoldsInvoice(tx[v], own[v], i) => invoice'[i] = invoice[i]
    BY <2>1, Published DEF Apart, HoldsInvoice
  <2>4. TxTyped(tx[v]) /\ IsOwn(own[v])
    BY <2>1 DEF WorkerOK
  <2>5. ASSUME NEW p \in Payments, p \in DOMAIN own[v].payment
        PROVE  PaymentWritten(tx[v], p, own[v].payment[p])'
    <3>1. payment'[p] = payment[p] /\ PaymentWritten(tx[v], p, own[v].payment[p])
      BY <2>1, <2>2, <2>5 DEF HoldsPayment, WorkerOK
    <3> QED
      BY <1>2, <3>1 DEF PaymentWritten
  <2>6. ASSUME NEW i \in Bills, i \in DOMAIN own[v].invoice
        PROVE  InvoiceWritten(tx[v], i, own[v].invoice[i])'
    <3>1. invoice'[i] = invoice[i] /\ InvoiceWritten(tx[v], i, own[v].invoice[i])
      BY <2>1, <2>3, <2>6 DEF HoldsInvoice, WorkerOK
    <3> QED
      BY <1>2, <3>1 DEF InvoiceWritten
  <2>7. PaymentRead(tx[v], own[v])'
    <3>1. tx[v].kind \in Repaying /\ tx[v].pc \notin {"freeze", "lock"} =>
             payment'[tx[v].p] = payment[tx[v].p]
      BY <2>2, <2>4 DEF HoldsPayment, LockedPayment, TxTyped
    <3> QED
      BY <1>2, <2>1, <3>1 DEF WorkerOK, PaymentRead
  <2>8. InvoiceRead(tx[v], own[v])'
    <3>1. tx[v].kind = "credit" /\ tx[v].pc # "freeze" => invoice'[tx[v].bill] = invoice[tx[v].bill]
      BY <2>3, <2>4 DEF HoldsInvoice, LockedInvoice, TxTyped
    <3> QED
      BY <1>2, <2>1, <3>1 DEF WorkerOK, InvoiceRead
  <2> QED
    BY <1>2, <2>4, <2>5, <2>6, <2>7, <2>8 DEF WorkerOK
<1>6. \A u, v \in Workers : u # v => Apart(tx[u], own[u], tx[v], own[v])'
  <2> SUFFICES ASSUME NEW u \in Workers, NEW v \in Workers, u # v
               PROVE  Apart(tx'[u], own'[u], tx'[v], own'[v])
    BY DEF Apart, HoldsPayment, HoldsInvoice, LockedPayment, LockedInvoice
  <2>1. CASE u = w \/ v = w
    BY <1>2, <2>1, Ended DEF Apart
  <2>2. CASE u # w /\ v # w
    BY <1>2, <2>2 DEF IInv
  <2> QED
    BY <2>1, <2>2
<1>7. \A v \in Workers : WorkerOK(tx[v], own[v])'
  BY <1>2, <1>4, <1>5
<1> QED
  BY <1>1, <1>3, <1>6, <1>7, CommitExplains DEF IInv

-----------------------------------------------------------------------------
(* The invariant holds, and what follows from it. *)

LEMMA InitInv == Init => IInv
<1> SUFFICES ASSUME Init PROVE IInv
  OBVIOUS
<1>1. \A p \in Payments : payment[p] = [amount |-> 0, refunded |-> 0] /\ documents.refunds[p] = 0
  BY DEF Init
<1>2. \A i \in Bills : invoice[i] = [status |-> "issued", paid |-> 0, credited |-> 0] /\ documents.notes[i] = 0
  BY DEF Init
<1>3. Committed
  BY <1>1, <1>2 DEF Init, Committed, IsPayment, PayRow, IsInvoice, Statuses, Open
<1>4. DocumentsExplainTheLedger
  BY <1>1, <1>2 DEF DocumentsExplainTheLedger
<1>5. /\ tx = [w \in Workers |-> NoTx] /\ own = [w \in Workers |-> NoWrites]
      /\ \A w \in Workers : tx[w] = NoTx /\ own[w] = NoWrites
  BY DEF Init
<1>6. \A w \in Workers : WorkerOK(tx[w], own[w])
  BY <1>5, Ended
<1>7. \A v, w \in Workers : Apart(tx[v], own[v], tx[w], own[w])
  BY <1>5, Ended DEF Apart
<1> QED
  BY <1>3, <1>4, <1>5, <1>6, <1>7 DEF IInv

LEMMA StartKeeps == ASSUME IInv, NEW w \in Workers, Start(w) PROVE IInv'
<1>1. CASE \E p \in Payments, a \in Amounts, bill \in Bills \cup {None}, kind \in Paying :
             RecordPayment(w, p, a, bill, kind)
  BY <1>1, RecordPaymentKeeps
<1>2. CASE \E p \in Payments, a \in Amounts : Refund(w, p, a)
  BY <1>2, RefundKeeps
<1>3. CASE \E p \in Payments, a \in Amounts, i \in Bills : Credit(w, p, i, a)
  BY <1>3, CreditKeeps
<1>4. CASE \E i \in Bills : ReadForVoid(w, i)
  BY <1>4, ReadForVoidKeeps
<1> QED
  BY <1>1, <1>2, <1>3, <1>4 DEF Start, Paying

LEMMA StepKeeps == ASSUME IInv, NEW w \in Workers, Step(w) PROVE IInv'
<1>1. CASE Refuse(w)
  BY <1>1, EndKeeps
<1>2. CASE ~Refuse(w)
  BY <1>2, PlanKeeps, InsertPaymentKeeps, UpsertAllocationKeeps, SyncInvoiceKeeps, LockPaymentKeeps,
     ReleaseAllocationKeeps, RepayPaymentKeeps, LockInvoiceKeeps, CreditInvoiceKeeps, VoidInvoiceKeeps,
     CommitKeeps DEF Step
<1> QED
  BY <1>1, <1>2

LEMMA NextInv == IInv /\ [Next]_vars => IInv'
<1> SUFFICES ASSUME IInv, [Next]_vars PROVE IInv'
  OBVIOUS
<1>1. CASE Next
  BY <1>1, StartKeeps, StepKeeps, EndKeeps DEF Next, Crash, LockTimeout
<1>2. CASE UNCHANGED vars
  BY <1>2 DEF vars, IInv, Committed, DocumentsExplainTheLedger, WorkerOK, PaymentWritten,
              InvoiceWritten, PaymentRead, InvoiceRead, Apart, HoldsPayment, HoldsInvoice,
              LockedPayment, LockedInvoice
<1> QED
  BY <1>1, <1>2

LEMMA OnlyCommitPublishes ==
  ASSUME [Next]_vars, \A w \in Workers : ~Commit(w) PROVE UNCHANGED rows
<1>1. CASE UNCHANGED vars
  BY <1>1 DEF vars, rows
<1>2. ASSUME NEW w \in Workers, Start(w) PROVE UNCHANGED rows
  BY <1>2 DEF Start, RecordPayment, Refund, Credit, ReadForVoid, Reads
<1>3. ASSUME NEW w \in Workers, Step(w) PROVE UNCHANGED rows
  BY <1>3 DEF Step, InsertPayment, ReadUnallocated, CheckPreferred, PlanAllocations, CheckAllocation,
              UpsertAllocation, LinkAllocation, SumPaid, SyncInvoice, LockPayment, PickAllocations,
              ReleaseAllocation, RepayPayment, LockInvoice, CreditInvoice, VoidInvoice,
              Refuse, Reads, Writes
<1>4. ASSUME NEW w \in Workers, Crash(w) \/ LockTimeout(w) PROVE UNCHANGED rows
  BY <1>4 DEF Crash, LockTimeout, Refuse, Writes
<1> QED
  BY <1>1, <1>2, <1>3, <1>4 DEF Next

\* The invariant holds of every state that payments, refunds, credit notes
\* and voids can reach, whatever else runs.
THEOREM Invariance == Spec => []IInv
  BY InitInv, NextInv, PTL DEF Spec

\* A refund that was checked can be written: nobody else touches the payment
\* between the lock of LockPayment and the UPDATE of RepayPayment.
THEOREM CheckedRefundsFit == Spec => []RefundsFit
<1>1. IInv => RefundsFit
  <2> SUFFICES ASSUME IInv, NEW w \in Workers, tx[w].pc = "repay"
               PROVE  tx[w].amount <= Worth(PaymentSeen(w, tx[w].p))
    BY DEF RefundsFit, At
  <2>1. WorkerOK(tx[w], own[w]) /\ tx[w].kind \in Repaying
    BY DEF IInv, WorkerOK, TxTyped, Reaches, Paying
  <2>2. tx[w].p \in Payments /\ tx[w].p \notin DOMAIN own[w].payment
    BY <2>1 DEF WorkerOK, TxTyped, PaymentWritten, Paying, Repaying
  <2>3. PaymentSeen(w, tx[w].p) = payment[tx[w].p]
    BY <2>2, OverRow DEF PaymentSeen, IInv, Committed
  <2> QED
    BY <2>1, <2>3 DEF WorkerOK, PaymentRead
<1> QED
  BY <1>1, Invariance, PTL

\* Every cent refunded or credited has its document, in every committed state.
THEOREM LedgerIsExplained == Spec => []DocumentsExplainTheLedger
<1>1. IInv => DocumentsExplainTheLedger
  BY DEF IInv
<1> QED
  BY <1>1, Invariance, PTL

\* No step takes a void document back to life.
THEOREM VoidStays == Spec => VoidIsFinal
<1>1. IInv /\ [Next]_vars => [\A i \in Bills : invoice[i].status = "void" => invoice'[i].status = "void"]_vars
  <2> SUFFICES ASSUME IInv, [Next]_vars, NEW i \in Bills, invoice[i].status = "void"
               PROVE  invoice'[i].status = "void"
    OBVIOUS
  <2>1. CASE \E w \in Workers : Commit(w)
    BY <2>1, Published DEF InvoiceWritten
  <2>2. CASE \A w \in Workers : ~Commit(w)
    BY <2>2, OnlyCommitPublishes DEF rows
  <2> QED
    BY <2>1, <2>2
<1> QED
  BY <1>1, Invariance, PTL DEF Spec, VoidIsFinal

\* A payments row that is there is never replaced, and its refunds never shrink.
THEOREM OneKeyIsOnePayment == Spec => OneKeyOnePayment
<1>1. IInv /\ [Next]_vars =>
        [\A p \in Payments : payment[p].amount > 0 =>
           /\ payment'[p].amount = payment[p].amount
           /\ payment'[p].refunded >= payment[p].refunded]_vars
  <2> SUFFICES ASSUME IInv, [Next]_vars, NEW p \in Payments, payment[p].amount > 0
               PROVE  /\ payment'[p].amount = payment[p].amount
                      /\ payment'[p].refunded >= payment[p].refunded
    OBVIOUS
  <2>1. payment[p].refunded \in Nat
    BY DEF IInv, Committed, IsPayment, PayRow
  <2>2. ASSUME NEW w \in Workers, Commit(w), p \in DOMAIN own[w].payment
        PROVE  /\ payment'[p].amount = payment[p].amount
               /\ payment'[p].refunded >= payment[p].refunded
    <3>1. PaymentWritten(tx[w], p, payment'[p])
      BY <2>2, Published
    <3>2. tx[w].amount \in Nat
      BY DEF IInv, WorkerOK, TxTyped
    <3> QED
      BY <2>1, <3>1, <3>2 DEF PaymentWritten
  <2>3. ASSUME NEW w \in Workers, Commit(w), p \notin DOMAIN own[w].payment
        PROVE  payment'[p].amount = payment[p].amount /\ payment'[p].refunded >= payment[p].refunded
    <3>1. payment'[p] = payment[p]
      BY <2>3, Published
    <3> QED
      BY <2>1, <3>1
  <2>4. CASE \A w \in Workers : ~Commit(w)
    <3>1. payment' = payment
      BY <2>4, OnlyCommitPublishes DEF rows
    <3> QED
      BY <2>1, <3>1
  <2> QED
    BY <2>1, <2>2, <2>3, <2>4
<1> QED
  BY <1>1, Invariance, PTL DEF Spec, OneKeyOnePayment

-----------------------------------------------------------------------------
(* Sums over a finite set. *)

\* Among sets of subsets of a finite set there is a smallest one: the
\* induction of this module.
LEMMA SmallestSet ==
  ASSUME NEW S, IsFiniteSet(S), NEW B \in SUBSET (SUBSET S), B # {}
  PROVE  \E T \in B : \A U \in B : U \subseteq T => U = T
<1>1. IsWellFoundedOn(StrictSubsetOrdering(S), SUBSET S)
  BY FS_StrictSubsetOrderingWellFounded, FS_FiniteSubsetsOfFinite
<1>2. PICK T \in B : \A U \in B : <<U, T>> \notin StrictSubsetOrdering(S)
  <2> HIDE DEF StrictSubsetOrdering
  <2> QED
    BY <1>1, WFMin
<1> QED
  BY <1>2 DEF StrictSubsetOrdering

Chosen(s) == CHOOSE x \in s : TRUE
Rest(s) == s \ {Chosen(s)}
\* g[s] is the sum of f over s, for the subsets s of S.
SumsUp(g, f, S) == g = [s \in SUBSET S |-> IF s = {} THEN 0 ELSE f[Chosen(s)] + g[Rest(s)]]
SumOf(f, S) == (CHOOSE g : SumsUp(g, f, S))[S]

LEMMA ChosenAndRest ==
  ASSUME NEW s, s # {}
  PROVE  Chosen(s) \in s /\ Rest(s) \subseteq s /\ Chosen(s) \notin Rest(s)
BY DEF Chosen, Rest

\* The recursive sum over the subsets of a finite set is a function.
LEMMA SumsExist ==
  ASSUME NEW S, IsFiniteSet(S), NEW f
  PROVE  \E g : SumsUp(g, f, S)
<1> DEFINE Small(n) == {s \in SUBSET S : Cardinality(s) <= n}
           OK(n) == \E g : g = [s \in Small(n) |-> IF s = {} THEN 0 ELSE f[Chosen(s)] + g[Rest(s)]]
           B == {T \in SUBSET S : ~OK(Cardinality(T))}
<1>1. \A T \in SUBSET S : IsFiniteSet(T) /\ Cardinality(T) \in Nat /\ Cardinality(T) <= Cardinality(S)
  BY FS_Subset, FS_CardinalityType
<1>2. B = {}
  <2> SUFFICES ASSUME B # {}
               PROVE  FALSE
    OBVIOUS
  <2>0. B \in SUBSET (SUBSET S)
    OBVIOUS
  <2> HIDE DEF OK
  <2>1. PICK T \in B : \A U \in B : U \subseteq T => U = T
    <3> HIDE DEF B
    <3> QED
      BY <2>0, SmallestSet
  <2>2. T \in SUBSET S /\ ~OK(Cardinality(T))
    OBVIOUS
  <2>3. CASE T = {}
    <3>1. Cardinality(T) = 0 /\ \A s \in Small(0) : s = {}
      BY <1>1, <2>3, FS_EmptySet
    <3>2. PICK g : g = [s \in Small(0) |-> 0]
      OBVIOUS
    <3>3. g = [s \in Small(0) |-> IF s = {} THEN 0 ELSE f[Chosen(s)] + g[Rest(s)]]
      BY <3>1, <3>2
    <3> QED
      BY <2>2, <3>1, <3>3 DEF OK
  <2>4. CASE T # {}
    <3>1. PICK x \in T : TRUE
      BY <2>4
    <3>2. PICK n \in Nat : n = Cardinality(T \ {x}) /\ n + 1 = Cardinality(T)
      <4>1. IsFiniteSet(T) /\ Cardinality(T) \in Nat
        BY <1>1, <2>2
      <4>2. Cardinality(T \ {x}) = Cardinality(T) - 1 /\ IsFiniteSet(T \ {x})
        BY <3>1, <4>1, FS_RemoveElement
      <4>3. Cardinality(T \ {x}) \in Nat
        BY <4>2, FS_CardinalityType
      <4> QED
        BY <4>1, <4>2, <4>3
    <3>3. OK(n)
      BY <2>1, <2>2, <3>1, <3>2
    <3>4. PICK g : g = [s \in Small(n) |-> IF s = {} THEN 0 ELSE f[Chosen(s)] + g[Rest(s)]]
      BY <3>3 DEF OK
    <3>5. \A s \in Small(n + 1) : s # {} => Rest(s) \in Small(n)
      <4>1. SUFFICES ASSUME NEW s \in Small(n + 1), s # {}
                     PROVE  Rest(s) \in Small(n)
        OBVIOUS
      <4>2. Chosen(s) \in s /\ Rest(s) = s \ {Chosen(s)}
        BY <4>1, ChosenAndRest DEF Rest
      <4>3. Cardinality(Rest(s)) = Cardinality(s) - 1
        BY <1>1, <4>1, <4>2, FS_RemoveElement
      <4> QED
        BY <1>1, <3>2, <4>1, <4>2, <4>3
    <3>6. PICK k : k = [s \in Small(n + 1) |-> IF s = {} THEN 0 ELSE f[Chosen(s)] + g[Rest(s)]]
      OBVIOUS
    <3>7. \A s \in Small(n) : s \in Small(n + 1)
      BY <1>1, <3>2
    <3> HIDE DEF Small
    <3>8. \A s \in Small(n) : k[s] = g[s]
      BY <3>4, <3>6, <3>7
    <3>9. k = [s \in Small(n + 1) |-> IF s = {} THEN 0 ELSE f[Chosen(s)] + k[Rest(s)]]
      BY <3>5, <3>6, <3>8
    <3> QED
      BY <2>2, <3>2, <3>9 DEF OK
  <2> QED
    BY <2>3, <2>4
<1>3. OK(Cardinality(S))
  BY <1>2
<1>4. Small(Cardinality(S)) = SUBSET S
  BY <1>1
<1> QED
  BY <1>3, <1>4 DEF SumsUp

\* Functions that agree add up to the same.
LEMMA SumsAgree ==
  ASSUME NEW S, IsFiniteSet(S), NEW T, NEW U, U \subseteq S, U \subseteq T,
         NEW f, NEW h, \A x \in U : f[x] = h[x],
         NEW g, NEW k, SumsUp(g, f, S), SumsUp(k, h, T)
  PROVE  g[U] = k[U]
<1> DEFINE B == {V \in SUBSET U : g[V] # k[V]}
<1>1. SUFFICES ASSUME B # {}
               PROVE  FALSE
  OBVIOUS
<1>2. IsFiniteSet(U) /\ B \in SUBSET (SUBSET U)
  BY FS_Subset
<1>3. PICK V \in B : \A W \in B : W \subseteq V => W = V
  <2> HIDE DEF B
  <2> QED
    BY <1>1, <1>2, SmallestSet
<1>4. V \in SUBSET S /\ V \in SUBSET T /\ V \subseteq U
  BY <1>2
<1>5. g[V] = IF V = {} THEN 0 ELSE f[Chosen(V)] + g[Rest(V)]
  BY <1>4 DEF SumsUp
<1>6. k[V] = IF V = {} THEN 0 ELSE h[Chosen(V)] + k[Rest(V)]
  BY <1>4 DEF SumsUp
<1>7. CASE V = {}
  BY <1>5, <1>6, <1>7
<1>8. CASE V # {}
  <2>1. Chosen(V) \in U /\ Rest(V) \subseteq V /\ Rest(V) # V
    BY <1>4, <1>8, ChosenAndRest
  <2>2. g[Rest(V)] = k[Rest(V)]
    BY <1>3, <1>4, <2>1
  <2> QED
    BY <1>5, <1>6, <1>8, <2>1, <2>2
<1> QED
  BY <1>7, <1>8

\* There is one sum, and SumOf is it.
LEMMA SumIsUnique ==
  ASSUME NEW S, IsFiniteSet(S), NEW f, NEW g, SumsUp(g, f, S), NEW T, T \subseteq S
  PROVE  g[T] = SumOf(f, T)
<1>1. IsFiniteSet(T)
  BY FS_Subset
<1>2. PICK k : k = CHOOSE h : SumsUp(h, f, T)
  OBVIOUS
<1>3. SumsUp(k, f, T)
  BY <1>1, <1>2, SumsExist
<1>4. g[T] = k[T]
  BY <1>3, SumsAgree
<1> QED
  BY <1>2, <1>4 DEF SumOf

\* It depends on f over S only.
LEMMA SumOfSame ==
  ASSUME NEW S, IsFiniteSet(S), NEW f, NEW h, \A x \in S : f[x] = h[x]
  PROVE  SumOf(f, S) = SumOf(h, S)
<1>1. PICK g, k : SumsUp(g, f, S) /\ SumsUp(k, h, S)
  BY SumsExist
<1>2. g[S] = k[S]
  BY <1>1, SumsAgree
<1>3. g[S] = SumOf(f, S) /\ k[S] = SumOf(h, S)
  BY <1>1, SumIsUnique
<1> QED
  BY <1>2, <1>3

LEMMA SumOfNothing == ASSUME NEW f PROVE SumOf(f, {}) = 0
<1>1. PICK g : SumsUp(g, f, {})
  BY SumsExist, FS_EmptySet
<1>2. g[{}] = 0
  BY <1>1 DEF SumsUp
<1> QED
  BY <1>1, <1>2, SumIsUnique, FS_EmptySet

LEMMA SumOfChosen ==
  ASSUME NEW S, IsFiniteSet(S), S # {}, NEW f
  PROVE  SumOf(f, S) = f[Chosen(S)] + SumOf(f, Rest(S))
<1>1. PICK g : SumsUp(g, f, S)
  BY SumsExist
<1>2. g[S] = f[Chosen(S)] + g[Rest(S)]
  BY <1>1 DEF SumsUp
<1>3. Rest(S) \subseteq S
  BY ChosenAndRest
<1> QED
  BY <1>1, <1>2, <1>3, SumIsUnique

\* A sum of integers is one.
LEMMA SumOfIsInt ==
  ASSUME NEW S, IsFiniteSet(S), NEW f, \A x \in S : f[x] \in Int
  PROVE  SumOf(f, S) \in Int
<1> DEFINE B == {V \in SUBSET S : SumOf(f, V) \notin Int}
<1>1. SUFFICES ASSUME B # {}
               PROVE  FALSE
  OBVIOUS
<1>2. B \in SUBSET (SUBSET S)
  OBVIOUS
<1>3. PICK V \in B : \A W \in B : W \subseteq V => W = V
  <2> HIDE DEF B
  <2> QED
    BY <1>1, <1>2, SmallestSet
<1>4. IsFiniteSet(V)
  BY FS_Subset
<1>5. V # {}
  BY SumOfNothing
<1>6. Chosen(V) \in S /\ Rest(V) \subseteq V /\ Rest(V) # V
  BY <1>5, ChosenAndRest
<1>7. SumOf(f, Rest(V)) \in Int
  BY <1>3, <1>6
<1>8. SumOf(f, V) \in Int
  BY <1>4, <1>5, <1>6, <1>7, SumOfChosen
<1> QED
  BY <1>8

\* Any term can be taken out.
LEMMA SumOfTakeOut ==
  ASSUME NEW S, IsFiniteSet(S), NEW f, \A y \in S : f[y] \in Int, NEW x \in S
  PROVE  SumOf(f, S) = f[x] + SumOf(f, S \ {x})
<1> DEFINE B == {V \in SUBSET S : \E v \in V : SumOf(f, V) # f[v] + SumOf(f, V \ {v})}
<1>1. SUFFICES ASSUME B # {}
               PROVE  FALSE
  BY DEF B
<1>2. B \in SUBSET (SUBSET S)
  OBVIOUS
<1>3. PICK V \in B : \A W \in B : W \subseteq V => W = V
  <2> HIDE DEF B
  <2> QED
    BY <1>1, <1>2, SmallestSet
<1>4. PICK v \in V : SumOf(f, V) # f[v] + SumOf(f, V \ {v})
  OBVIOUS
<1>5. V \subseteq S /\ IsFiniteSet(V) /\ IsFiniteSet(V \ {v})
  BY FS_Subset
<1>6. PICK y : y = Chosen(V)
  OBVIOUS
<1>7. y \in V /\ Rest(V) = V \ {y} /\ SumOf(f, V) = f[y] + SumOf(f, V \ {y})
  BY <1>4, <1>5, <1>6, ChosenAndRest, SumOfChosen DEF Rest
<1>8. y # v
  BY <1>4, <1>7
<1>9. \A W : W \subseteq V /\ W # V => \A w \in W : SumOf(f, W) = f[w] + SumOf(f, W \ {w})
  BY <1>3, <1>5
<1>10. SumOf(f, V \ {y}) = f[v] + SumOf(f, (V \ {y}) \ {v})
  <2>1. V \ {y} \subseteq V /\ V \ {y} # V /\ v \in V \ {y}
    BY <1>7, <1>8
  <2> QED
    BY <1>9, <2>1
<1>11. SumOf(f, V \ {v}) = f[y] + SumOf(f, (V \ {v}) \ {y})
  <2>1. V \ {v} \subseteq V /\ V \ {v} # V /\ y \in V \ {v}
    BY <1>7, <1>8
  <2> QED
    BY <1>9, <2>1
<1>12. PICK n \in Int, a \in Int, b \in Int : n = SumOf(f, (V \ {y}) \ {v}) /\ a = f[v] /\ b = f[y]
  <2>1. IsFiniteSet((V \ {y}) \ {v}) /\ \A z \in (V \ {y}) \ {v} : f[z] \in Int
    BY <1>5, FS_Subset
  <2>2. SumOf(f, (V \ {y}) \ {v}) \in Int
    BY <2>1, SumOfIsInt
  <2> QED
    BY <1>5, <1>7, <2>2
<1>13. (V \ {v}) \ {y} = (V \ {y}) \ {v}
  OBVIOUS
<1>14. SumOf(f, V) = b + (a + n) /\ f[v] + SumOf(f, V \ {v}) = a + (b + n)
  BY <1>7, <1>10, <1>11, <1>12, <1>13
<1> QED
  BY <1>4, <1>12, <1>14

\* One term is replaced.
LEMMA SumOfChange ==
  ASSUME NEW S, IsFiniteSet(S), NEW f, NEW h, \A y \in S : f[y] \in Int, NEW x \in S,
         h[x] \in Int, \A y \in S \ {x} : h[y] = f[y]
  PROVE  SumOf(h, S) = SumOf(f, S) - f[x] + h[x]
<1>1. IsFiniteSet(S \ {x})
  BY FS_Subset
<1>2. \A y \in S : h[y] \in Int
  OBVIOUS
<1>3. SumOf(h, S) = h[x] + SumOf(h, S \ {x})
  BY <1>2, SumOfTakeOut
<1>4. SumOf(f, S) = f[x] + SumOf(f, S \ {x})
  BY SumOfTakeOut
<1>5. SumOf(h, S \ {x}) = SumOf(f, S \ {x})
  BY <1>1, SumOfSame
<1>6. PICK n \in Int, a \in Int, b \in Int : n = SumOf(f, S \ {x}) /\ a = f[x] /\ b = h[x]
  <2>1. SumOf(f, S \ {x}) \in Int
    BY <1>1, SumOfIsInt
  <2> QED
    BY <2>1
<1>7. SumOf(h, S) = b + n /\ SumOf(f, S) = a + n
  BY <1>3, <1>4, <1>5, <1>6
<1> QED
  BY <1>6, <1>7

\* Of natural numbers: a sum is one, and no term is more.
LEMMA SumOfNats ==
  ASSUME NEW S, IsFiniteSet(S), NEW f, \A y \in S : f[y] \in Nat
  PROVE  SumOf(f, S) \in Nat /\ \A x \in S : f[x] <= SumOf(f, S)
<1> DEFINE B == {V \in SUBSET S : SumOf(f, V) \notin Nat}
<1>1. \A V \in SUBSET S : SumOf(f, V) \in Nat
  <2>1. SUFFICES ASSUME B # {}
                 PROVE  FALSE
    OBVIOUS
  <2>2. B \in SUBSET (SUBSET S)
    OBVIOUS
  <2>3. PICK V \in B : \A W \in B : W \subseteq V => W = V
    <3> HIDE DEF B
    <3> QED
      BY <2>1, <2>2, SmallestSet
  <2>4. IsFiniteSet(V)
    BY FS_Subset
  <2>5. V # {}
    BY SumOfNothing
  <2>6. Chosen(V) \in S /\ Rest(V) \subseteq V /\ Rest(V) # V
    BY <2>5, ChosenAndRest
  <2>7. SumOf(f, Rest(V)) \in Nat
    BY <2>3, <2>6
  <2>8. SumOf(f, V) \in Nat
    BY <2>4, <2>5, <2>6, <2>7, SumOfChosen
  <2> QED
    BY <2>8
<1>2. ASSUME NEW x \in S
      PROVE  f[x] <= SumOf(f, S)
  <2>1. SumOf(f, S) = f[x] + SumOf(f, S \ {x})
    BY SumOfTakeOut
  <2> QED
    BY <1>1, <2>1
<1> QED
  BY <1>1, <1>2

-----------------------------------------------------------------------------
(* The sums of the ledger. *)

LEMMA BillsAreFinite == IsFiniteSet(Bills)
<1>1. Invoices \in [1 .. Len(Invoices) -> Bills] /\ Len(Invoices) \in Nat
  BY RowsAreFinite
<1>2. \A i \in Bills : \E k \in 1 .. Len(Invoices) : Invoices[k] = i
  BY <1>1 DEF Bills, Range
<1>3. Invoices \in Surjection(1 .. Len(Invoices), Bills)
  BY <1>1, <1>2 DEF Surjection
<1>4. IsFiniteSet(1 .. Len(Invoices))
  BY <1>1, FS_Interval
<1> QED
  BY <1>3, <1>4, FS_Surjection

LEMMA PaymentsAreFinite == IsFiniteSet(Payments)
BY RowsAreFinite

\* What the community module sums for AllocatedIn, PaidIn and RoomBefore is
\* SumOf.
LEMMA AllocatedIsSum ==
  ASSUME NEW a, NEW p
  PROVE  AllocatedIn(a, p) = SumOf([i \in Bills |-> a[<<p, i>>]], Bills)
<1> DEFINE h == CHOOSE h : h = [s \in SUBSET Bills |->
                  IF s = {} THEN 0 ELSE a[<<p, Chosen(s)>>] + h[s \ {Chosen(s)}]]
           f == [i \in Bills |-> a[<<p, i>>]]
<1>1. AllocatedIn(a, p) = h[Bills]
  BY DEF AllocatedIn, MapThenSumSet, MapThenFoldSet, Chosen
<1>2. \A s \in SUBSET Bills : s # {} => f[Chosen(s)] = a[<<p, Chosen(s)>>]
  BY DEF Chosen
<1>3. PICK g : SumsUp(g, f, Bills)
  BY SumsExist, BillsAreFinite
<1>4. g = [s \in SUBSET Bills |-> IF s = {} THEN 0 ELSE a[<<p, Chosen(s)>>] + g[s \ {Chosen(s)}]]
  BY <1>2, <1>3 DEF SumsUp, Rest
<1>5. h = [s \in SUBSET Bills |-> IF s = {} THEN 0 ELSE a[<<p, Chosen(s)>>] + h[s \ {Chosen(s)}]]
  BY <1>4
<1> HIDE DEF h
<1>6. SumsUp(h, f, Bills)
  BY <1>2, <1>5 DEF SumsUp, Rest
<1> QED
  BY <1>1, <1>6, BillsAreFinite, SumIsUnique

LEMMA PaidIsSum ==
  ASSUME NEW a, NEW i
  PROVE  PaidIn(a, i) = SumOf([p \in Payments |-> a[<<p, i>>]], Payments)
<1> DEFINE h == CHOOSE h : h = [s \in SUBSET Payments |->
                  IF s = {} THEN 0 ELSE a[<<Chosen(s), i>>] + h[s \ {Chosen(s)}]]
           f == [p \in Payments |-> a[<<p, i>>]]
<1>1. PaidIn(a, i) = h[Payments]
  BY DEF PaidIn, MapThenSumSet, MapThenFoldSet, Chosen
<1>2. \A s \in SUBSET Payments : s # {} => f[Chosen(s)] = a[<<Chosen(s), i>>]
  BY DEF Chosen
<1>3. PICK g : SumsUp(g, f, Payments)
  BY SumsExist, PaymentsAreFinite
<1>4. g = [s \in SUBSET Payments |-> IF s = {} THEN 0 ELSE a[<<Chosen(s), i>>] + g[s \ {Chosen(s)}]]
  BY <1>2, <1>3 DEF SumsUp, Rest
<1>5. h = [s \in SUBSET Payments |-> IF s = {} THEN 0 ELSE a[<<Chosen(s), i>>] + h[s \ {Chosen(s)}]]
  BY <1>4
<1> HIDE DEF h
<1>6. SumsUp(h, f, Payments)
  BY <1>2, <1>5 DEF SumsUp, Rest
<1> QED
  BY <1>1, <1>6, PaymentsAreFinite, SumIsUnique

\* Sums of allocations are natural numbers.
LEMMA SumsAreNats ==
  ASSUME NEW a \in [Pairs -> Nat]
  PROVE  /\ \A p \in Payments : AllocatedIn(a, p) \in Nat
         /\ \A i \in Bills : PaidIn(a, i) \in Nat
<1>1. ASSUME NEW p \in Payments
      PROVE  AllocatedIn(a, p) \in Nat
  <2>1. PICK f : f = [i \in Bills |-> a[<<p, i>>]]
    OBVIOUS
  <2>2. \A i \in Bills : f[i] \in Nat
    BY <2>1 DEF Pairs
  <2> QED
    BY <2>1, <2>2, AllocatedIsSum, BillsAreFinite, SumOfNats
<1>2. ASSUME NEW i \in Bills
      PROVE  PaidIn(a, i) \in Nat
  <2>1. PICK f : f = [p \in Payments |-> a[<<p, i>>]]
    OBVIOUS
  <2>2. \A p \in Payments : f[p] \in Nat
    BY <2>1 DEF Pairs
  <2> QED
    BY <2>1, <2>2, PaidIsSum, PaymentsAreFinite, SumOfNats
<1> QED
  BY <1>1, <1>2

\* One allocation is written.
LEMMA PairChanges ==
  ASSUME NEW a \in [Pairs -> Nat], NEW b \in [Pairs -> Nat], NEW p \in Payments, NEW i \in Bills,
         NEW n \in Nat, b[<<p, i>>] = n, \A x \in Pairs : x # <<p, i>> => b[x] = a[x]
  PROVE  /\ AllocatedIn(b, p) = AllocatedIn(a, p) - a[<<p, i>>] + n
         /\ \A q \in Payments : q # p => AllocatedIn(b, q) = AllocatedIn(a, q)
         /\ PaidIn(b, i) = PaidIn(a, i) - a[<<p, i>>] + n
         /\ \A j \in Bills : j # i => PaidIn(b, j) = PaidIn(a, j)
<1>1. AllocatedIn(b, p) = AllocatedIn(a, p) - a[<<p, i>>] + n
  <2>1. PICK f, h : f = [j \in Bills |-> a[<<p, j>>]] /\ h = [j \in Bills |-> b[<<p, j>>]]
    OBVIOUS
  <2>2. /\ \A j \in Bills : f[j] \in Int
        /\ f[i] = a[<<p, i>>] /\ h[i] = n /\ \A j \in Bills \ {i} : h[j] = f[j]
    BY <2>1 DEF Pairs
  <2>3. SumOf(h, Bills) = SumOf(f, Bills) - f[i] + h[i]
    BY <2>2, BillsAreFinite, SumOfChange
  <2>4. AllocatedIn(a, p) = SumOf(f, Bills) /\ AllocatedIn(b, p) = SumOf(h, Bills)
    BY <2>1, AllocatedIsSum
  <2> QED
    BY <2>2, <2>3, <2>4
<1>2. ASSUME NEW q \in Payments, q # p
      PROVE  AllocatedIn(b, q) = AllocatedIn(a, q)
  <2>1. PICK f, h : f = [j \in Bills |-> a[<<q, j>>]] /\ h = [j \in Bills |-> b[<<q, j>>]]
    OBVIOUS
  <2>2. \A j \in Bills : f[j] = h[j]
    BY <1>2, <2>1 DEF Pairs
  <2>3. SumOf(h, Bills) = SumOf(f, Bills)
    BY <2>2, BillsAreFinite, SumOfSame
  <2> QED
    BY <2>1, <2>3, AllocatedIsSum
<1>3. PaidIn(b, i) = PaidIn(a, i) - a[<<p, i>>] + n
  <2>1. PICK f, h : f = [q \in Payments |-> a[<<q, i>>]] /\ h = [q \in Payments |-> b[<<q, i>>]]
    OBVIOUS
  <2>2. /\ \A q \in Payments : f[q] \in Int
        /\ f[p] = a[<<p, i>>] /\ h[p] = n /\ \A q \in Payments \ {p} : h[q] = f[q]
    BY <2>1 DEF Pairs
  <2>3. SumOf(h, Payments) = SumOf(f, Payments) - f[p] + h[p]
    BY <2>2, PaymentsAreFinite, SumOfChange
  <2>4. PaidIn(a, i) = SumOf(f, Payments) /\ PaidIn(b, i) = SumOf(h, Payments)
    BY <2>1, PaidIsSum
  <2> QED
    BY <2>2, <2>3, <2>4
<1>4. ASSUME NEW j \in Bills, j # i
      PROVE  PaidIn(b, j) = PaidIn(a, j)
  <2>1. PICK f, h : f = [q \in Payments |-> a[<<q, j>>]] /\ h = [q \in Payments |-> b[<<q, j>>]]
    OBVIOUS
  <2>2. \A q \in Payments : f[q] = h[q]
    BY <1>4, <2>1 DEF Pairs
  <2>3. SumOf(h, Payments) = SumOf(f, Payments)
    BY <2>2, PaymentsAreFinite, SumOfSame
  <2> QED
    BY <2>1, <2>3, PaidIsSum
<1> QED
  BY <1>1, <1>2, <1>3, <1>4

-----------------------------------------------------------------------------
(* What is spent on a sequence of bills. *)

\* A set of natural numbers has a least one.
LEMMA LeastNumber ==
  ASSUME NEW S \in SUBSET Nat, S # {}
  PROVE  \E n \in S : \A m \in S : n <= m
<1>1. PICK s \in S : TRUE
  OBVIOUS
<1> DEFINE B == {1 .. n : n \in {m \in S : m <= s}}
<1>2. s \in Nat /\ IsFiniteSet(1 .. s)
  BY FS_Interval
<1>3. B \in SUBSET (SUBSET (1 .. s)) /\ B # {}
  BY <1>2
<1>4. PICK T \in B : \A U \in B : U \subseteq T => U = T
  <2> HIDE DEF B
  <2>1. PICK Z : Z = 1 .. s
    OBVIOUS
  <2>2. IsFiniteSet(Z) /\ B \in SUBSET (SUBSET Z) /\ B # {}
    BY <1>2, <1>3, <2>1
  <2> QED
    BY <2>2, SmallestSet
<1>5. PICK n \in S : n <= s /\ T = 1 .. n
  OBVIOUS
<1>6. ASSUME NEW m \in S, m < n PROVE FALSE
  <2>1. m \in Nat /\ n \in Nat /\ s \in Nat
    BY <1>2
  <2>2. 1 .. m \in B /\ 1 .. m \subseteq T
    BY <1>5, <1>6, <2>1
  <2>3. 1 .. m = 1 .. n
    BY <1>4, <1>5, <2>2
  <2>4. n \in 1 .. n /\ n \notin 1 .. m
    BY <1>6, <2>1
  <2> QED
    BY <2>3, <2>4
<1> QED
  BY <1>6

\* The sums of the first rows grow row by row.
LEMMA PrefixSums ==
  ASSUME NEW d \in Nat, NEW f, \A k \in 1 .. d : f[k] \in Nat
  PROVE  /\ SumOf(f, 1 .. 0) = 0
         /\ \A k \in 0 .. d : SumOf(f, 1 .. k) \in Nat
         /\ \A k \in 1 .. d : SumOf(f, 1 .. k) = SumOf(f, 1 .. (k - 1)) + f[k]
         /\ \A j, k \in 0 .. d : j <= k => SumOf(f, 1 .. j) <= SumOf(f, 1 .. k)
<1>1. SumOf(f, 1 .. 0) = 0
  <2>1. {} = 1 .. 0
    OBVIOUS
  <2> QED
    BY <2>1, SumOfNothing
<1>2. ASSUME NEW k \in 0 .. d PROVE SumOf(f, 1 .. k) \in Nat
  <2>1. IsFiniteSet(1 .. k) /\ \A j \in 1 .. k : f[j] \in Nat
    BY FS_Interval
  <2> QED
    BY <2>1, SumOfNats
<1>3. ASSUME NEW k \in 1 .. d PROVE SumOf(f, 1 .. k) = SumOf(f, 1 .. (k - 1)) + f[k]
  <2>1. IsFiniteSet(1 .. k) /\ \A j \in 1 .. k : f[j] \in Int
    BY FS_Interval
  <2>2. k \in 1 .. k /\ (1 .. k) \ {k} = 1 .. (k - 1)
    OBVIOUS
  <2>3. SumOf(f, 1 .. k) = f[k] + SumOf(f, 1 .. (k - 1))
    BY <2>1, <2>2, SumOfTakeOut
  <2>4. SumOf(f, 1 .. (k - 1)) \in Nat /\ f[k] \in Nat
    BY <1>2
  <2> QED
    BY <2>3, <2>4
<1>4. ASSUME NEW j \in 0 .. d
      PROVE  \A k \in 0 .. d : j <= k => SumOf(f, 1 .. j) <= SumOf(f, 1 .. k)
  <2> DEFINE Bad == {k \in 0 .. d : j <= k /\ ~(SumOf(f, 1 .. j) <= SumOf(f, 1 .. k))}
  <2>1. SUFFICES ASSUME Bad # {} PROVE FALSE
    OBVIOUS
  <2>2. PICK k \in Bad : \A m \in Bad : k <= m
    <3>1. Bad \in SUBSET Nat
      OBVIOUS
    <3> HIDE DEF Bad
    <3> QED
      BY <2>1, <3>1, LeastNumber
  <2>3. k \in 0 .. d /\ j <= k /\ ~(SumOf(f, 1 .. j) <= SumOf(f, 1 .. k))
    OBVIOUS
  <2>4. k # j
    BY <1>2, <2>3
  <2>5. k \in 1 .. d /\ k - 1 \in 0 .. d /\ j <= k - 1 /\ k - 1 \notin Bad
    BY <2>2, <2>3, <2>4
  <2>6. SumOf(f, 1 .. j) <= SumOf(f, 1 .. (k - 1))
    BY <2>5
  <2>7. SumOf(f, 1 .. k) = SumOf(f, 1 .. (k - 1)) + f[k] /\ f[k] \in Nat
    BY <1>3, <2>5
  <2>8. PICK x \in Nat, y \in Nat, z \in Nat :
          x = SumOf(f, 1 .. j) /\ y = SumOf(f, 1 .. (k - 1)) /\ z = f[k]
    BY <1>2, <2>5, <2>7
  <2> QED
    BY <2>3, <2>6, <2>7, <2>8
<1>5. \A j, k \in 0 .. d : j <= k => SumOf(f, 1 .. j) <= SumOf(f, 1 .. k)
  BY <1>4
<1>6. \A k \in 0 .. d : SumOf(f, 1 .. k) \in Nat
  BY <1>2
<1>7. \A k \in 1 .. d : SumOf(f, 1 .. k) = SumOf(f, 1 .. (k - 1)) + f[k]
  BY <1>3
<1> QED
  BY <1>1, <1>5, <1>6, <1>7

LEMMA RoomIsSum ==
  ASSUME NEW bills, NEW room, NEW k \in Nat, NEW f, \A j \in 1 .. (k - 1) : f[j] = room[bills[j]]
  PROVE  RoomBefore(bills, room, k) = SumOf(f, 1 .. (k - 1))
<1> DEFINE S == 1 .. (k - 1)
           h == CHOOSE h : h = [s \in SUBSET S |->
                  IF s = {} THEN 0 ELSE room[bills[Chosen(s)]] + h[s \ {Chosen(s)}]]
<1>0. IsFiniteSet(S)
  BY FS_Interval
<1>1. RoomBefore(bills, room, k) = h[S]
  BY DEF RoomBefore, MapThenSumSet, MapThenFoldSet, Chosen
<1>2. \A s \in SUBSET S : s # {} => f[Chosen(s)] = room[bills[Chosen(s)]]
  <2> HIDE DEF S
  <2>1. \A j \in S : f[j] = room[bills[j]]
    BY DEF S
  <2> QED
    BY <2>1 DEF Chosen
<1> HIDE DEF S
<1>3. PICK g : SumsUp(g, f, S)
  BY <1>0, SumsExist
<1>4. g = [s \in SUBSET S |-> IF s = {} THEN 0 ELSE room[bills[Chosen(s)]] + g[s \ {Chosen(s)}]]
  BY <1>2, <1>3 DEF SumsUp, Rest
<1>5. h = [s \in SUBSET S |-> IF s = {} THEN 0 ELSE room[bills[Chosen(s)]] + h[s \ {Chosen(s)}]]
  BY <1>4
<1> HIDE DEF h
<1>6. SumsUp(h, f, S)
  BY <1>2, <1>5 DEF SumsUp, Rest
<1>7. h[S] = SumOf(f, S)
  BY <1>0, <1>6, SumIsUnique
<1> QED
  BY <1>1, <1>7 DEF S

-----------------------------------------------------------------------------
(* Spending: a sum of money goes to one row after the other. *)

LEMMA LesserOfTwo ==
  ASSUME NEW a \in Int, NEW b \in Int
  PROVE  Min({a, b}) = IF a <= b THEN a ELSE b
<1> DEFINE m == IF a <= b THEN a ELSE b
<1>1. m \in {a, b} /\ \A y \in {a, b} : m <= y
  OBVIOUS
<1>2. PICK n : n = Min({a, b})
  OBVIOUS
<1>3. n \in {a, b} /\ \A y \in {a, b} : n <= y
  <2> HIDE DEF m
  <2> QED
    BY <1>1, <1>2 DEF Min
<1> QED
  BY <1>1, <1>2, <1>3

Item == [bill : Bills, amount : Nat]

\* A plan that spends `left` on d rows with room f: it fills rows from the
\* first on, until the money or the rows run out.
TakesFrom(plan, m, bills, f) ==
    \A k \in 1 .. m : /\ plan[k].bill = bills[k] /\ plan[k].amount \in Nat /\ plan[k].amount <= f[k]
                      /\ f[k] > 0 => plan[k].amount > 0
Spends(plan, m, f, d, left) ==
    \/ m = d /\ \A k \in 1 .. m : plan[k].amount = f[k]
    \/ m = 0 /\ left <= 0
    \/ /\ m > 0 /\ \A k \in 1 .. (m - 1) : plan[k].amount = f[k]
       /\ plan[m].amount = left - SumOf(f, 1 .. (m - 1))
Fills(plan, m, bills, f, d, left) ==
    /\ m \in 0 .. d /\ DOMAIN plan = 1 .. m /\ plan \in Seq(Item)
    /\ TakesFrom(plan, m, bills, f) /\ Spends(plan, m, f, d, left)

\* Spend fills rows from the first on and never spends more than there is.
LEMMA SpendFills ==
  ASSUME NEW left \in Int, NEW d \in Nat, NEW bills \in [1 .. d -> Bills], NEW room,
         NEW f, \A k \in 1 .. d : f[k] = room[bills[k]] /\ f[k] \in Nat
  PROVE  \E m : Fills(Spend(left, bills, room), m, bills, f, d, left)
<1>1. PICK P : P = [k \in 0 .. d |-> SumOf(f, 1 .. k)]
  OBVIOUS
<1>2. /\ P[0] = 0 /\ \A k \in 0 .. d : P[k] \in Nat
      /\ \A k \in 1 .. d : P[k] = P[k - 1] + f[k]
      /\ \A j, k \in 0 .. d : j <= k => P[j] <= P[k]
  <2>1. /\ SumOf(f, 1 .. 0) = 0
        /\ \A k \in 0 .. d : SumOf(f, 1 .. k) \in Nat
        /\ \A k \in 1 .. d : SumOf(f, 1 .. k) = SumOf(f, 1 .. (k - 1)) + f[k]
        /\ \A j, k \in 0 .. d : j <= k => SumOf(f, 1 .. j) <= SumOf(f, 1 .. k)
    BY PrefixSums
  <2>2. \A k \in 1 .. d : k - 1 \in 0 .. d /\ k \in 0 .. d
    OBVIOUS
  <2> QED
    BY <1>1, <2>1, <2>2
<1>3. ASSUME NEW k \in 1 .. d PROVE RoomBefore(bills, room, k) = P[k - 1]
  <2>1. k - 1 \in 0 .. d /\ k \in Nat /\ \A j \in 1 .. (k - 1) : f[j] = room[bills[j]]
    OBVIOUS
  <2>2. RoomBefore(bills, room, k) = SumOf(f, 1 .. (k - 1))
    BY <2>1, RoomIsSum
  <2> QED
    BY <1>1, <2>1, <2>2
<1> DEFINE S == {k \in 1 .. d : P[k - 1] < left}
           amount(k) == IF f[k] <= left - P[k - 1] THEN f[k] ELSE left - P[k - 1]
<1>4. ASSUME NEW k \in S
      PROVE  Min({room[bills[k]], left - RoomBefore(bills, room, k)}) = amount(k)
  <2>1. f[k] \in Int /\ left - P[k - 1] \in Int
    BY <1>2
  <2>2. Min({f[k], left - P[k - 1]}) = amount(k)
    BY <2>1, LesserOfTwo
  <2> QED
    BY <1>3, <2>2
<1>5. PICK plan : plan = Spend(left, bills, room)
  OBVIOUS
<1>6. plan = [k \in S |-> [bill |-> bills[k], amount |-> amount(k)]]
  <2>1. {k \in DOMAIN bills : RoomBefore(bills, room, k) < left} = S
    BY <1>3
  <2>2. plan = [k \in S |-> [bill |-> bills[k],
                             amount |-> Min({room[bills[k]], left - RoomBefore(bills, room, k)})]]
    BY <1>5, <2>1 DEF Spend
  <2> HIDE DEF S, amount
  <2> QED
    BY <1>4, <2>2
<1> DEFINE Stops == {k \in 0 .. d : k = d \/ P[k] >= left}
<1>7. PICK m \in Stops : \A k \in Stops : m <= k
  <2>1. Stops \in SUBSET Nat /\ d \in Stops
    OBVIOUS
  <2> HIDE DEF Stops
  <2> QED
    BY <2>1, LeastNumber
<1>8. m \in 0 .. d /\ (m = d \/ P[m] >= left)
  OBVIOUS
<1>9. \A k \in 0 .. d : k < m => P[k] < left
  BY <1>2, <1>7, <1>8
<1>10. S = 1 .. m
  <2>1. ASSUME NEW k \in 1 .. m PROVE k \in S
    <3>1. k \in 1 .. d /\ k - 1 \in 0 .. d /\ k - 1 < m
      BY <1>8
    <3> QED
      BY <1>9, <3>1
  <2>2. ASSUME NEW k \in S, k > m PROVE FALSE
    <3>1. k \in 1 .. d /\ m \in 0 .. d /\ k - 1 \in 0 .. d /\ m <= k - 1 /\ P[k - 1] < left /\ m # d
      BY <1>8, <2>2
    <3>2. P[m] <= P[k - 1] /\ P[m] >= left
      BY <1>2, <1>8, <3>1
    <3> QED
      BY <1>2, <3>1, <3>2
  <2> QED
    BY <1>8, <2>1, <2>2
<1>12. ASSUME NEW k \in 1 .. m
       PROVE  k \in 1 .. d /\ k - 1 \in 0 .. d /\ P[k - 1] < left /\ f[k] \in Nat /\ P[k - 1] \in Nat
  <2>1. k \in 1 .. d /\ k - 1 \in 0 .. d
    BY <1>8
  <2>2. k \in S
    BY <1>10
  <2> QED
    BY <1>2, <2>1, <2>2
<1>13. ASSUME NEW k \in 1 .. m
       PROVE  amount(k) \in Nat /\ amount(k) <= f[k] /\ (f[k] > 0 => amount(k) > 0)
  <2>1. f[k] \in Nat /\ P[k - 1] \in Nat /\ P[k - 1] < left
    BY <1>12
  <2> QED
    BY <2>1
<1>14. plan = [k \in 1 .. m |-> [bill |-> bills[k], amount |-> amount(k)]]
  BY <1>6, <1>10
<1>15. plan \in Seq(Item)
  <2>1. \A k \in 1 .. m : [bill |-> bills[k], amount |-> amount(k)] \in Item
    BY <1>12, <1>13 DEF Item
  <2>2. m \in Nat
    BY <1>8
  <2> HIDE DEF amount
  <2>3. plan \in [1 .. m -> Item]
    BY <1>14, <2>1
  <2> QED
    BY <2>2, <2>3
<1>16. ASSUME NEW k \in 1 .. m, k < m PROVE amount(k) = f[k]
  <2>1. k \in 0 .. d /\ k \in 1 .. d
    BY <1>8, <1>16
  <2>2. P[k] < left /\ P[k] = P[k - 1] + f[k]
    BY <1>2, <1>9, <1>16, <2>1
  <2> HIDE DEF S, Stops
  <2>3. f[k] \in Nat /\ P[k - 1] \in Nat
    BY <1>12
  <2> QED
    BY <2>2, <2>3
<1>17. CASE m = 0
  <2>1. m = d \/ left <= 0
    BY <1>2, <1>8, <1>17
  <2> QED
    BY <1>5, <1>8, <1>14, <1>15, <1>17, <2>1 DEF Fills, TakesFrom, Spends
<1>18. CASE m > 0
  <2>1. m \in 1 .. m /\ m - 1 \in 0 .. d
    BY <1>8, <1>18
  <2>2. amount(m) = left - P[m - 1] \/ (amount(m) = f[m] /\ P[m] < left)
    <3>1. P[m] = P[m - 1] + f[m] /\ P[m - 1] \in Nat /\ f[m] \in Nat
      BY <1>2, <1>12, <2>1
    <3> QED
      BY <3>1
  <2>3. P[m] < left => m = d
    BY <1>2, <1>8
  <2>4. P[m - 1] = SumOf(f, 1 .. (m - 1))
    BY <1>1, <2>1
  <2>5. \A k \in 1 .. m : plan[k].bill = bills[k] /\ plan[k].amount = amount(k)
    <3> HIDE DEF amount
    <3> QED
      BY <1>14
  <2>6. \/ m = d /\ \A k \in 1 .. m : amount(k) = f[k]
        \/ amount(m) = left - SumOf(f, 1 .. (m - 1)) /\ \A k \in 1 .. (m - 1) : amount(k) = f[k]
    <3> HIDE DEF amount
    <3>1. \A k \in 1 .. (m - 1) : k \in 1 .. m /\ k < m
      BY <1>8
    <3>2. \A k \in 1 .. m : k = m \/ k < m
      BY <1>8
    <3>3. \A k \in 1 .. (m - 1) : amount(k) = f[k]
      BY <1>16, <3>1
    <3>4. CASE amount(m) = left - P[m - 1]
      BY <2>4, <3>3, <3>4
    <3>5. CASE amount(m) = f[m] /\ P[m] < left
      BY <1>16, <2>3, <3>2, <3>5
    <3> QED
      BY <2>2, <3>4, <3>5
  <2>7. DOMAIN plan = 1 .. m
    BY <1>14
  <2>8. \A k \in 1 .. (m - 1) : k \in 1 .. m
    BY <1>8
  <2> HIDE DEF amount
  <2>9. Spends(plan, m, f, d, left)
    BY <1>18, <2>1, <2>5, <2>6, <2>8 DEF Spends
  <2>10. TakesFrom(plan, m, bills, f)
    BY <1>13, <2>5 DEF TakesFrom
  <2>11. Fills(plan, m, bills, f, d, left)
    <3> HIDE DEF S, Stops
    <3>1. m \in 0 .. d
      BY <1>8
    <3> QED
      BY <3>1, <1>15, <2>7, <2>9, <2>10 DEF Fills
  <2> QED
    BY <1>5, <2>11
<1> QED
  BY <1>8, <1>17, <1>18

\* The sequences of all of a set.
LEMMA SequencesOfAll ==
  ASSUME NEW S, IsFiniteSet(S), NEW s \in SetToSeqs(S)
  PROVE  \E d \in Nat : /\ s \in [1 .. d -> S] /\ \A j, k \in 1 .. d : s[j] = s[k] => j = k
                        /\ \A x \in S : \E k \in 1 .. d : s[k] = x
<1>1. PICK d \in Nat : d = Cardinality(S)
  BY FS_CardinalityType
<1>2. s \in [1 .. d -> S] /\ \A j, k \in 1 .. d : j # k => s[j] # s[k]
  BY <1>1 DEF SetToSeqs
<1>3. s \in Injection(1 .. d, S)
  BY <1>2 DEF Injection, IsInjective
<1>4. Cardinality(1 .. d) = d
  BY FS_Interval
<1>5. s \in Surjection(1 .. d, S)
  BY <1>1, <1>3, <1>4, FS_Injection
<1> QED
  BY <1>2, <1>5 DEF Surjection

-----------------------------------------------------------------------------
(* Types: the shape of the rows, of what a transaction has written and of  *)
(* what it still has to do.                                                *)

BillRow == [status : Statuses, paid : Nat, credited : Nat]

RowsTyped ==
    /\ payment \in [Payments -> PayRow]
    /\ allocation \in [Pairs -> Nat] /\ stamp \in [Pairs -> Nat]
    /\ \A x \in Pairs : allocation[x] = 0 <=> stamp[x] = 0
    /\ invoice \in [Bills -> BillRow]
    /\ documents \in [refunds : [Payments -> Nat], notes : [Bills -> Nat]]

\* What a transaction that has written o sees of allocations and their stamps.
See(o) == Over(o.allocation, allocation)
StampOf(o) == Over(o.stamp, stamp)

OwnTyped(o) ==
    /\ DOMAIN o.payment \subseteq Payments
    /\ DOMAIN o.invoice \subseteq Bills /\ \A i \in DOMAIN o.invoice : o.invoice[i].paid \in Nat
    /\ DOMAIN o.allocation \subseteq Pairs /\ DOMAIN o.stamp = DOMAIN o.allocation
    /\ \A x \in DOMAIN o.allocation :
         o.allocation[x] \in Nat /\ o.stamp[x] \in Nat /\ (o.allocation[x] = 0 <=> o.stamp[x] = 0)

\* Only a payment and its allocations are written by one who pays or repays.
OwnPairs(t, o) ==
    \A x \in DOMAIN o.allocation :
       \/ t.kind \in Paying /\ o.allocation[x] > 0
       \/ t.kind \in Repaying /\ x[1] = t.p

Untouched(t, o) ==
    /\ t.pc \in {"idle", "insert", "freeze", "lock", "pick", "credit", "void"} => o = NoWrites
    /\ t.pc = "idle" => t = NoTx

ItemPcs == {"check", "upsert", "link", "sum", "sync", "release"}
ItemsTyped(t) ==
    t.pc \in ItemPcs =>
      /\ t.todo \in Seq(Item) /\ t.todo # <<>>
      /\ \A j, k \in DOMAIN t.todo : t.todo[j].bill = t.todo[k].bill => j = k
      /\ t.kind = "allocate" => \A k \in DOMAIN t.todo : t.todo[k].amount > 0
      /\ t.kind = "credit" => Len(t.todo) = 1 /\ t.todo[1].bill = t.bill
TxNumbers(t) ==
    t.paid \in Nat /\ t.left \in Int /\ (t.kind \in Paying => t.since \in Nat /\ t.since > 0)

\* What is left of an allocation that is released was there to begin with.
HeldBy(t, o) ==
    t.kind \in Repaying /\ t.pc \in {"release", "sum", "sync"} =>
      \A k \in DOMAIN t.todo : t.todo[k].amount > 0 => See(o)[<<t.p, t.todo[k].bill>>] > 0

WorkerTyped(t, o) ==
    OwnTyped(o) /\ OwnPairs(t, o) /\ Untouched(t, o) /\ ItemsTyped(t) /\ TxNumbers(t) /\ HeldBy(t, o)

TInv ==
    /\ IInv /\ RowsTyped /\ tries \in [Payments -> 0 .. Tries]
    /\ \A w \in Workers : WorkerTyped(tx[w], own[w])

\* A step of one worker that leaves the committed rows alone.
LEMMA TypedStep ==
  ASSUME TInv, IInv', NEW w \in Workers, NEW t, NEW o, UNCHANGED rows,
         tx' = [tx EXCEPT ![w] = t], own' = [own EXCEPT ![w] = o],
         tries' \in [Payments -> 0 .. Tries], WorkerTyped(t, o)
  PROVE  TInv'
<1>1. UNCHANGED <<payment, allocation, stamp, invoice, documents>>
  BY DEF rows
<1>2. RowsTyped'
  BY <1>1 DEF TInv, RowsTyped
<1>3. /\ tx'[w] = t /\ own'[w] = o
      /\ \A v \in Workers \ {w} : tx'[v] = tx[v] /\ own'[v] = own[v]
  BY DEF TInv, IInv
<1>4. ASSUME NEW v \in Workers PROVE WorkerTyped(tx[v], own[v])'
  <2>1. WorkerTyped(tx'[v], own'[v])
    BY <1>3 DEF TInv
  <2> QED
    BY <1>1, <2>1 DEF WorkerTyped, OwnTyped, OwnPairs, Untouched, ItemsTyped, TxNumbers, HeldBy, See
<1> QED
  BY <1>2, <1>4 DEF TInv

LEMMA EndTyped == WorkerTyped(NoTx, NoWrites)
<1>1. OwnTyped(NoWrites) /\ OwnPairs(NoTx, NoWrites)
  BY DEF OwnTyped, OwnPairs, NoWrites
<1> QED
  BY <1>1 DEF WorkerTyped, Untouched, ItemsTyped, TxNumbers, HeldBy, NoTx, ItemPcs, Paying, Repaying

\* A rollback.
LEMMA RefuseTyped ==
  ASSUME TInv, NEW w \in Workers, Refuse(w)
  PROVE  TInv'
<1>1. tx' = [tx EXCEPT ![w] = NoTx] /\ own' = [own EXCEPT ![w] = NoWrites] /\ UNCHANGED <<rows, tries>>
  BY DEF Refuse, End, Writes
<1>2. IInv' /\ tries' \in [Payments -> 0 .. Tries]
  BY <1>1, EndKeeps DEF TInv
<1> QED
  BY <1>1, <1>2, EndTyped, TypedStep

\* What is seen is a table of numbers, whose rows have a stamp.
LEMMA SeeTyped ==
  ASSUME RowsTyped, NEW o, OwnTyped(o)
  PROVE  /\ See(o) \in [Pairs -> Nat] /\ StampOf(o) \in [Pairs -> Nat]
         /\ \A x \in Pairs : See(o)[x] = 0 <=> StampOf(o)[x] = 0
         /\ \A x \in Pairs : See(o)[x] = IF x \in DOMAIN o.allocation THEN o.allocation[x] ELSE allocation[x]
<1>1. DOMAIN o.allocation \cup DOMAIN allocation = Pairs /\ DOMAIN o.stamp \cup DOMAIN stamp = Pairs
  BY DEF RowsTyped, OwnTyped
<1>2. See(o) = [x \in Pairs |-> IF x \in DOMAIN o.allocation THEN o.allocation[x] ELSE allocation[x]]
  BY <1>1 DEF See, Over
<1>3. StampOf(o) = [x \in Pairs |-> IF x \in DOMAIN o.allocation THEN o.stamp[x] ELSE stamp[x]]
  BY <1>1 DEF StampOf, Over, OwnTyped
<1> QED
  BY <1>2, <1>3 DEF OwnTyped, RowsTyped

\* The parts of a transaction that stay what they were when it began.
Alike(t, u) == t.kind = u.kind /\ t.p = u.p /\ t.bill = u.bill /\ t.amount = u.amount /\ t.since = u.since
Becomes(w, c, left, todo, paid) ==
    /\ tx' = [tx EXCEPT ![w] = tx'[w]] /\ IsTx(tx'[w]) /\ Alike(tx'[w], tx[w])
    /\ tx'[w].pc = c /\ tx'[w].left = left /\ tx'[w].todo = todo /\ tx'[w].paid = paid

\* The shapes in which a step changes its transaction.
LEMMA Becoming ==
  ASSUME IInv, NEW w \in Workers, NEW c
  PROVE  /\ tx' = [tx EXCEPT ![w].pc = c] => Becomes(w, c, tx[w].left, tx[w].todo, tx[w].paid)
         /\ \A x : tx' = [tx EXCEPT ![w].left = x, ![w].pc = c] =>
              Becomes(w, c, x, tx[w].todo, tx[w].paid)
         /\ \A x : tx' = [tx EXCEPT ![w].paid = x, ![w].pc = c] =>
              Becomes(w, c, tx[w].left, tx[w].todo, x)
         /\ \A x : tx' = [tx EXCEPT ![w].todo = x, ![w].pc = c] =>
              Becomes(w, c, tx[w].left, x, tx[w].paid)
         /\ \A x : tx' = [tx EXCEPT ![w].linked = x, ![w].pc = c] =>
              Becomes(w, c, tx[w].left, tx[w].todo, tx[w].paid)
         /\ \A x, y : tx' = [tx EXCEPT ![w].left = x, ![w].todo = y, ![w].pc = c] =>
              Becomes(w, c, x, y, tx[w].paid)
         /\ \A x, y : tx' = [tx EXCEPT ![w].todo = x, ![w].paid = y, ![w].pc = c] =>
              Becomes(w, c, tx[w].left, x, y)
<1>1. IsTx(tx[w]) /\ tx = [v \in Workers |-> tx[v]]
  BY DEF IInv, WorkerOK, TxTyped
<1>2. ASSUME tx' = [tx EXCEPT ![w].pc = c] PROVE Becomes(w, c, tx[w].left, tx[w].todo, tx[w].paid)
  BY <1>1, <1>2 DEF Becomes, Alike, IsTx
<1>3. ASSUME NEW x, tx' = [tx EXCEPT ![w].left = x, ![w].pc = c]
      PROVE  Becomes(w, c, x, tx[w].todo, tx[w].paid)
  BY <1>1, <1>3 DEF Becomes, Alike, IsTx
<1>4. ASSUME NEW x, tx' = [tx EXCEPT ![w].paid = x, ![w].pc = c]
      PROVE  Becomes(w, c, tx[w].left, tx[w].todo, x)
  BY <1>1, <1>4 DEF Becomes, Alike, IsTx
<1>5. ASSUME NEW x, tx' = [tx EXCEPT ![w].todo = x, ![w].pc = c]
      PROVE  Becomes(w, c, tx[w].left, x, tx[w].paid)
  BY <1>1, <1>5 DEF Becomes, Alike, IsTx
<1>6. ASSUME NEW x, tx' = [tx EXCEPT ![w].linked = x, ![w].pc = c]
      PROVE  Becomes(w, c, tx[w].left, tx[w].todo, tx[w].paid)
  BY <1>1, <1>6 DEF Becomes, Alike, IsTx
<1>7. ASSUME NEW x, NEW y, tx' = [tx EXCEPT ![w].left = x, ![w].todo = y, ![w].pc = c]
      PROVE  Becomes(w, c, x, y, tx[w].paid)
  BY <1>1, <1>7 DEF Becomes, Alike, IsTx
<1>8. ASSUME NEW x, NEW y, tx' = [tx EXCEPT ![w].todo = x, ![w].paid = y, ![w].pc = c]
      PROVE  Becomes(w, c, tx[w].left, x, y)
  BY <1>1, <1>8 DEF Becomes, Alike, IsTx
<1> QED
  BY <1>2, <1>3, <1>4, <1>5, <1>6, <1>7, <1>8

-----------------------------------------------------------------------------
(* What a write does to what a transaction has written. *)

\* An allocation, an invoice, a payment.
LEMMA OwnAfterPair ==
  ASSUME TInv, NEW w \in Workers, NEW x \in Pairs, NEW n \in Nat, NEW s \in Nat, n = 0 <=> s = 0,
         WritePair(w, x, n, s)
  PROVE  /\ own' = [own EXCEPT ![w] = own'[w]] /\ OwnTyped(own'[w])
         /\ own'[w].payment = own[w].payment /\ own'[w].invoice = own[w].invoice
         /\ DOMAIN own'[w].allocation = DOMAIN own[w].allocation \cup {x}
         /\ own'[w].allocation[x] = n
         /\ \A y \in DOMAIN own[w].allocation : y # x => own'[w].allocation[y] = own[w].allocation[y]
         /\ See(own'[w]) = [See(own[w]) EXCEPT ![x] = n]
<1>1. PICK o : o = own[w]
  OBVIOUS
<1>2. IsOwn(o) /\ own = [v \in Workers |-> own[v]] /\ OwnTyped(o)
  BY <1>1 DEF TInv, IInv, WorkerOK, WorkerTyped
<1>3. PICK q : q = own'[w]
  OBVIOUS
<1>4. /\ own' = [own EXCEPT ![w] = q] /\ IsOwn(q) /\ q.payment = o.payment /\ q.invoice = o.invoice
      /\ q.allocation = Put(o.allocation, x, n) /\ q.stamp = Put(o.stamp, x, s)
  BY <1>1, <1>2, <1>3 DEF WritePair, IsOwn
<1>5. /\ DOMAIN q.allocation = DOMAIN o.allocation \cup {x} /\ DOMAIN q.stamp = DOMAIN o.stamp \cup {x}
      /\ q.allocation[x] = n /\ q.stamp[x] = s
      /\ \A y \in DOMAIN o.allocation : y # x => q.allocation[y] = o.allocation[y]
      /\ \A y \in DOMAIN o.stamp : y # x => q.stamp[y] = o.stamp[y]
  BY <1>4 DEF Put
<1>6. OwnTyped(q)
  BY <1>2, <1>4, <1>5 DEF OwnTyped
<1>7. RowsTyped
  BY DEF TInv
<1>8. See(q) = [See(o) EXCEPT ![x] = n]
  BY <1>2, <1>5, <1>6, <1>7, SeeTyped
<1> QED
  BY <1>1, <1>3, <1>4, <1>5, <1>6, <1>8

LEMMA OwnAfterInvoice ==
  ASSUME TInv, NEW w \in Workers, NEW i \in Bills, NEW row, row.paid \in Nat, WriteInvoice(w, i, row)
  PROVE  /\ own' = [own EXCEPT ![w] = own'[w]] /\ OwnTyped(own'[w])
         /\ own'[w].payment = own[w].payment
         /\ own'[w].allocation = own[w].allocation /\ own'[w].stamp = own[w].stamp
         /\ own'[w].invoice = Put(own[w].invoice, i, row)
         /\ See(own'[w]) = See(own[w])
<1>1. PICK o : o = own[w]
  OBVIOUS
<1>2. IsOwn(o) /\ own = [v \in Workers |-> own[v]] /\ OwnTyped(o)
  BY <1>1 DEF TInv, IInv, WorkerOK, WorkerTyped
<1>3. PICK q : q = own'[w]
  OBVIOUS
<1>4. /\ own' = [own EXCEPT ![w] = q] /\ IsOwn(q) /\ q.payment = o.payment
      /\ q.allocation = o.allocation /\ q.stamp = o.stamp /\ q.invoice = Put(o.invoice, i, row)
  BY <1>1, <1>2, <1>3 DEF WriteInvoice, IsOwn
<1>5. OwnTyped(q)
  BY <1>2, <1>4 DEF OwnTyped, Put
<1>6. See(q) = See(o)
  BY <1>4 DEF See
<1> QED
  BY <1>1, <1>3, <1>4, <1>5, <1>6

LEMMA OwnAfterPayment ==
  ASSUME TInv, NEW w \in Workers, NEW p \in Payments, NEW row, WritePayment(w, p, row)
  PROVE  /\ own' = [own EXCEPT ![w] = own'[w]] /\ OwnTyped(own'[w])
         /\ own'[w].invoice = own[w].invoice
         /\ own'[w].allocation = own[w].allocation /\ own'[w].stamp = own[w].stamp
         /\ own'[w].payment = Put(own[w].payment, p, row)
         /\ See(own'[w]) = See(own[w])
<1>1. PICK o : o = own[w]
  OBVIOUS
<1>2. IsOwn(o) /\ own = [v \in Workers |-> own[v]] /\ OwnTyped(o)
  BY <1>1 DEF TInv, IInv, WorkerOK, WorkerTyped
<1>3. PICK q : q = own'[w]
  OBVIOUS
<1>4. /\ own' = [own EXCEPT ![w] = q] /\ IsOwn(q) /\ q.invoice = o.invoice
      /\ q.allocation = o.allocation /\ q.stamp = o.stamp /\ q.payment = Put(o.payment, p, row)
  BY <1>1, <1>2, <1>3 DEF WritePayment, IsOwn
<1>5. OwnTyped(q)
  BY <1>2, <1>4 DEF OwnTyped, Put
<1>6. See(q) = See(o)
  BY <1>4 DEF See
<1> QED
  BY <1>1, <1>3, <1>4, <1>5, <1>6

\* What a transaction sees has the types of the rows.
LEMMA PaymentIsTyped ==
  ASSUME TInv, NEW w \in Workers, NEW p \in Payments
  PROVE  /\ IsPayment(PaymentSeen(w, p)) /\ Worth(PaymentSeen(w, p)) \in Nat
         /\ p \notin DOMAIN own[w].payment => PaymentSeen(w, p) = payment[p]
<1>1. PaymentSeen(w, p) = IF p \in DOMAIN own[w].payment THEN own[w].payment[p] ELSE payment[p]
  BY OverRow DEF PaymentSeen, TInv, IInv, Committed
<1>2. IsPayment(PaymentSeen(w, p))
  BY <1>1 DEF TInv, IInv, Committed, WorkerOK, PaymentWritten
<1> QED
  BY <1>1, <1>2 DEF IsPayment, PayRow, Worth

LEMMA InvoiceIsTyped ==
  ASSUME TInv, NEW w \in Workers, NEW i \in Bills
  PROVE  /\ IsInvoice(InvoiceSeen(w, i)) /\ InvoiceSeen(w, i).paid \in Nat
         /\ InvoiceSeen(w, i) = IF i \in DOMAIN own[w].invoice THEN own[w].invoice[i] ELSE invoice[i]
<1>1. InvoiceSeen(w, i) = IF i \in DOMAIN own[w].invoice THEN own[w].invoice[i] ELSE invoice[i]
  BY OverRow DEF InvoiceSeen, TInv, IInv, Committed
<1>2. IsInvoice(InvoiceSeen(w, i))
  BY SeenInvoice DEF TInv
<1> QED
  BY <1>1, <1>2 DEF TInv, RowsTyped, BillRow, WorkerTyped, OwnTyped

LEMMA SeenTyped ==
  ASSUME TInv, NEW w \in Workers
  PROVE  /\ Seen(w) = See(own[w]) /\ Seen(w) \in [Pairs -> Nat] /\ StampSeen(w) \in [Pairs -> Nat]
         /\ \A x \in Pairs : Seen(w)[x] = 0 <=> StampSeen(w)[x] = 0
         /\ \A p \in Payments : AllocatedIn(Seen(w), p) \in Nat
         /\ \A i \in Bills : PaidIn(Seen(w), i) \in Nat
<1>1. Seen(w) = See(own[w]) /\ StampSeen(w) = StampOf(own[w])
  BY DEF Seen, See, StampSeen, StampOf
<1>2. RowsTyped /\ OwnTyped(own[w])
  BY DEF TInv, WorkerTyped
<1> QED
  BY <1>1, <1>2, SeeTyped, SumsAreNats

-----------------------------------------------------------------------------
(* Steps that write nothing. *)

\* A step that writes nothing keeps the types if it keeps those of its own
\* transaction.
LEMMA ReadTyped ==
  ASSUME TInv, IInv', NEW w \in Workers, UNCHANGED <<rows, tries, own>>,
         NEW c, NEW left \in Int, NEW todo, NEW paid \in Nat, Becomes(w, c, left, todo, paid),
         \A t : /\ Alike(t, tx[w]) /\ t.pc = c /\ t.todo = todo
                => ItemsTyped(t) /\ HeldBy(t, own[w]),
         c \in {"insert", "freeze", "lock", "pick", "credit", "void"} => own[w] = NoWrites,
         c # "idle"
  PROVE  TInv'
<1>1. PICK t : t = tx'[w]
  OBVIOUS
<1>2. /\ tx' = [tx EXCEPT ![w] = t] /\ Alike(t, tx[w])
      /\ t.pc = c /\ t.left = left /\ t.todo = todo /\ t.paid = paid
  BY <1>1 DEF Becomes
<1>3. WorkerTyped(tx[w], own[w]) /\ own' = [own EXCEPT ![w] = own[w]]
  BY DEF TInv, IInv
<1>4. OwnPairs(t, own[w]) /\ TxNumbers(t)
  BY <1>2, <1>3 DEF WorkerTyped, OwnPairs, TxNumbers, Alike
<1>5. Untouched(t, own[w])
  BY <1>2 DEF Untouched
<1>6. ItemsTyped(t) /\ HeldBy(t, own[w])
  BY <1>2
<1>7. WorkerTyped(t, own[w])
  BY <1>3, <1>4, <1>5, <1>6 DEF WorkerTyped
<1>8. tries' \in [Payments -> 0 .. Tries] /\ UNCHANGED rows
  BY DEF TInv
<1> QED
  BY <1>2, <1>3, <1>7, <1>8, TypedStep

LEMMA NoItems == ASSUME NEW t, NEW o, t.pc \notin ItemPcs PROVE ItemsTyped(t) /\ HeldBy(t, o)
BY DEF ItemsTyped, HeldBy, ItemPcs

\* What TInv says of a transaction.
LEMMA TxNumbersOf ==
  ASSUME TInv, NEW w \in Workers
  PROVE  /\ tx[w].left \in Int /\ tx[w].paid \in Nat /\ IInv
         /\ tx[w].kind \in Paying => tx[w].since \in Nat /\ tx[w].since > 0
         /\ tx[w].kind \in Paying \cup Repaying => tx[w].p \in Payments
         /\ tx[w].kind \in {"credit", "void"} => tx[w].bill \in Bills
         /\ tx[w].amount \in Nat /\ Reaches(tx[w].kind, tx[w].pc)
BY DEF TInv, IInv, WorkerTyped, TxNumbers, WorkerOK, TxTyped

LEMMA ReadUnallocatedTyped ==
  ASSUME TInv, IInv', NEW w \in Workers, ReadUnallocated(w), ~Refuse(w)
  PROVE  TInv'
<1>1. tx[w].kind = "allocate" /\ tx[w].p \in Payments
  BY TxNumbersOf DEF ReadUnallocated, At, Reaches, Paying, Repaying
<1>2. PICK left : left = Worth(PaymentSeen(w, tx[w].p)) - AllocatedIn(Seen(w), tx[w].p)
  OBVIOUS
<1>3. left \in Int
  BY <1>1, <1>2, PaymentIsTyped, SeenTyped
<1>4. PICK c : /\ tx' = [tx EXCEPT ![w].left = left, ![w].pc = c]
               /\ c \in {"done", "plan", "prefer"} /\ UNCHANGED <<rows, tries, own>>
  BY <1>2 DEF ReadUnallocated, Reads
<1>5. Becomes(w, c, left, tx[w].todo, tx[w].paid)
  BY <1>4, TxNumbersOf, Becoming
<1>6. \A t : t.pc = c => ItemsTyped(t) /\ HeldBy(t, own[w])
  BY <1>4, NoItems DEF ItemPcs
<1> QED
  BY <1>3, <1>4, <1>5, <1>6, TxNumbersOf, ReadTyped

LEMMA CheckPreferredTyped ==
  ASSUME TInv, IInv', NEW w \in Workers, CheckPreferred(w), ~Refuse(w)
  PROVE  TInv'
<1>1. tx' = [tx EXCEPT ![w].pc = "plan"] /\ UNCHANGED <<rows, tries, own>>
  BY DEF CheckPreferred, Goto, Reads
<1>2. Becomes(w, "plan", tx[w].left, tx[w].todo, tx[w].paid)
  BY <1>1, TxNumbersOf, Becoming
<1>3. \A t : t.pc = "plan" => ItemsTyped(t) /\ HeldBy(t, own[w])
  BY NoItems DEF ItemPcs
<1> QED
  BY <1>1, <1>2, <1>3, TxNumbersOf, ReadTyped

\* The plan of an allocation, with d open invoices and the room f of each.
LEMMA Planned ==
  ASSUME TInv, NEW w \in Workers, NEW open \in OldestFirst(w)
  PROVE  \E d, f, m :
           /\ d \in Nat /\ open \in [1 .. d -> Bills] /\ \A j, k \in 1 .. d : open[j] = open[k] => j = k
           /\ \A k \in 1 .. d : f[k] = Balance(open[k], InvoiceSeen(w, open[k])) /\ f[k] \in Nat /\ f[k] > 0
           /\ Fills(Spend(tx[w].left, open, [i \in Bills |-> Balance(i, InvoiceSeen(w, i))]),
                    m, open, f, d, tx[w].left)
<1>1. PICK S : S = {i \in Bills : Payable(w, i)}
  OBVIOUS
<1>2. IsFiniteSet(S) /\ open \in SetToSeqs(S)
  <2>1. S \in SUBSET Bills
    BY <1>1
  <2> QED
    BY <1>1, <2>1, BillsAreFinite, FS_Subset DEF OldestFirst
<1>3. PICK d \in Nat : open \in [1 .. d -> S] /\ \A j, k \in 1 .. d : open[j] = open[k] => j = k
  BY <1>2, SequencesOfAll
<1>4. open \in [1 .. d -> Bills]
  BY <1>1, <1>3
<1>5. PICK room : room = [i \in Bills |-> Balance(i, InvoiceSeen(w, i))]
  OBVIOUS
<1>6. PICK f : f = [k \in 1 .. d |-> room[open[k]]]
  OBVIOUS
<1>7. ASSUME NEW k \in 1 .. d
      PROVE  f[k] = room[open[k]] /\ f[k] = Balance(open[k], InvoiceSeen(w, open[k])) /\ f[k] \in Nat /\ f[k] > 0
  <2>1. PICK i \in Bills : i = open[k] /\ Payable(w, i)
    BY <1>1, <1>3
  <2>2. f[k] = room[open[k]] /\ f[k] = Balance(i, InvoiceSeen(w, i))
    BY <1>5, <1>6, <2>1
  <2>3. IsInvoice(InvoiceSeen(w, i)) /\ InvoiceSeen(w, i).paid \in Nat /\ Total[i] \in Nat
    BY InvoiceIsTyped, TotalsArePositive
  <2>4. Balance(i, InvoiceSeen(w, i)) \in Int /\ Balance(i, InvoiceSeen(w, i)) > 0
    BY <2>1, <2>3 DEF IsInvoice, Balance, Payable
  <2> QED
    BY <2>1, <2>2, <2>4
<1>8. tx[w].left \in Int
  BY TxNumbersOf
<1>9. PICK m : Fills(Spend(tx[w].left, open, room), m, open, f, d, tx[w].left)
  BY <1>4, <1>7, <1>8, SpendFills
<1> QED
  BY <1>3, <1>4, <1>5, <1>7, <1>9

\* A plan lists invoices, each once, and a positive amount for each.
LEMMA PlanTyped ==
  ASSUME TInv, IInv', NEW w \in Workers, PlanAllocations(w)
  PROVE  TInv'
<1>1. tx[w].kind = "allocate"
  BY TxNumbersOf DEF PlanAllocations, At, Reaches, Paying, Repaying
<1>2. PICK open, plan :
        /\ open \in OldestFirst(w) /\ plan = Spend(tx[w].left, open, [i \in Bills |-> Balance(i, InvoiceSeen(w, i))])
        /\ tx' = [tx EXCEPT ![w].left = 0, ![w].todo = plan, ![w].pc = IF plan = <<>> THEN "done" ELSE "check"]
  BY DEF PlanAllocations
<1>3. PICK c : c = IF plan = <<>> THEN "done" ELSE "check"
  OBVIOUS
<1>4. Becomes(w, c, 0, plan, tx[w].paid)
  BY <1>2, <1>3, TxNumbersOf, Becoming
<1>5. PICK d, f, m :
           /\ d \in Nat /\ open \in [1 .. d -> Bills] /\ \A j, k \in 1 .. d : open[j] = open[k] => j = k
           /\ \A k \in 1 .. d : f[k] \in Nat /\ f[k] > 0
           /\ Fills(plan, m, open, f, d, tx[w].left)
  BY <1>2, Planned
<1>6. plan \in Seq(Item) /\ DOMAIN plan = 1 .. m /\ m \in 0 .. d
  BY <1>5 DEF Fills
<1>7. \A k \in 1 .. m : k \in 1 .. d /\ plan[k].bill = open[k] /\ plan[k].amount > 0
  BY <1>5, <1>6 DEF Fills, TakesFrom
<1>8. \A j, k \in DOMAIN plan : plan[j].bill = plan[k].bill => j = k
  BY <1>5, <1>6, <1>7
<1>9. ASSUME NEW t, Alike(t, tx[w]), t.pc = c, t.todo = plan PROVE ItemsTyped(t) /\ HeldBy(t, own[w])
  <2>1. t.kind = "allocate"
    BY <1>1, <1>9 DEF Alike
  <2> QED
    BY <1>3, <1>6, <1>7, <1>8, <1>9, <2>1 DEF ItemsTyped, HeldBy, Repaying, ItemPcs
<1>10. c \in {"done", "check"} /\ UNCHANGED <<rows, tries, own>>
  BY <1>3 DEF PlanAllocations, Reads
<1> QED
  BY <1>4, <1>9, <1>10, TxNumbersOf, ReadTyped

\* A transaction that goes on with the same list.
LEMMA CarriesOn ==
  ASSUME TInv, NEW w \in Workers, tx[w].pc \in ItemPcs, NEW c \in ItemPcs,
         tx[w].kind \in Repaying => tx[w].pc \in {"release", "sum", "sync"},
         NEW t, Alike(t, tx[w]), t.pc = c, t.todo = tx[w].todo
  PROVE  ItemsTyped(t) /\ HeldBy(t, own[w])
<1>1. WorkerTyped(tx[w], own[w])
  BY DEF TInv
<1> QED
  BY <1>1 DEF WorkerTyped, ItemsTyped, HeldBy, Alike

LEMMA CheckAllocationTyped ==
  ASSUME TInv, IInv', NEW w \in Workers, CheckAllocation(w) \/ LinkAllocation(w) \/ SumPaid(w), ~Refuse(w)
  PROVE  TInv'
<1>1. UNCHANGED <<rows, tries, own>> /\ tx[w].pc \in {"check", "link", "sum"}
  BY DEF CheckAllocation, LinkAllocation, SumPaid, Reads, At
<1>2. tx[w].kind \in Repaying => tx[w].pc = "sum"
  BY <1>1, TxNumbersOf DEF Reaches, Paying, Repaying
<1>3. PICK c, paid :
        /\ c \in {"upsert", "sum", "sync"} /\ paid \in Nat
        /\ Becomes(w, c, tx[w].left, tx[w].todo, paid)
  <2>1. CASE CheckAllocation(w)
    BY <2>1, TxNumbersOf, Becoming DEF CheckAllocation, Goto
  <2>2. CASE LinkAllocation(w)
    <3>1. PICK x : tx' = [tx EXCEPT ![w].linked = x, ![w].pc = "sum"]
      BY <2>2 DEF LinkAllocation
    <3> QED
      BY <3>1, TxNumbersOf, Becoming
  <2>3. CASE SumPaid(w)
    <3>1. PICK paid : paid = PaidIn(Seen(w), Head(tx[w].todo).bill)
      OBVIOUS
    <3>2. tx[w].todo \in Seq(Item) /\ tx[w].todo # <<>>
      BY <2>3 DEF SumPaid, At, TInv, WorkerTyped, ItemsTyped, ItemPcs
    <3>3. Head(tx[w].todo).bill \in Bills
      <4>1. Head(tx[w].todo) \in Item
        BY <3>2
      <4> QED
        BY <4>1 DEF Item
    <3>4. paid \in Nat
      BY <3>1, <3>3, SeenTyped
    <3>5. tx' = [tx EXCEPT ![w].paid = paid, ![w].pc = "sync"]
      BY <2>3, <3>1 DEF SumPaid
    <3> QED
      BY <3>4, <3>5, TxNumbersOf, Becoming
  <2> QED
    BY <2>1, <2>2, <2>3
<1>4. tx[w].pc \in ItemPcs /\ c \in ItemPcs
  BY <1>1, <1>3 DEF ItemPcs
<1>5. \A t : Alike(t, tx[w]) /\ t.pc = c /\ t.todo = tx[w].todo => ItemsTyped(t) /\ HeldBy(t, own[w])
  BY <1>2, <1>4, CarriesOn
<1> QED
  BY <1>1, <1>3, <1>5, TxNumbersOf, ReadTyped

LEMMA LockTyped ==
  ASSUME TInv, IInv', NEW w \in Workers, LockPayment(w) \/ LockInvoice(w), ~Refuse(w)
  PROVE  TInv'
<1>1. UNCHANGED <<rows, tries, own>> /\ tx[w].pc \in {"lock", "freeze"} /\ own[w] = NoWrites
  BY DEF LockPayment, LockInvoice, Reads, At, TInv, WorkerTyped, Untouched
<1>2. PICK c, left :
        /\ c \in {"pick", "credit", "lock"} /\ left \in Int
        /\ Becomes(w, c, left, tx[w].todo, tx[w].paid)
  <2>1. CASE LockPayment(w)
    <3>1. PICK c : Goto(w, c) /\ c \in {"pick", "credit"}
      BY <2>1 DEF LockPayment
    <3> QED
      BY <3>1, TxNumbersOf, Becoming DEF Goto
  <2>2. CASE LockInvoice(w)
    <3>1. tx[w].bill \in Bills
      BY <2>2, TxNumbersOf DEF LockInvoice, At, Reaches, Paying, Repaying
    <3>2. PICK left : left = Total[tx[w].bill] - invoice[tx[w].bill].credited
      OBVIOUS
    <3>3. left \in Int
      BY <3>1, <3>2, TotalsArePositive DEF TInv, RowsTyped, BillRow
    <3>4. tx' = [tx EXCEPT ![w].left = left, ![w].pc = "lock"]
      BY <2>2, <3>2 DEF LockInvoice
    <3> QED
      BY <3>3, <3>4, TxNumbersOf, Becoming
  <2> QED
    BY <2>1, <2>2
<1>3. \A t : t.pc = c => ItemsTyped(t) /\ HeldBy(t, own[w])
  BY <1>2, NoItems DEF ItemPcs
<1> QED
  BY <1>1, <1>2, <1>3, TxNumbersOf, ReadTyped

\* What a refund picks: the allocations of its payment, in some order of all
\* of them, and of each what is left of it.
Picks(p, seen, d, order, f, m, takes, leaves, amount) ==
    /\ d \in Nat /\ order \in [1 .. d -> Bills] /\ \A j, k \in 1 .. d : order[j] = order[k] => j = k
    /\ \A k \in 1 .. d : f[k] = seen[<<p, order[k]>>] /\ f[k] \in Nat /\ f[k] > 0
    /\ \A i \in Bills : seen[<<p, i>>] > 0 => \E k \in 1 .. d : order[k] = i
    /\ Fills(takes, m, order, f, d, amount)
    /\ leaves \in Seq(Item) /\ DOMAIN leaves = 1 .. m
    /\ \A k \in 1 .. m : leaves[k].bill = order[k] /\ leaves[k].amount = f[k] - takes[k].amount

\* PickAllocations in terms of Picks.
LEMMA Picked ==
  ASSUME TInv, NEW w \in Workers, PickAllocations(w)
  PROVE  \E d, order, f, m, takes, leaves :
           /\ Picks(tx[w].p, Seen(w), d, order, f, m, takes, leaves, tx[w].amount)
           /\ tx' = [tx EXCEPT ![w].todo = leaves, ![w].pc = IF leaves = <<>> THEN "repay" ELSE "release"]
<1> DEFINE Held == [i \in Bills |-> Seen(w)[<<tx[w].p, i>>]]
           Taken(o) == Spend(tx[w].amount, o, Held)
           Left(o) == [k \in DOMAIN Taken(o) |-> [Taken(o)[k] EXCEPT !.amount = Held[Taken(o)[k].bill] - @]]
<1>0. PICK order \in NewestFirst(w, tx[w].p) :
        tx' = [tx EXCEPT ![w].todo = Left(order), ![w].pc = IF Left(order) = <<>> THEN "repay" ELSE "release"]
  BY DEF PickAllocations
<1>a. PICK held : held = Held
  OBVIOUS
<1>b. PICK takes : takes = Taken(order)
  OBVIOUS
<1>c. PICK leaves : leaves = Left(order)
  OBVIOUS
<1>1. /\ held = [i \in Bills |-> Seen(w)[<<tx[w].p, i>>]]
      /\ takes = Spend(tx[w].amount, order, held)
      /\ leaves = [k \in DOMAIN takes |-> [takes[k] EXCEPT !.amount = held[takes[k].bill] - @]]
      /\ tx' = [tx EXCEPT ![w].todo = leaves, ![w].pc = IF leaves = <<>> THEN "repay" ELSE "release"]
  <2>1. leaves = [k \in DOMAIN takes |-> [takes[k] EXCEPT !.amount = held[takes[k].bill] - @]]
    BY <1>a, <1>b, <1>c
  <2>2. takes = Spend(tx[w].amount, order, held)
    BY <1>a, <1>b
  <2>3. tx' = [tx EXCEPT ![w].todo = leaves, ![w].pc = IF leaves = <<>> THEN "repay" ELSE "release"]
    <3> HIDE DEF Left
    <3> QED
      BY <1>0, <1>c
  <2> HIDE DEF Left, Taken
  <2> QED
    BY <1>a, <2>1, <2>2, <2>3
<1> HIDE DEF Left, Taken, Held
<1>2. PICK p : p = tx[w].p
  OBVIOUS
<1>3. p \in Payments /\ tx[w].amount \in Int
  BY <1>2, TxNumbersOf DEF PickAllocations, At, Reaches, Paying, Repaying
<1>4. PICK seen \in [Pairs -> Nat] : seen = Seen(w)
  BY SeenTyped
<1>5. PICK S : S = {i \in Bills : seen[<<p, i>>] > 0}
  OBVIOUS
<1>6. IsFiniteSet(S) /\ order \in SetToSeqs(S)
  <2>1. S \in SUBSET Bills
    BY <1>5
  <2> QED
    BY <1>1, <1>2, <1>4, <1>5, <2>1, BillsAreFinite, FS_Subset DEF NewestFirst
<1>7. PICK d \in Nat : /\ order \in [1 .. d -> S] /\ \A j, k \in 1 .. d : order[j] = order[k] => j = k
                       /\ \A x \in S : \E k \in 1 .. d : order[k] = x
  BY <1>6, SequencesOfAll
<1>8. PICK f : f = [k \in 1 .. d |-> held[order[k]]]
  OBVIOUS
<1>9. ASSUME NEW k \in 1 .. d
      PROVE  /\ order[k] \in Bills /\ f[k] = held[order[k]] /\ f[k] = seen[<<p, order[k]>>]
             /\ f[k] \in Nat /\ f[k] > 0
  BY <1>1, <1>2, <1>3, <1>4, <1>5, <1>7, <1>8 DEF Pairs
<1>10. order \in [1 .. d -> Bills]
  BY <1>7, <1>9
<1>11. PICK m : Fills(takes, m, order, f, d, tx[w].amount)
  BY <1>1, <1>3, <1>9, <1>10, SpendFills
<1>12. /\ m \in 0 .. d /\ DOMAIN takes = 1 .. m /\ takes \in Seq(Item)
       /\ \A k \in 1 .. m : takes[k].bill = order[k] /\ takes[k].amount \in Nat /\ takes[k].amount <= f[k]
  BY <1>11 DEF Fills, TakesFrom
<1>13. ASSUME NEW k \in 1 .. m
       PROVE  leaves[k] = [bill |-> order[k], amount |-> f[k] - takes[k].amount] /\ leaves[k] \in Item
  <2>1. takes[k] \in Item /\ k \in 1 .. d
    BY <1>12
  <2>0. /\ f[k] \in Nat /\ takes[k].amount \in Nat /\ takes[k].amount <= f[k] /\ order[k] \in Bills
    BY <1>9, <1>12, <2>1
  <2>2. leaves[k] = [takes[k] EXCEPT !.amount = held[takes[k].bill] - @]
    BY <1>1, <1>12
  <2>3. held[takes[k].bill] = f[k] /\ takes[k].bill = order[k]
    BY <1>9, <1>12, <2>1
  <2>4. leaves[k] = [bill |-> order[k], amount |-> f[k] - takes[k].amount]
    BY <2>1, <2>2, <2>3 DEF Item
  <2>5. f[k] - takes[k].amount \in Nat /\ order[k] \in Bills
    BY <2>0
  <2> QED
    BY <2>4, <2>5 DEF Item
<1>14. DOMAIN leaves = 1 .. m /\ leaves \in [1 .. m -> Item]
  BY <1>1, <1>12, <1>13
<1>15. leaves \in Seq(Item)
  <2>1. m \in Nat
    BY <1>12
  <2> QED
    BY <1>14, <2>1
<1>16. \A i \in Bills : seen[<<p, i>>] > 0 => \E k \in 1 .. d : order[k] = i
  BY <1>5, <1>7
<1>17. ASSUME NEW k \in 1 .. m PROVE leaves[k].bill = order[k] /\ leaves[k].amount = f[k] - takes[k].amount
  <2>1. leaves[k] = [bill |-> order[k], amount |-> f[k] - takes[k].amount]
    BY <1>13
  <2> QED
    BY <2>1
<1>18. Picks(p, seen, d, order, f, m, takes, leaves, tx[w].amount)
  BY <1>7, <1>9, <1>10, <1>11, <1>14, <1>15, <1>16, <1>17 DEF Picks
<1> QED
  BY <1>1, <1>2, <1>4, <1>18

LEMMA PickTyped ==
  ASSUME TInv, IInv', NEW w \in Workers, PickAllocations(w)
  PROVE  TInv'
<1>1. tx[w].kind = "refund" /\ tx[w].p \in Payments /\ UNCHANGED <<rows, tries, own>>
  BY TxNumbersOf DEF PickAllocations, At, Reaches, Paying, Repaying, Reads
<1>2. PICK d, order, f, m, takes, leaves :
           /\ Picks(tx[w].p, Seen(w), d, order, f, m, takes, leaves, tx[w].amount)
           /\ tx' = [tx EXCEPT ![w].todo = leaves, ![w].pc = IF leaves = <<>> THEN "repay" ELSE "release"]
  BY Picked
<1>3. PICK c : c = IF leaves = <<>> THEN "repay" ELSE "release"
  OBVIOUS
<1>4. Becomes(w, c, tx[w].left, leaves, tx[w].paid)
  BY <1>2, <1>3, TxNumbersOf, Becoming
<1>5. leaves \in Seq(Item) /\ DOMAIN leaves = 1 .. m /\ m \in 0 .. d /\ d \in Nat
  BY <1>2 DEF Picks, Fills
<1>6. \A k \in 1 .. m : k \in 1 .. d /\ leaves[k].bill = order[k] /\ f[k] = Seen(w)[<<tx[w].p, order[k]>>] /\ f[k] > 0
  BY <1>2, <1>5 DEF Picks
<1>7. \A j, k \in DOMAIN leaves : leaves[j].bill = leaves[k].bill => j = k
  <2>1. \A j, k \in 1 .. d : order[j] = order[k] => j = k
    BY <1>2 DEF Picks
  <2> SUFFICES ASSUME NEW j \in 1 .. m, NEW k \in 1 .. m, leaves[j].bill = leaves[k].bill PROVE j = k
    BY <1>5
  <2>2. j \in 1 .. d /\ k \in 1 .. d /\ order[j] = order[k]
    BY <1>6
  <2> QED
    BY <2>1, <2>2
<1>8. \A k \in DOMAIN leaves : See(own[w])[<<tx[w].p, leaves[k].bill>>] > 0
  BY <1>5, <1>6, SeenTyped
<1>9. ASSUME NEW t, Alike(t, tx[w]), t.pc = c, t.todo = leaves PROVE ItemsTyped(t) /\ HeldBy(t, own[w])
  <2>1. t.kind = "refund" /\ t.p = tx[w].p
    BY <1>1, <1>9 DEF Alike
  <2> QED
    BY <1>3, <1>5, <1>7, <1>8, <1>9, <2>1 DEF ItemsTyped, HeldBy, ItemPcs
<1>10. c \in {"repay", "release"}
  BY <1>3
<1> QED
  BY <1>1, <1>4, <1>9, <1>10, TxNumbersOf, ReadTyped

-----------------------------------------------------------------------------
(* Steps that write. *)

\* The first item of the list names a row.
LEMMA FirstItem ==
  ASSUME TInv, NEW w \in Workers, tx[w].pc \in ItemPcs
  PROVE  /\ tx[w].p \in Payments /\ Head(tx[w].todo) = tx[w].todo[1] /\ 1 \in DOMAIN tx[w].todo
         /\ Head(tx[w].todo).bill \in Bills /\ NextAmount(w) \in Nat
         /\ NextPair(w) = <<tx[w].p, Head(tx[w].todo).bill>> /\ NextPair(w) \in Pairs
         /\ tx[w].kind = "allocate" => NextAmount(w) > 0
<1>1. tx[w].kind \in Paying \cup Repaying
  BY TxNumbersOf DEF ItemPcs, Reaches, Paying, Repaying
<1>2. /\ tx[w].todo \in Seq(Item) /\ tx[w].todo # <<>>
      /\ tx[w].kind = "allocate" => \A k \in DOMAIN tx[w].todo : tx[w].todo[k].amount > 0
  BY DEF TInv, WorkerTyped, ItemsTyped
<1>3. Head(tx[w].todo) = tx[w].todo[1] /\ 1 \in DOMAIN tx[w].todo /\ Head(tx[w].todo) \in Item
  BY <1>2
<1> QED
  BY <1>1, <1>2, <1>3, TxNumbersOf DEF Item, NextPair, NextAmount, Pairs

\* A step that writes an allocation.
LEMMA PairStepTyped ==
  ASSUME TInv, IInv', NEW w \in Workers, UNCHANGED <<rows, tries>>, NEW c \in {"link", "sum"},
         tx[w].pc \in {"upsert", "release"}, NEW s \in Nat, NextAmount(w) = 0 <=> s = 0,
         WritePair(w, NextPair(w), NextAmount(w), s), Goto(w, c)
  PROVE  TInv'
<1>1. PICK o, t : o = own'[w] /\ t = tx'[w]
  OBVIOUS
<1>2. PICK x, n : x = NextPair(w) /\ n = NextAmount(w)
  OBVIOUS
<1>3. x \in Pairs /\ n \in Nat /\ x = <<tx[w].p, Head(tx[w].todo).bill>> /\ n = Head(tx[w].todo).amount
      /\ tx[w].p \in Payments /\ Head(tx[w].todo) = tx[w].todo[1] /\ (tx[w].kind = "allocate" => n > 0)
      /\ 1 \in DOMAIN tx[w].todo
  BY <1>2, FirstItem DEF ItemPcs, NextAmount
<1>4. /\ own' = [own EXCEPT ![w] = o] /\ OwnTyped(o)
      /\ DOMAIN o.allocation = DOMAIN own[w].allocation \cup {x} /\ o.allocation[x] = n
      /\ \A y \in DOMAIN own[w].allocation : y # x => o.allocation[y] = own[w].allocation[y]
      /\ See(o) = [See(own[w]) EXCEPT ![x] = n]
  BY <1>1, <1>2, <1>3, OwnAfterPair
<1>5. Becomes(w, c, tx[w].left, tx[w].todo, tx[w].paid)
  BY TxNumbersOf, Becoming DEF Goto
<1>6. /\ tx' = [tx EXCEPT ![w] = t] /\ Alike(t, tx[w])
      /\ t.pc = c /\ t.left = tx[w].left /\ t.todo = tx[w].todo /\ t.paid = tx[w].paid
  BY <1>1, <1>5 DEF Becomes
<1>7. WorkerTyped(tx[w], own[w]) /\ tx[w].pc \in ItemPcs
  BY DEF TInv, ItemPcs
<1>8. tx[w].kind = "allocate" \/ tx[w].kind \in Repaying
  BY TxNumbersOf DEF Reaches, Paying
<1>9. OwnPairs(t, o)
  BY <1>3, <1>4, <1>6, <1>7, <1>8 DEF WorkerTyped, OwnPairs, Alike, Paying
<1>10. Untouched(t, o) /\ TxNumbers(t)
  BY <1>6, <1>7 DEF WorkerTyped, Untouched, TxNumbers, Alike
<1>11. ItemsTyped(t)
  BY <1>6, <1>7 DEF WorkerTyped, ItemsTyped, Alike
<1>12. HeldBy(t, o)
  <2> SUFFICES ASSUME t.kind \in Repaying, NEW k \in DOMAIN t.todo, t.todo[k].amount > 0
               PROVE  See(o)[<<t.p, t.todo[k].bill>>] > 0
    BY DEF HeldBy
  <2>1. tx[w].kind \in Repaying /\ tx[w].pc = "release" /\ t.p = tx[w].p /\ t.todo = tx[w].todo
    BY <1>6, TxNumbersOf DEF Alike, Reaches, Paying, Repaying
  <2>2. tx[w].todo \in Seq(Item) /\ tx[w].todo[k] \in Item
    BY <1>7, <2>1 DEF WorkerTyped, ItemsTyped
  <2>3. <<t.p, t.todo[k].bill>> \in Pairs
    BY <1>3, <2>1, <2>2 DEF Item, Pairs
  <2>4. See(own[w])[<<t.p, t.todo[k].bill>>] > 0
    BY <1>7, <2>1 DEF WorkerTyped, HeldBy
  <2>5. See(own[w]) \in [Pairs -> Nat]
    BY SeenTyped
  <2>6. CASE k = 1
    BY <1>3, <1>4, <2>1, <2>3, <2>5, <2>6
  <2>7. CASE k # 1
    <3>1. t.todo[k].bill # tx[w].todo[1].bill
      BY <1>3, <1>7, <2>1, <2>7 DEF WorkerTyped, ItemsTyped
    <3>2. <<t.p, t.todo[k].bill>> # x
      BY <1>3, <2>1, <3>1
    <3> QED
      BY <1>4, <2>3, <2>4, <2>5, <3>2
  <2> QED
    BY <2>6, <2>7
<1>13. WorkerTyped(t, o)
  BY <1>4, <1>9, <1>10, <1>11, <1>12 DEF WorkerTyped
<1>14. tries' \in [Payments -> 0 .. Tries] /\ UNCHANGED rows
  BY DEF TInv
<1> QED
  BY <1>4, <1>6, <1>13, <1>14, TypedStep

\* What the write of an allocation writes.
WritesItem(w, s, c) ==
    /\ WritePair(w, NextPair(w), NextAmount(w), s) /\ Goto(w, c) /\ c \in {"link", "sum"}
    /\ UNCHANGED <<rows, tries>> /\ s \in Nat /\ (NextAmount(w) = 0 <=> s = 0)

\* An upsert writes the amount of the first item, under a stamp that is not
\* 0.
LEMMA UpsertWrites ==
  ASSUME TInv, NEW w \in Workers, UpsertAllocation(w), ~Refuse(w)
  PROVE  tx[w].pc = "upsert" /\ tx[w].kind = "allocate" /\ \E s, c : WritesItem(w, s, c)
<1>1. tx[w].pc = "upsert" /\ tx[w].kind = "allocate"
  BY TxNumbersOf DEF UpsertAllocation, At, Reaches, Paying, Repaying
<1>2. NextPair(w) \in Pairs /\ NextAmount(w) > 0
  BY <1>1, FirstItem DEF ItemPcs
<1>3. PICK s, c : WritePair(w, NextPair(w), NextAmount(w), s) /\ Goto(w, c) /\ c \in {"link", "sum"}
                  /\ UNCHANGED <<rows, tries>>
                  /\ (s = tx[w].since \/ (Seen(w)[NextPair(w)] > 0 /\ s = StampSeen(w)[NextPair(w)]))
  <2> DEFINE x == NextPair(w)
  <2>1. \/ WritePair(w, x, NextAmount(w), tx[w].since) /\ Goto(w, "link") /\ Writes
        \/ Seen(w)[x] > 0 /\ WritePair(w, x, NextAmount(w), StampSeen(w)[x]) /\ Goto(w, "sum") /\ Writes
    BY DEF UpsertAllocation
  <2> HIDE DEF x
  <2>2. UNCHANGED <<rows, tries>>
    BY <2>1 DEF Writes
  <2>3. CASE WritePair(w, x, NextAmount(w), tx[w].since) /\ Goto(w, "link")
    BY <2>2, <2>3 DEF x
  <2>4. CASE Seen(w)[x] > 0 /\ WritePair(w, x, NextAmount(w), StampSeen(w)[x]) /\ Goto(w, "sum")
    BY <2>2, <2>4 DEF x
  <2> QED
    BY <2>1, <2>3, <2>4
<1>4. s \in Nat /\ s > 0
  <2>1. tx[w].since \in Nat /\ tx[w].since > 0
    BY <1>1, TxNumbersOf DEF Paying
  <2>2. Seen(w)[NextPair(w)] > 0 =>
          StampSeen(w)[NextPair(w)] \in Nat /\ StampSeen(w)[NextPair(w)] > 0
    <3>1. Seen(w)[NextPair(w)] \in Nat /\ StampSeen(w)[NextPair(w)] \in Nat
      BY <1>2, SeenTyped
    <3>2. Seen(w)[NextPair(w)] = 0 <=> StampSeen(w)[NextPair(w)] = 0
      BY <1>2, SeenTyped
    <3> QED
      BY <3>1, <3>2
  <2> QED
    BY <1>3, <2>1, <2>2
<1>5. NextAmount(w) # 0 /\ s # 0
  BY <1>1, <1>2, <1>4, FirstItem DEF ItemPcs
<1>6. WritesItem(w, s, c)
  BY <1>3, <1>4, <1>5 DEF WritesItem
<1> QED
  BY <1>1, <1>6

LEMMA UpsertTyped ==
  ASSUME TInv, IInv', NEW w \in Workers, UpsertAllocation(w), ~Refuse(w)
  PROVE  TInv'
<1>1. PICK s, c : WritesItem(w, s, c)
  BY UpsertWrites
<1> QED
  BY <1>1, UpsertWrites, PairStepTyped DEF WritesItem

\* A release writes what is left, under no stamp when that is nothing.
LEMMA ReleaseWrites ==
  ASSUME TInv, NEW w \in Workers, ReleaseAllocation(w), ~Refuse(w)
  PROVE  tx[w].pc = "release" /\ tx[w].kind \in Repaying /\ \E s : WritesItem(w, s, "sum")
<1>1. tx[w].pc = "release" /\ tx[w].kind \in Repaying
  BY TxNumbersOf DEF ReleaseAllocation, At, Reaches, Paying, Repaying
<1>2. /\ NextPair(w) \in Pairs /\ NextAmount(w) \in Nat /\ NextAmount(w) = tx[w].todo[1].amount
      /\ NextPair(w) = <<tx[w].p, tx[w].todo[1].bill>> /\ 1 \in DOMAIN tx[w].todo
  BY <1>1, FirstItem DEF ItemPcs, NextAmount
<1>3. PICK s : /\ s = (IF NextAmount(w) = 0 THEN 0 ELSE StampSeen(w)[NextPair(w)])
               /\ WritePair(w, NextPair(w), NextAmount(w), s) /\ Goto(w, "sum") /\ UNCHANGED <<rows, tries>>
  BY DEF ReleaseAllocation, Writes
<1>4. NextAmount(w) > 0 => Seen(w)[NextPair(w)] > 0
  BY <1>1, <1>2, SeenTyped DEF TInv, WorkerTyped, HeldBy
<1>5. s \in Nat /\ (NextAmount(w) = 0 <=> s = 0)
  <2>1. Seen(w)[NextPair(w)] \in Nat /\ StampSeen(w)[NextPair(w)] \in Nat
    BY <1>2, SeenTyped
  <2>2. Seen(w)[NextPair(w)] = 0 <=> StampSeen(w)[NextPair(w)] = 0
    BY <1>2, SeenTyped
  <2> QED
    BY <1>2, <1>3, <1>4, <2>1, <2>2
<1>6. WritesItem(w, s, "sum")
  BY <1>3, <1>5 DEF WritesItem
<1> QED
  BY <1>1, <1>6

LEMMA ReleaseTyped ==
  ASSUME TInv, IInv', NEW w \in Workers, ReleaseAllocation(w), ~Refuse(w)
  PROVE  TInv'
<1>1. PICK s : WritesItem(w, s, "sum")
  BY ReleaseWrites
<1> QED
  BY <1>1, ReleaseWrites, PairStepTyped DEF WritesItem

\* A step that writes a payment or an invoice.
LEMMA WriteTyped ==
  ASSUME TInv, IInv', NEW w \in Workers, UNCHANGED <<rows, tries>>,
         NEW o, own' = [own EXCEPT ![w] = o], OwnTyped(o), o.allocation = own[w].allocation,
         NEW c, NEW left \in Int, NEW todo, NEW paid \in Nat, Becomes(w, c, left, todo, paid),
         \A t : Alike(t, tx[w]) /\ t.pc = c /\ t.todo = todo => ItemsTyped(t) /\ HeldBy(t, own[w]),
         c \notin {"idle", "insert", "freeze", "lock", "pick", "credit", "void"}
  PROVE  TInv'
<1>1. PICK t : t = tx'[w]
  OBVIOUS
<1>2. /\ tx' = [tx EXCEPT ![w] = t] /\ Alike(t, tx[w])
      /\ t.pc = c /\ t.left = left /\ t.todo = todo /\ t.paid = paid
  BY <1>1 DEF Becomes
<1>3. WorkerTyped(tx[w], own[w])
  BY DEF TInv
<1>4. OwnPairs(t, o) /\ TxNumbers(t)
  BY <1>2, <1>3 DEF WorkerTyped, OwnPairs, TxNumbers, Alike
<1>5. Untouched(t, o)
  BY <1>2 DEF Untouched
<1>6. ItemsTyped(t) /\ HeldBy(t, o)
  BY <1>2 DEF HeldBy, See
<1>7. WorkerTyped(t, o)
  BY <1>4, <1>5, <1>6 DEF WorkerTyped
<1>8. tries' \in [Payments -> 0 .. Tries] /\ UNCHANGED rows
  BY DEF TInv
<1> QED
  BY <1>2, <1>7, <1>8, TypedStep

LEMMA InsertPaymentTyped ==
  ASSUME TInv, IInv', NEW w \in Workers, InsertPayment(w)
  PROVE  TInv'
<1>1. tx[w].kind \in Paying /\ tx[w].p \in Payments
  BY TxNumbersOf DEF InsertPayment, At, Reaches, Paying, Repaying
<1>2. PICK c : c \in {"read", "done"} /\ Goto(w, c) /\ UNCHANGED <<rows, tries>>
  BY DEF InsertPayment, Writes
<1>3. Becomes(w, c, tx[w].left, tx[w].todo, tx[w].paid)
  BY <1>2, TxNumbersOf, Becoming DEF Goto
<1>4. PICK o : own' = [own EXCEPT ![w] = o] /\ OwnTyped(o) /\ o.allocation = own[w].allocation
  <2>1. CASE UNCHANGED own
    <3>1. own' = [own EXCEPT ![w] = own[w]] /\ OwnTyped(own[w])
      BY <2>1 DEF TInv, IInv, WorkerTyped
    <3> QED
      BY <3>1
  <2>2. CASE WritePayment(w, tx[w].p, [amount |-> tx[w].amount, refunded |-> 0])
    <3>1. own' = [own EXCEPT ![w] = own'[w]] /\ OwnTyped(own'[w]) /\ own'[w].allocation = own[w].allocation
      BY <1>1, <2>2, OwnAfterPayment
    <3>2. PICK o : o = own'[w]
      OBVIOUS
    <3> QED
      BY <3>1, <3>2
  <2> QED
    BY <2>1, <2>2 DEF InsertPayment
<1>5. \A t : t.pc = c => ItemsTyped(t) /\ HeldBy(t, own[w])
  BY <1>2, NoItems DEF ItemPcs
<1> QED
  BY <1>2, <1>3, <1>4, <1>5, TxNumbersOf, WriteTyped

LEMMA RepayTyped ==
  ASSUME TInv, IInv', NEW w \in Workers, RepayPayment(w), ~Refuse(w)
  PROVE  TInv'
<1>1. tx[w].p \in Payments
  BY TxNumbersOf DEF RepayPayment, At, Reaches, Paying, Repaying
<1>2. Goto(w, "done") /\ UNCHANGED <<rows, tries>> /\ \E row : WritePayment(w, tx[w].p, row)
  BY DEF RepayPayment, Writes
<1>3. Becomes(w, "done", tx[w].left, tx[w].todo, tx[w].paid)
  BY <1>2, TxNumbersOf, Becoming DEF Goto
<1>4. own' = [own EXCEPT ![w] = own'[w]] /\ OwnTyped(own'[w]) /\ own'[w].allocation = own[w].allocation
  BY <1>1, <1>2, OwnAfterPayment
<1>5. \A t : t.pc = "done" => ItemsTyped(t) /\ HeldBy(t, own[w])
  BY NoItems DEF ItemPcs
<1>6. PICK o : o = own'[w]
  OBVIOUS
<1> QED
  BY <1>2, <1>3, <1>4, <1>5, <1>6, TxNumbersOf, WriteTyped

LEMMA VoidTyped ==
  ASSUME TInv, IInv', NEW w \in Workers, VoidInvoice(w)
  PROVE  TInv'
<1>1. tx[w].bill \in Bills
  BY TxNumbersOf DEF VoidInvoice, At, Reaches, Paying, Repaying
<1>2. Goto(w, "done") /\ UNCHANGED <<rows, tries>>
  BY DEF VoidInvoice, Writes
<1>3. Becomes(w, "done", tx[w].left, tx[w].todo, tx[w].paid)
  BY <1>2, TxNumbersOf, Becoming DEF Goto
<1>4. PICK row : row = [InvoiceSeen(w, tx[w].bill) EXCEPT !.status = "void"]
  OBVIOUS
<1>5. row.paid \in Nat
  BY <1>1, <1>4, InvoiceIsTyped DEF IsInvoice
<1>6. WriteInvoice(w, tx[w].bill, row)
  BY <1>4 DEF VoidInvoice
<1>7. own' = [own EXCEPT ![w] = own'[w]] /\ OwnTyped(own'[w]) /\ own'[w].allocation = own[w].allocation
  BY <1>1, <1>5, <1>6, OwnAfterInvoice
<1>8. \A t : t.pc = "done" => ItemsTyped(t) /\ HeldBy(t, own[w])
  BY NoItems DEF ItemPcs
<1>9. PICK o : o = own'[w]
  OBVIOUS
<1> QED
  BY <1>2, <1>3, <1>7, <1>8, <1>9, TxNumbersOf, WriteTyped

\* What is left to do after the first item.
LEMMA Tails ==
  ASSUME NEW s \in Seq(Item), s # <<>>
  PROVE  /\ Tail(s) \in Seq(Item) /\ Len(Tail(s)) = Len(s) - 1 /\ Len(s) \in Nat /\ Len(s) > 0
         /\ DOMAIN s = 1 .. Len(s) /\ DOMAIN Tail(s) = 1 .. (Len(s) - 1)
         /\ \A k \in DOMAIN Tail(s) : k + 1 \in DOMAIN s /\ Tail(s)[k] = s[k + 1]
OBVIOUS

\* A sync writes the total it has read and goes on to the next item.
LEMMA SyncMoves ==
  ASSUME TInv, NEW w \in Workers, SyncInvoice(w)
  PROVE  /\ tx[w].pc = "sync" /\ (tx[w].kind = "allocate" \/ tx[w].kind \in Repaying) /\ UNCHANGED <<rows, tries>>
         /\ \E s, c, rest :
              /\ s \in Seq(Item) /\ s = tx[w].todo /\ s # <<>>
              /\ rest = Tail(s) /\ tx' = [tx EXCEPT ![w].todo = rest, ![w].paid = 0, ![w].pc = c]
              /\ c \in (IF tx[w].kind = "allocate" THEN {"check", "done"} ELSE {"release", "repay"})
              /\ c \in {"check", "release"} => Len(s) > 1
              /\ c = "release" => tx[w].kind = "refund"
              /\ c = "repay" => Len(s) = 1 \/ tx[w].kind = "credit"
<1>1. tx[w].pc = "sync" /\ (tx[w].kind = "allocate" \/ tx[w].kind \in Repaying) /\ UNCHANGED <<rows, tries>>
  BY TxNumbersOf DEF SyncInvoice, At, Reaches, Paying, Writes
<1>2. WorkerTyped(tx[w], own[w])
  BY DEF TInv
<1>3. PICK s \in Seq(Item) : s = tx[w].todo /\ s # <<>>
  BY <1>1, <1>2 DEF WorkerTyped, ItemsTyped, ItemPcs
<1>4. PICK c : c = IF tx[w].kind = "allocate" THEN IF Len(s) > 1 THEN "check" ELSE "done"
                   ELSE IF tx[w].kind = "refund" /\ Len(s) > 1 THEN "release" ELSE "repay"
  OBVIOUS
<1>5. tx' = [tx EXCEPT ![w].todo = Tail(s), ![w].paid = 0, ![w].pc = c]
  BY <1>3, <1>4 DEF SyncInvoice, TInv, IInv
<1>6. PICK rest : rest = Tail(s)
  OBVIOUS
<1>7. c \in (IF tx[w].kind = "allocate" THEN {"check", "done"} ELSE {"release", "repay"})
  BY <1>4
<1>8. (c \in {"check", "release"} => Len(s) > 1) /\ (c = "release" => tx[w].kind = "refund")
  BY <1>4
<1>9. c = "repay" => Len(s) = 1 \/ tx[w].kind = "credit"
  <2>1. Len(s) \in Nat /\ Len(s) > 0
    BY <1>3
  <2>2. c = "repay" => tx[w].kind # "allocate"
    BY <1>4
  <2>3. c = "repay" /\ tx[w].kind = "refund" => ~(Len(s) > 1)
    <3>1. PICK more \in BOOLEAN : more <=> Len(s) > 1
      OBVIOUS
    <3>2. c = IF tx[w].kind = "allocate" THEN IF more THEN "check" ELSE "done"
              ELSE IF tx[w].kind = "refund" /\ more THEN "release" ELSE "repay"
      BY <1>4, <3>1
    <3> QED
      BY <3>1, <3>2
  <2>4. ~(Len(s) > 1) => Len(s) = 1
    <3>1. PICK d \in Nat : d = Len(s) /\ d > 0
      BY <2>1
    <3> QED
      BY <3>1
  <2> QED
    BY <1>1, <2>2, <2>3, <2>4 DEF Repaying
<1> QED
  BY <1>1, <1>3, <1>5, <1>6, <1>7, <1>8, <1>9

LEMMA SyncTyped ==
  ASSUME TInv, IInv', NEW w \in Workers, SyncInvoice(w)
  PROVE  TInv'
<1> DEFINE i == Head(tx[w].todo).bill
<1>1. tx[w].pc = "sync" /\ (tx[w].kind = "allocate" \/ tx[w].kind \in Repaying) /\ UNCHANGED <<rows, tries>>
  BY SyncMoves
<1>2. i \in Bills
  BY <1>1, FirstItem DEF ItemPcs
<1>3. WorkerTyped(tx[w], own[w])
  BY DEF TInv
<1>4. PICK s, c, rest :
              /\ s \in Seq(Item) /\ s = tx[w].todo /\ s # <<>>
              /\ rest = Tail(s) /\ tx' = [tx EXCEPT ![w].todo = rest, ![w].paid = 0, ![w].pc = c]
              /\ c \in (IF tx[w].kind = "allocate" THEN {"check", "done"} ELSE {"release", "repay"})
              /\ c \in {"check", "release"} => Len(s) > 1
              /\ c = "release" => tx[w].kind = "refund"
  BY SyncMoves
<1>5. /\ rest = Tail(s) /\ tx' = [tx EXCEPT ![w].todo = rest, ![w].paid = 0, ![w].pc = c]
      /\ c \in (IF tx[w].kind = "allocate" THEN {"check", "done"} ELSE {"release", "repay"})
      /\ c \in {"check", "release"} => Len(s) > 1
      /\ c = "release" => tx[w].kind = "refund"
  BY <1>4
<1>6. Becomes(w, c, tx[w].left, rest, 0)
  BY <1>5, TxNumbersOf, Becoming
<1>7. PICK row : row = [InvoiceSeen(w, i) EXCEPT !.paid = tx[w].paid,
                                                 !.status = StatusAfter(i, InvoiceSeen(w, i), tx[w].paid)]
  OBVIOUS
<1>8. row.paid \in Nat
  BY <1>2, <1>7, InvoiceIsTyped, TxNumbersOf DEF IsInvoice
<1>9. WriteInvoice(w, i, row)
  BY <1>7 DEF SyncInvoice
<1>10. own' = [own EXCEPT ![w] = own'[w]] /\ OwnTyped(own'[w]) /\ own'[w].allocation = own[w].allocation
  BY <1>2, <1>8, <1>9, OwnAfterInvoice
<1>11. ASSUME NEW t, Alike(t, tx[w]), t.pc = c, t.todo = rest PROVE ItemsTyped(t) /\ HeldBy(t, own[w])
  <2>1. /\ rest \in Seq(Item) /\ Len(rest) = Len(s) - 1 /\ Len(s) \in Nat
        /\ \A k \in DOMAIN rest : k \in Nat /\ k + 1 \in DOMAIN s /\ rest[k] = s[k + 1]
    BY <1>4, <1>5, Tails
  <2>2. /\ \A j, k \in DOMAIN s : s[j].bill = s[k].bill => j = k
        /\ tx[w].kind = "allocate" => \A k \in DOMAIN s : s[k].amount > 0
    BY <1>1, <1>3, <1>4 DEF WorkerTyped, ItemsTyped, ItemPcs
  <2>3. \A j, k \in DOMAIN rest : rest[j].bill = rest[k].bill => j = k
    BY <2>1, <2>2
  <2>4. tx[w].kind = "allocate" => \A k \in DOMAIN rest : rest[k].amount > 0
    BY <2>1, <2>2
  <2>5. c \in ItemPcs => rest # <<>> /\ tx[w].kind # "credit"
    <3> SUFFICES ASSUME c \in ItemPcs PROVE rest # <<>> /\ tx[w].kind # "credit"
      OBVIOUS
    <3>1. c \in {"check", "release"}
      BY <1>5 DEF ItemPcs
    <3>2. Len(s) > 1 /\ (c = "release" => tx[w].kind = "refund")
      BY <1>5, <3>1
    <3>3. c = "check" => tx[w].kind = "allocate"
      BY <1>5
    <3>4. rest # <<>>
      BY <2>1, <3>2
    <3> QED
      BY <3>1, <3>2, <3>3, <3>4
  <2>6. ItemsTyped(t)
    BY <1>11, <2>1, <2>3, <2>4, <2>5 DEF ItemsTyped, Alike
  <2>7. \A k \in DOMAIN s : tx[w].kind \in Repaying /\ s[k].amount > 0 => See(own[w])[<<tx[w].p, s[k].bill>>] > 0
    BY <1>1, <1>3, <1>4 DEF WorkerTyped, HeldBy
  <2>8. HeldBy(t, own[w])
    BY <1>11, <2>1, <2>7 DEF HeldBy, Alike
  <2> QED
    BY <2>6, <2>8
<1>12. PICK o : o = own'[w]
  OBVIOUS
<1>13. c \in {"check", "done", "release", "repay"}
  BY <1>5
<1> QED
  BY <1>1, <1>6, <1>10, <1>11, <1>12, <1>13, TxNumbersOf, WriteTyped

LEMMA CreditTyped ==
  ASSUME TInv, IInv', NEW w \in Workers, CreditInvoice(w), ~Refuse(w)
  PROVE  TInv'
<1> DEFINE i == tx[w].bill
           x == <<tx[w].p, i>>
           a == tx[w].amount
<1>1. tx[w].pc = "credit" /\ tx[w].kind = "credit" /\ i \in Bills /\ tx[w].p \in Payments /\ a \in Nat
  BY TxNumbersOf DEF CreditInvoice, At, Reaches, Paying, Repaying
<1>2. PICK held \in Nat : held = Seen(w)[x]
  BY <1>1, SeenTyped DEF Pairs
<1>3. PICK todo : todo = <<[bill |-> i, amount |-> held - a]>>
  OBVIOUS
<1>4. /\ tx' = [tx EXCEPT ![w].left = 0, ![w].todo = todo, ![w].pc = "release"]
      /\ a <= held /\ UNCHANGED <<rows, tries>>
  BY <1>2, <1>3 DEF CreditInvoice, Writes
<1>5. Becomes(w, "release", 0, todo, tx[w].paid)
  BY <1>4, TxNumbersOf, Becoming
<1>6. PICK row : row = [invoice[i] EXCEPT !.credited = Total[i] - tx[w].left + a]
  OBVIOUS
<1>7. row.paid \in Nat
  BY <1>1, <1>6 DEF TInv, RowsTyped, BillRow
<1>8. WriteInvoice(w, i, row)
  BY <1>6 DEF CreditInvoice
<1>9. own' = [own EXCEPT ![w] = own'[w]] /\ OwnTyped(own'[w]) /\ own'[w].allocation = own[w].allocation
  BY <1>1, <1>7, <1>8, OwnAfterInvoice
<1>10. ASSUME NEW t, Alike(t, tx[w]), t.pc = "release", t.todo = todo PROVE ItemsTyped(t) /\ HeldBy(t, own[w])
  <2>1. [bill |-> i, amount |-> held - a] \in Item
    BY <1>1, <1>2, <1>4 DEF Item
  <2>2. t.todo \in Seq(Item) /\ t.todo # <<>> /\ DOMAIN t.todo = {1} /\ Len(t.todo) = 1
    BY <1>3, <1>10, <2>1
  <2>3. t.todo[1].bill = i /\ t.todo[1].amount = held - a /\ t.kind = "credit" /\ t.bill = i /\ t.p = tx[w].p
    BY <1>1, <1>3, <1>10 DEF Alike
  <2>4. ItemsTyped(t)
    BY <2>2, <2>3 DEF ItemsTyped
  <2>5. held - a > 0 => held > 0
    BY <1>1, <1>2
  <2>6. HeldBy(t, own[w])
    BY <1>2, <2>2, <2>3, <2>5, SeenTyped DEF HeldBy
  <2> QED
    BY <2>4, <2>6
<1>11. PICK o : o = own'[w]
  OBVIOUS
<1> HIDE DEF i, x, a
<1> QED
  BY <1>4, <1>5, <1>9, <1>10, <1>11, TxNumbersOf, WriteTyped

\* A request begins with nothing written.
LEMMA StartTyped ==
  ASSUME TInv, IInv', NEW w \in Workers, UNCHANGED <<rows, own>>, NEW t, tx[w].pc = "idle",
         tx' = [tx EXCEPT ![w] = t], t.pc \in {"insert", "freeze", "lock", "void"},
         t.paid = 0, t.left = 0, t.kind \in Paying => t.since \in Nat /\ t.since > 0,
         tries' \in [Payments -> 0 .. Tries]
  PROVE  TInv'
<1>1. own[w] = NoWrites /\ own' = [own EXCEPT ![w] = own[w]] /\ OwnTyped(own[w])
  BY DEF TInv, IInv, WorkerTyped, Untouched
<1>2. OwnPairs(t, own[w])
  BY <1>1 DEF OwnPairs, NoWrites
<1>3. ItemsTyped(t) /\ HeldBy(t, own[w])
  BY NoItems DEF ItemPcs
<1>4. WorkerTyped(t, own[w])
  BY <1>1, <1>2, <1>3 DEF WorkerTyped, Untouched, TxNumbers
<1> QED
  BY <1>1, <1>4, TypedStep

LEMMA StartsTyped ==
  ASSUME TInv, IInv', NEW w \in Workers, Start(w)
  PROVE  TInv'
<1>1. ASSUME NEW p \in Payments, NEW a, NEW bill, NEW kind, RecordPayment(w, p, a, bill, kind) PROVE TInv'
  <2>1. tries \in [Payments -> 0 .. Tries] /\ tries[p] < Tries
    BY <1>1 DEF RecordPayment, TInv
  <2>2. tries' \in [Payments -> 0 .. Tries] /\ tries[p] + 1 \in Nat /\ tries[p] + 1 > 0
    BY <1>1, <2>1, TriesIsNumber DEF RecordPayment
  <2>3. PICK t : t = [NoTx EXCEPT !.pc = "insert", !.kind = kind, !.p = p, !.bill = bill,
                                  !.amount = a, !.since = tries[p] + 1]
    OBVIOUS
  <2>4. t.pc = "insert" /\ t.paid = 0 /\ t.left = 0 /\ t.since = tries[p] + 1
    BY <2>3 DEF NoTx
  <2>5. tx' = [tx EXCEPT ![w] = t] /\ tx[w].pc = "idle" /\ UNCHANGED <<rows, own>>
    BY <1>1, <2>3 DEF RecordPayment
  <2> QED
    BY <2>2, <2>4, <2>5, StartTyped
<1>2. ASSUME NEW pc, NEW kind, NEW p, NEW bill, NEW a, Begin(w, pc, kind, p, bill, a), Reads,
             pc \in {"freeze", "lock", "void"}, kind \notin Paying
      PROVE  TInv'
  <2>1. PICK t : t = [NoTx EXCEPT !.pc = pc, !.kind = kind, !.p = p, !.bill = bill, !.amount = a]
    OBVIOUS
  <2>2. t.pc = pc /\ t.paid = 0 /\ t.left = 0 /\ t.kind = kind
    BY <2>1 DEF NoTx
  <2>3. tx' = [tx EXCEPT ![w] = t] /\ tx[w].pc = "idle" /\ UNCHANGED <<rows, own>>
    BY <1>2, <2>1 DEF Begin, Reads
  <2>4. tries' \in [Payments -> 0 .. Tries]
    BY <1>2 DEF Reads, TInv
  <2> QED
    BY <1>2, <2>2, <2>3, <2>4, StartTyped
<1>3. "refund" \notin Paying /\ "credit" \notin Paying /\ "void" \notin Paying
  BY DEF Paying
<1> QED
  BY <1>1, <1>2, <1>3 DEF Start, Refund, Credit, ReadForVoid

-----------------------------------------------------------------------------
(* Commit, and what follows. *)

\* A commit publishes rows of the right types.
LEMMA CommitTypesRows ==
  ASSUME TInv, IInv', NEW w \in Workers, Commit(w)
  PROVE  RowsTyped' /\ allocation' = See(own[w])
<1>1. /\ payment' = Over(own[w].payment, payment) /\ invoice' = Over(own[w].invoice, invoice)
      /\ allocation' = See(own[w]) /\ stamp' = StampOf(own[w]) /\ documents' = Documents(tx[w])
  BY DEF Commit, See, StampOf
<1>2. RowsTyped /\ OwnTyped(own[w])
  BY DEF TInv, WorkerTyped
<1>3. payment' \in [Payments -> PayRow]
  <2>1. DOMAIN payment \cup DOMAIN own[w].payment = Payments
    BY <1>2 DEF RowsTyped, OwnTyped
  <2>2. \A p \in Payments : payment'[p] \in PayRow
    BY DEF IInv, Committed, IsPayment
  <2> QED
    BY <1>1, <2>1, <2>2 DEF Over
<1>4. invoice' \in [Bills -> BillRow]
  <2>1. DOMAIN invoice \cup DOMAIN own[w].invoice = Bills
    BY <1>2 DEF RowsTyped, OwnTyped
  <2>2. invoice' = [i \in Bills |-> invoice'[i]]
    BY <1>1, <2>1 DEF Over
  <2>3. ASSUME NEW i \in Bills PROVE invoice'[i] \in BillRow
    <3>1. invoice'[i] = IF i \in DOMAIN own[w].invoice THEN own[w].invoice[i] ELSE invoice[i]
      BY <1>1, <2>1 DEF Over
    <3>2. invoice'[i].paid \in Nat
      BY <1>2, <3>1 DEF RowsTyped, BillRow, OwnTyped
    <3>3. IsInvoice(invoice'[i])
      BY DEF IInv, Committed
    <3> QED
      BY <3>2, <3>3 DEF IsInvoice, BillRow
  <2> QED
    BY <2>2, <2>3
<1>5. allocation' \in [Pairs -> Nat] /\ stamp' \in [Pairs -> Nat] /\ \A x \in Pairs : allocation'[x] = 0 <=> stamp'[x] = 0
  BY <1>1, <1>2, SeeTyped
<1>6. documents' \in [refunds : [Payments -> Nat], notes : [Bills -> Nat]]
  <2>1. documents \in [refunds : [Payments -> Nat], notes : [Bills -> Nat]] /\ tx[w].amount \in Nat
    BY <1>2, TxNumbersOf DEF RowsTyped
  <2>2. PICK n \in Nat : n = tx[w].amount
    BY <2>1
  <2>3. \A p \in Payments : documents.refunds[p] + (IF tx[w].kind \in {"refund", "credit"} /\ tx[w].p = p THEN n ELSE 0) \in Nat
    BY <2>1, <2>2
  <2>4. \A i \in Bills : documents.notes[i] + (IF tx[w].kind = "credit" /\ tx[w].bill = i THEN n ELSE 0) \in Nat
    BY <2>1, <2>2
  <2> QED
    BY <1>1, <2>2, <2>3, <2>4 DEF Documents
<1> QED
  BY <1>1, <1>3, <1>4, <1>5, <1>6 DEF RowsTyped

LEMMA CommitTyped ==
  ASSUME TInv, IInv', NEW w \in Workers, Commit(w)
  PROVE  TInv'
<1>1. tx' = [tx EXCEPT ![w] = NoTx] /\ own' = [own EXCEPT ![w] = NoWrites] /\ tries' = tries
  BY DEF Commit, End
<1>2. /\ tx'[w] = NoTx /\ own'[w] = NoWrites
      /\ \A v \in Workers \ {w} : tx'[v] = tx[v] /\ own'[v] = own[v]
  BY <1>1 DEF TInv, IInv
<1>3. RowsTyped' /\ allocation' = See(own[w])
  BY CommitTypesRows
<1>4. ASSUME NEW v \in Workers, v # w PROVE WorkerTyped(tx[v], own[v])'
  <2>1. PICK t, o : t = tx[v] /\ o = own[v]
    OBVIOUS
  <2>2. WorkerTyped(t, o) /\ t = tx'[v] /\ o = own'[v]
    BY <1>2, <1>4, <2>1 DEF TInv
  <2>3. HeldBy(t, o)'
    <3> SUFFICES ASSUME t.kind \in Repaying, t.pc \in {"release", "sum", "sync"},
                        NEW k \in DOMAIN t.todo, t.todo[k].amount > 0
                 PROVE  Over(o.allocation, allocation')[<<t.p, t.todo[k].bill>>] > 0
      BY DEF HeldBy, See
    <3>1. PICK x : x = <<t.p, t.todo[k].bill>>
      OBVIOUS
    <3>2. x \in Pairs /\ x[1] = t.p /\ t.p \in Payments
      <4>1. t.p \in Payments
        BY <2>1, TxNumbersOf
      <4>2. t.todo \in Seq(Item) /\ t.todo[k] \in Item
        BY <2>2 DEF WorkerTyped, ItemsTyped, ItemPcs
      <4> QED
        BY <3>1, <4>1, <4>2 DEF Item, Pairs
    <3>3. See(o)[x] > 0
      BY <2>2, <3>1 DEF WorkerTyped, HeldBy
    <3>4. RowsTyped /\ OwnTyped(o) /\ OwnTyped(own[w])
      BY <2>2 DEF TInv, WorkerTyped
    <3>5. Over(o.allocation, allocation')[x] = IF x \in DOMAIN o.allocation THEN o.allocation[x] ELSE allocation'[x]
      BY <1>3, <3>2, <3>4 DEF Over, RowsTyped
    <3>6. CASE x \in DOMAIN o.allocation
      BY <3>1, <3>2, <3>3, <3>4, <3>5, <3>6, SeeTyped
    <3>7. CASE x \notin DOMAIN o.allocation /\ x \notin DOMAIN own[w].allocation
      BY <1>3, <3>1, <3>2, <3>3, <3>4, <3>5, <3>7, SeeTyped
    <3>8. CASE x \notin DOMAIN o.allocation /\ x \in DOMAIN own[w].allocation
      <4>1. allocation'[x] = own[w].allocation[x]
        BY <1>3, <3>2, <3>4, <3>8, SeeTyped
      <4>2. OwnPairs(tx[w], own[w])
        BY DEF TInv, WorkerTyped
      <4>3. tx[w].kind \in Repaying /\ x[1] = tx[w].p => FALSE
        <5> SUFFICES ASSUME tx[w].kind \in Repaying, x[1] = tx[w].p PROVE FALSE
          OBVIOUS
        <5>1. Apart(t, o, tx[w], own[w])
          BY <1>4, <2>1 DEF TInv, IInv
        <5>2. LockedPayment(t, t.p) /\ LockedPayment(tx[w], t.p)
          BY <3>2 DEF LockedPayment, Commit, At
        <5> QED
          BY <3>2, <5>1, <5>2 DEF Apart, HoldsPayment
      <4> QED
        BY <3>1, <3>5, <3>8, <4>1, <4>2, <4>3 DEF OwnPairs
    <3> QED
      BY <3>6, <3>7, <3>8
  <2> QED
    BY <2>2, <2>3 DEF WorkerTyped, OwnTyped, OwnPairs, Untouched, ItemsTyped, TxNumbers
<1>5. WorkerTyped(tx[w], own[w])'
  BY <1>2, EndTyped DEF WorkerTyped, OwnTyped, OwnPairs, Untouched, ItemsTyped, TxNumbers, HeldBy, NoTx, Repaying
<1> QED
  BY <1>1, <1>3, <1>4, <1>5 DEF TInv

LEMMA InitTyped == Init => TInv
<1> SUFFICES ASSUME Init PROVE TInv
  OBVIOUS
<1>1. IInv
  BY InitInv
<1>2. RowsTyped
  BY DEF Init, RowsTyped, PayRow, BillRow, Statuses, Open
<1>3. tries \in [Payments -> 0 .. Tries]
  BY TriesIsNumber DEF Init
<1>4. \A w \in Workers : WorkerTyped(tx[w], own[w])
  BY EndTyped DEF Init
<1> QED
  BY <1>1, <1>2, <1>3, <1>4 DEF TInv

LEMMA StepTyped == ASSUME TInv, IInv', NEW w \in Workers, Step(w) PROVE TInv'
<1>1. CASE Refuse(w)
  BY <1>1, RefuseTyped
<1>2. CASE ~Refuse(w)
  BY <1>2, InsertPaymentTyped, ReadUnallocatedTyped, CheckPreferredTyped, PlanTyped, CheckAllocationTyped,
     UpsertTyped, SyncTyped, LockTyped, PickTyped, ReleaseTyped, RepayTyped, CreditTyped, VoidTyped,
     CommitTyped DEF Step
<1> QED
  BY <1>1, <1>2

LEMMA NextTyped == TInv /\ [Next]_vars => TInv'
<1> SUFFICES ASSUME TInv, [Next]_vars PROVE TInv'
  OBVIOUS
<1>1. IInv'
  BY NextInv DEF TInv
<1>2. CASE Next
  BY <1>1, <1>2, StartsTyped, StepTyped, RefuseTyped DEF Next, Crash, LockTimeout
<1>3. CASE UNCHANGED vars
  <2>1. UNCHANGED <<payment, allocation, stamp, invoice, documents, tries, own, tx>>
    BY <1>3 DEF vars
  <2>2. RowsTyped' /\ (tries \in [Payments -> 0 .. Tries])'
    BY <2>1 DEF TInv, RowsTyped
  <2>3. ASSUME NEW w \in Workers PROVE WorkerTyped(tx[w], own[w])'
    <3>1. WorkerTyped(tx'[w], own'[w])
      BY <2>1 DEF TInv
    <3> QED
      BY <2>1, <3>1 DEF WorkerTyped, OwnTyped, OwnPairs, Untouched, ItemsTyped, TxNumbers, HeldBy, See
  <2> QED
    BY <1>1, <2>2, <2>3 DEF TInv
<1> QED
  BY <1>2, <1>3

\* The invariant about types.
THEOREM TypedInvariance == Spec => []TInv
  BY InitTyped, NextTyped, PTL DEF Spec

\* Rows, transactions and what these have written keep their shape.
THEOREM TypeCorrect == Spec => []TypeOK
<1>1. TInv => TypeOK
  <2> SUFFICES ASSUME TInv PROVE TypeOK
    OBVIOUS
  <2>1. \A w \in Workers : At(w, "idle") => own[w] = NoWrites /\ tx[w] = NoTx
    BY DEF TInv, WorkerTyped, Untouched, At
  <2>2. RowsTyped /\ tries \in [Payments -> 0 .. Tries]
    BY DEF TInv
  <2> QED
    BY <2>1, <2>2 DEF TypeOK, RowsTyped, PayRow, BillRow
<1> QED
  BY <1>1, TypedInvariance, PTL

-----------------------------------------------------------------------------
(* Requests that come one at a time.  What the transaction sees of the     *)
(* ledger is four tables: allocations, what payments are worth, what       *)
(* invoices have been paid and what they have been credited.               *)

OneAtATime == \A v, w \in Workers : v = w \/ At(v, "idle") \/ At(w, "idle")

WorthSeen(w) == [p \in Payments |-> Worth(PaymentSeen(w, p))]
PaidSeen(w) == [i \in Bills |-> InvoiceSeen(w, i).paid]
CreditedSeen(w) == [i \in Bills |-> InvoiceSeen(w, i).credited]

\* The arithmetic between two transactions.
Balanced(a, worth, paid, credited) ==
    /\ \A p \in Payments : AllocatedIn(a, p) <= worth[p]
    /\ \A i \in Bills : paid[i] = PaidIn(a, i)
    /\ \A i \in Bills : PaidIn(a, i) + credited[i] <= Total[i]

\* An allocation of the invoice has changed and its total has not.
Syncing(t, i) == t.pc \in {"link", "sum", "sync"} /\ i = t.todo[1].bill
PaidKnown(t, a, paid) ==
    /\ \A i \in Bills : Syncing(t, i) \/ paid[i] = PaidIn(a, i)
    /\ t.pc = "sync" => t.paid = PaidIn(a, t.todo[1].bill)

\* A credit note is written before the money it frees is released.
Freed(t, a, i) ==
    IF t.pc = "release" /\ t.kind = "credit" /\ i = t.bill THEN a[<<t.p, i>>] - t.todo[1].amount ELSE 0
Room(t, a, credited) == \A i \in Bills : PaidIn(a, i) + credited[i] - Freed(t, a, i) <= Total[i]

\* The invoices of a plan have room for it, and its payment for the next item.
Affords(t, a, credited) ==
    t.kind = "allocate" /\ t.pc \in ItemPcs =>
      \A k \in DOMAIN t.todo : LET i == t.todo[k].bill IN
         Syncing(t, i) \/ PaidIn(a, i) + t.todo[k].amount + credited[i] <= Total[i]
Fits(t, a, worth) == t.pc = "upsert" => AllocatedIn(a, t.p) + t.todo[1].amount <= worth[t.p]

\* The allocations of a payment when everything picked has been released.
Goal(t, a, goal) ==
    /\ goal \in [Bills -> Nat]
    /\ \A k \in DOMAIN t.todo : goal[t.todo[k].bill] = t.todo[k].amount
    /\ \A i \in Bills : (\A k \in DOMAIN t.todo : t.todo[k].bill # i) => goal[i] = a[<<t.p, i>>]
Releases(t, a, worth) ==
    t.kind \in Repaying =>
      /\ t.pc \in {"release", "sum", "sync"} =>
           /\ \A goal : Goal(t, a, goal) => SumOf(goal, Bills) <= worth[t.p] - t.amount
           /\ \A k \in DOMAIN t.todo : t.todo[k].amount <= a[<<t.p, t.todo[k].bill>>]
      /\ t.pc \in {"sum", "sync"} => a[<<t.p, t.todo[1].bill>>] = t.todo[1].amount
      /\ t.pc = "repay" => AllocatedIn(a, t.p) <= worth[t.p] - t.amount

Sound(t, a, worth, paid, credited) ==
    /\ \A p \in Payments : AllocatedIn(a, p) <= worth[p]
    /\ PaidKnown(t, a, paid) /\ Room(t, a, credited)
    /\ Affords(t, a, credited) /\ Fits(t, a, worth) /\ Releases(t, a, worth)

Ledger == AllocatedWithinPayment /\ PaidIsSumOfAllocations /\ NeverOverpaid
SoundAt(w) == Sound(tx[w], Seen(w), WorthSeen(w), PaidSeen(w), CreditedSeen(w))
SInv == Ledger /\ \A w \in Workers : At(w, "idle") \/ SoundAt(w)

Tables(a, worth, paid, credited) ==
    /\ a \in [Pairs -> Nat] /\ worth \in [Payments -> Nat]
    /\ paid \in [Bills -> Nat] /\ credited \in [Bills -> Nat]
    /\ \A p \in Payments : AllocatedIn(a, p) \in Nat
    /\ \A i \in Bills : PaidIn(a, i) \in Nat /\ Total[i] \in Nat

\* The tables have the types of the columns they sum.
LEMMA TablesSeen ==
  ASSUME TInv, NEW w \in Workers
  PROVE  Tables(Seen(w), WorthSeen(w), PaidSeen(w), CreditedSeen(w))
<1>1. WorthSeen(w) \in [Payments -> Nat]
  BY PaymentIsTyped DEF WorthSeen
<1>2. PaidSeen(w) \in [Bills -> Nat] /\ CreditedSeen(w) \in [Bills -> Nat]
  BY InvoiceIsTyped DEF PaidSeen, CreditedSeen, IsInvoice
<1> QED
  BY <1>1, <1>2, SeenTyped, TotalsArePositive DEF Tables

\* Between the steps that leave an invoice behind, Sound is Balanced.
Quiet(t) == t.pc \notin ItemPcs /\ t.pc # "repay"
LEMMA QuietSound ==
  ASSUME NEW t, NEW a, NEW worth, NEW paid, NEW credited, Tables(a, worth, paid, credited)
  PROVE  /\ Quiet(t) => (Sound(t, a, worth, paid, credited) <=> Balanced(a, worth, paid, credited))
         /\ t.pc \notin {"link", "sum", "sync", "release"} /\ Sound(t, a, worth, paid, credited)
              => Balanced(a, worth, paid, credited)
<1>1. t.pc \notin {"link", "sum", "sync", "release"} =>
        /\ \A i \in Bills : Freed(t, a, i) = 0 /\ ~Syncing(t, i)
        /\ \A i \in Bills : PaidIn(a, i) + credited[i] - 0 = PaidIn(a, i) + credited[i]
  BY DEF Freed, Syncing, Tables
<1>2. t.pc \notin {"link", "sum", "sync", "release"} =>
        (PaidKnown(t, a, paid) <=> \A i \in Bills : paid[i] = PaidIn(a, i))
  BY <1>1 DEF PaidKnown
<1>3. t.pc \notin {"link", "sum", "sync", "release"} =>
        (Room(t, a, credited) <=> \A i \in Bills : PaidIn(a, i) + credited[i] <= Total[i])
  BY <1>1 DEF Room
<1>4. Quiet(t) => t.pc \notin {"link", "sum", "sync", "release"} /\ Affords(t, a, credited)
                  /\ Fits(t, a, worth) /\ Releases(t, a, worth)
  BY DEF Quiet, ItemPcs, Affords, Fits, Releases
<1> QED
  BY <1>2, <1>3, <1>4 DEF Sound, Balanced

\* What a transaction that has written nothing sees is the committed ledger.
LEMMA LedgerIsBalanced ==
  ASSUME TInv, NEW w \in Workers, own[w] = NoWrites
  PROVE  Ledger <=> Balanced(Seen(w), WorthSeen(w), PaidSeen(w), CreditedSeen(w))
<1>1. Seen(w) = allocation
  BY DEF Seen, Over, NoWrites, TInv, RowsTyped
<1>2. \A p \in Payments : WorthSeen(w)[p] = Worth(payment[p])
  BY DEF WorthSeen, PaymentSeen, Over, NoWrites, TInv, RowsTyped
<1>3. \A i \in Bills : PaidSeen(w)[i] = invoice[i].paid /\ CreditedSeen(w)[i] = invoice[i].credited
  BY DEF PaidSeen, CreditedSeen, InvoiceSeen, Over, NoWrites, TInv, RowsTyped
<1>4. /\ AllocatedWithinPayment <=> \A p \in Payments : AllocatedIn(allocation, p) <= Worth(payment[p])
      /\ PaidIsSumOfAllocations <=> \A i \in Bills : invoice[i].paid = PaidIn(allocation, i)
      /\ NeverOverpaid <=> \A i \in Bills : invoice[i].paid + invoice[i].credited <= Total[i]
  BY DEF AllocatedWithinPayment, PaidIsSumOfAllocations, NeverOverpaid
<1> QED
  BY <1>1, <1>2, <1>3, <1>4 DEF Ledger, Balanced

\* A step of the one transaction there is.
LEMMA SoundStep ==
  ASSUME SInv, TInv, OneAtATime', NEW w \in Workers, UNCHANGED rows, tx' = [tx EXCEPT ![w] = tx'[w]],
         At(w, "idle")' \/ SoundAt(w)',
         ~At(w, "idle")' \/ \A v \in Workers : v = w \/ At(v, "idle")
  PROVE  SInv'
<1>1. Ledger'
  BY DEF rows, SInv, Ledger, AllocatedWithinPayment, PaidIsSumOfAllocations, NeverOverpaid
<1>2. ASSUME NEW v \in Workers, v # w PROVE At(v, "idle")'
  <2>1. tx'[v] = tx[v]
    BY <1>2 DEF TInv, IInv
  <2> QED
    BY <1>2, <2>1 DEF OneAtATime, At
<1> QED
  BY <1>1, <1>2 DEF SInv

-----------------------------------------------------------------------------
(* The steps of a serial request that only read. *)

\* While one request works the others are idle.
LEMMA Working ==
  ASSUME SInv, TInv, OneAtATime, NEW w \in Workers, ~At(w, "idle")
  PROVE  /\ \A v \in Workers : v = w \/ At(v, "idle")
         /\ Sound(tx[w], Seen(w), WorthSeen(w), PaidSeen(w), CreditedSeen(w))
BY DEF SInv, SoundAt, OneAtATime

\* A step of the one transaction, in terms of the tables before and after it.
LEMMA SoundMove ==
  ASSUME SInv, TInv, OneAtATime, OneAtATime', NEW w \in Workers, ~At(w, "idle"), UNCHANGED rows,
         NEW c, NEW left, NEW todo, NEW sum, Becomes(w, c, left, todo, sum),
         NEW a, NEW worth, NEW paid, NEW credited,
         Seen(w)' = a, WorthSeen(w)' = worth, PaidSeen(w)' = paid, CreditedSeen(w)' = credited,
         \A t : Alike(t, tx[w]) /\ t.pc = c /\ t.todo = todo /\ t.paid = sum
                  => Sound(t, a, worth, paid, credited)
  PROVE  SInv'
<1>1. PICK t : t = tx'[w]
  OBVIOUS
<1>2. /\ tx' = [tx EXCEPT ![w] = tx'[w]] /\ Alike(t, tx[w])
      /\ t.pc = c /\ t.todo = todo /\ t.paid = sum
  BY <1>1 DEF Becomes
<1>3. Sound(t, a, worth, paid, credited)
  BY <1>2
<1>4. SoundAt(w)'
  BY <1>1, <1>3 DEF SoundAt
<1> QED
  BY <1>2, <1>4, Working, SoundStep

\* A step that writes nothing sees the same tables after it.
LEMMA SeenSame ==
  ASSUME TInv, NEW w \in Workers, UNCHANGED <<rows, own>>
  PROVE  /\ Seen(w)' = Seen(w) /\ WorthSeen(w)' = WorthSeen(w)
         /\ PaidSeen(w)' = PaidSeen(w) /\ CreditedSeen(w)' = CreditedSeen(w)
BY DEF rows, Seen, WorthSeen, PaymentSeen, PaidSeen, CreditedSeen, InvoiceSeen

\* A step that only reads and leaves nothing half done.
LEMMA QuietRead ==
  ASSUME SInv, TInv, OneAtATime, OneAtATime', NEW w \in Workers, ~At(w, "idle"), UNCHANGED <<rows, own>>,
         tx[w].pc \notin {"link", "sum", "sync", "release"},
         NEW c, NEW left, NEW todo, NEW sum, Becomes(w, c, left, todo, sum), c \notin ItemPcs \cup {"repay"}
  PROVE  SInv'
<1>1. PICK a, worth, paid, credited :
        a = Seen(w) /\ worth = WorthSeen(w) /\ paid = PaidSeen(w) /\ credited = CreditedSeen(w)
  OBVIOUS
<1>2. Tables(a, worth, paid, credited)
  BY <1>1, TablesSeen
<1>3. Sound(tx[w], a, worth, paid, credited)
  BY <1>1, Working
<1>4. Balanced(a, worth, paid, credited)
  BY <1>2, <1>3, QuietSound
<1>5. \A t : t.pc = c => Quiet(t)
  BY DEF Quiet
<1>6. \A t : t.pc = c => Sound(t, a, worth, paid, credited)
  BY <1>2, <1>4, <1>5, QuietSound
<1>7. Seen(w)' = a /\ WorthSeen(w)' = worth /\ PaidSeen(w)' = paid /\ CreditedSeen(w)' = credited
  BY <1>1, SeenSame
<1> QED
  BY <1>6, <1>7, SoundMove

LEMMA ReadUnallocatedSound ==
  ASSUME SInv, TInv, OneAtATime, OneAtATime', NEW w \in Workers, ReadUnallocated(w), ~Refuse(w)
  PROVE  SInv'
<1>1. PICK left : left = Worth(PaymentSeen(w, tx[w].p)) - AllocatedIn(Seen(w), tx[w].p)
  OBVIOUS
<1>2. PICK c : /\ tx' = [tx EXCEPT ![w].left = left, ![w].pc = c]
               /\ c \in {"done", "plan", "prefer"} /\ UNCHANGED <<rows, own>> /\ tx[w].pc = "read"
  BY <1>1 DEF ReadUnallocated, Reads, At
<1>3. Becomes(w, c, left, tx[w].todo, tx[w].paid)
  BY <1>2, TxNumbersOf, Becoming
<1> QED
  BY <1>2, <1>3, QuietRead DEF At, ItemPcs

LEMMA CheckPreferredSound ==
  ASSUME SInv, TInv, OneAtATime, OneAtATime', NEW w \in Workers, CheckPreferred(w), ~Refuse(w)
  PROVE  SInv'
<1>1. tx' = [tx EXCEPT ![w].pc = "plan"] /\ UNCHANGED <<rows, own>> /\ tx[w].pc = "prefer"
  BY DEF CheckPreferred, Goto, Reads, At
<1>2. Becomes(w, "plan", tx[w].left, tx[w].todo, tx[w].paid)
  BY <1>1, TxNumbersOf, Becoming
<1> QED
  BY <1>1, <1>2, QuietRead DEF At, ItemPcs

LEMMA LockSound ==
  ASSUME SInv, TInv, OneAtATime, OneAtATime', NEW w \in Workers, LockPayment(w) \/ LockInvoice(w), ~Refuse(w)
  PROVE  SInv'
<1>1. UNCHANGED <<rows, own>> /\ tx[w].pc \in {"lock", "freeze"}
  BY DEF LockPayment, LockInvoice, Reads, At
<1>2. PICK c, left : c \in {"pick", "credit", "lock"} /\ Becomes(w, c, left, tx[w].todo, tx[w].paid)
  <2>1. CASE LockPayment(w)
    <3>1. PICK c : Goto(w, c) /\ c \in {"pick", "credit"}
      BY <2>1 DEF LockPayment
    <3>2. Becomes(w, c, tx[w].left, tx[w].todo, tx[w].paid)
      BY <3>1, TxNumbersOf, Becoming DEF Goto
    <3> QED
      BY <3>1, <3>2
  <2>2. CASE LockInvoice(w)
    <3>1. PICK left : left = Total[tx[w].bill] - invoice[tx[w].bill].credited
      OBVIOUS
    <3>2. tx' = [tx EXCEPT ![w].left = left, ![w].pc = "lock"]
      BY <2>2, <3>1 DEF LockInvoice
    <3>3. Becomes(w, "lock", left, tx[w].todo, tx[w].paid)
      BY <3>2, TxNumbersOf, Becoming
    <3> QED
      BY <3>3
  <2> QED
    BY <2>1, <2>2
<1> QED
  BY <1>1, <1>2, QuietRead DEF At, ItemPcs

\* A plan takes from every invoice what it has room for, at most.
LEMMA PlanSound ==
  ASSUME SInv, TInv, OneAtATime, OneAtATime', NEW w \in Workers, PlanAllocations(w)
  PROVE  SInv'
<1>1. tx[w].kind = "allocate" /\ tx[w].pc = "plan" /\ UNCHANGED <<rows, own>>
  BY TxNumbersOf DEF PlanAllocations, At, Reaches, Paying, Repaying, Reads
<1>2. PICK open, plan :
        /\ open \in OldestFirst(w) /\ plan = Spend(tx[w].left, open, [i \in Bills |-> Balance(i, InvoiceSeen(w, i))])
        /\ tx' = [tx EXCEPT ![w].left = 0, ![w].todo = plan, ![w].pc = IF plan = <<>> THEN "done" ELSE "check"]
  BY DEF PlanAllocations
<1>3. PICK c : c = IF plan = <<>> THEN "done" ELSE "check"
  OBVIOUS
<1>4. Becomes(w, c, 0, plan, tx[w].paid)
  BY <1>2, <1>3, TxNumbersOf, Becoming
<1>5. PICK d, f, m :
           /\ d \in Nat /\ open \in [1 .. d -> Bills]
           /\ \A k \in 1 .. d : f[k] = Balance(open[k], InvoiceSeen(w, open[k])) /\ f[k] \in Nat
           /\ Fills(plan, m, open, f, d, tx[w].left)
  BY <1>2, Planned
<1>6. PICK a, worth, paid, credited :
        a = Seen(w) /\ worth = WorthSeen(w) /\ paid = PaidSeen(w) /\ credited = CreditedSeen(w)
  OBVIOUS
<1>7. Tables(a, worth, paid, credited)
  BY <1>6, TablesSeen
<1>8. Balanced(a, worth, paid, credited)
  <2>1. Sound(tx[w], a, worth, paid, credited)
    BY <1>1, <1>6, Working DEF At
  <2> QED
    BY <1>1, <1>7, <2>1, QuietSound
<1>9. ASSUME NEW k \in DOMAIN plan, NEW i, i = plan[k].bill
      PROVE  PaidIn(a, i) + plan[k].amount + credited[i] <= Total[i]
  <2>1. k \in 1 .. d /\ i = open[k] /\ i \in Bills /\ plan[k].amount \in Nat /\ plan[k].amount <= f[k]
    BY <1>5, <1>9 DEF Fills, TakesFrom
  <2>2. f[k] = Total[i] - paid[i] - credited[i]
    BY <1>5, <1>6, <2>1 DEF Balance, PaidSeen, CreditedSeen
  <2>3. PaidIn(a, i) = paid[i] /\ paid[i] \in Nat /\ credited[i] \in Nat /\ Total[i] \in Nat
    BY <1>7, <1>8, <2>1 DEF Tables, Balanced
  <2> QED
    BY <2>1, <2>2, <2>3
<1>10. ASSUME NEW t, Alike(t, tx[w]), t.pc = c, t.todo = plan PROVE Sound(t, a, worth, paid, credited)
  <2>1. c \in {"done", "check"} /\ t.kind = "allocate"
    BY <1>1, <1>3, <1>10 DEF Alike
  <2>2. PaidKnown(t, a, paid) /\ Room(t, a, credited)
    <3>1. \A i \in Bills : PaidIn(a, i) + credited[i] - 0 <= Total[i]
      BY <1>7, <1>8 DEF Tables, Balanced
    <3> QED
      BY <1>8, <1>10, <2>1, <3>1 DEF PaidKnown, Room, Freed, Balanced
  <2>3. Affords(t, a, credited)
    BY <1>9, <1>10 DEF Affords
  <2>4. Fits(t, a, worth) /\ Releases(t, a, worth)
    BY <1>10, <2>1 DEF Fits, Releases, Repaying
  <2> QED
    BY <1>8, <2>2, <2>3, <2>4 DEF Sound, Balanced
<1>11. Seen(w)' = a /\ WorthSeen(w)' = worth /\ PaidSeen(w)' = paid /\ CreditedSeen(w)' = credited
  BY <1>1, <1>6, SeenSame
<1> QED
  BY <1>1, <1>4, <1>10, <1>11, SoundMove DEF At

\* The tables that a transaction sees at a step.
LEMMA Sees ==
  ASSUME SInv, TInv, OneAtATime, NEW w \in Workers, ~At(w, "idle")
  PROVE  \E a \in [Pairs -> Nat], worth \in [Payments -> Nat], paid, credited \in [Bills -> Nat] :
           /\ a = Seen(w) /\ worth = WorthSeen(w) /\ paid = PaidSeen(w) /\ credited = CreditedSeen(w)
           /\ Tables(a, worth, paid, credited) /\ Sound(tx[w], a, worth, paid, credited)
<1>1. PICK a \in [Pairs -> Nat], worth \in [Payments -> Nat], paid, credited \in [Bills -> Nat] :
        a = Seen(w) /\ worth = WorthSeen(w) /\ paid = PaidSeen(w) /\ credited = CreditedSeen(w)
  BY TablesSeen DEF Tables
<1>2. Tables(a, worth, paid, credited)
  BY <1>1, TablesSeen
<1>3. Sound(tx[w], a, worth, paid, credited)
  BY <1>1, Working
<1> QED
  BY <1>1, <1>2, <1>3

\* The trigger lets through what fits the payment.
LEMMA CheckAllocationSound ==
  ASSUME SInv, TInv, OneAtATime, OneAtATime', NEW w \in Workers, CheckAllocation(w), ~Refuse(w)
  PROVE  SInv'
<1>1. tx[w].kind = "allocate" /\ tx[w].pc = "check" /\ ~At(w, "idle")
  BY TxNumbersOf DEF CheckAllocation, At, Reaches, Paying, Repaying
<1>2. /\ tx' = [tx EXCEPT ![w].pc = "upsert"] /\ UNCHANGED <<rows, own>>
      /\ FitsPayment(w, NextPair(w), NextAmount(w), 0)
  BY DEF CheckAllocation, Goto, Reads
<1>3. PICK a \in [Pairs -> Nat], worth \in [Payments -> Nat], paid, credited \in [Bills -> Nat] :
           /\ a = Seen(w) /\ worth = WorthSeen(w) /\ paid = PaidSeen(w) /\ credited = CreditedSeen(w)
           /\ Tables(a, worth, paid, credited) /\ Sound(tx[w], a, worth, paid, credited)
  BY <1>1, Sees
<1>4. AllocatedIn(a, tx[w].p) + tx[w].todo[1].amount <= worth[tx[w].p]
  <2>1. /\ tx[w].p \in Payments /\ NextAmount(w) = tx[w].todo[1].amount /\ NextAmount(w) \in Nat
        /\ NextPair(w)[1] = tx[w].p
    BY <1>1, FirstItem DEF ItemPcs, NextAmount
  <2>2. AllocatedIn(a, tx[w].p) - 0 + NextAmount(w) <= worth[tx[w].p]
    BY <1>2, <1>3, <2>1 DEF FitsPayment, WorthSeen
  <2>3. AllocatedIn(a, tx[w].p) \in Nat
    BY <1>3, <2>1 DEF Tables
  <2> QED
    BY <2>1, <2>2, <2>3
<1>5. Becomes(w, "upsert", tx[w].left, tx[w].todo, tx[w].paid)
  BY <1>2, TxNumbersOf, Becoming
<1>6. ASSUME NEW t, Alike(t, tx[w]), t.pc = "upsert", t.todo = tx[w].todo PROVE Sound(t, a, worth, paid, credited)
  <2>1. t.kind = "allocate" /\ t.p = tx[w].p
    BY <1>1, <1>6 DEF Alike
  <2>2. PaidKnown(t, a, paid) /\ Room(t, a, credited)
    BY <1>1, <1>3, <1>6 DEF Sound, PaidKnown, Room, Freed, Syncing
  <2>3. Affords(t, a, credited)
    BY <1>1, <1>3, <1>6 DEF Sound, Affords, Syncing, ItemPcs
  <2>4. Fits(t, a, worth) /\ Releases(t, a, worth)
    BY <1>4, <1>6, <2>1 DEF Fits, Releases, Repaying
  <2> QED
    BY <1>3, <2>2, <2>3, <2>4 DEF Sound
<1>7. Seen(w)' = a /\ WorthSeen(w)' = worth /\ PaidSeen(w)' = paid /\ CreditedSeen(w)' = credited
  BY <1>2, <1>3, SeenSame
<1> QED
  BY <1>1, <1>2, <1>5, <1>6, <1>7, SoundMove

\* A foreign key changes no table.
LEMMA LinkSound ==
  ASSUME SInv, TInv, OneAtATime, OneAtATime', NEW w \in Workers, LinkAllocation(w)
  PROVE  SInv'
<1>1. tx[w].kind = "allocate" /\ tx[w].pc = "link" /\ ~At(w, "idle") /\ UNCHANGED <<rows, own>>
  BY TxNumbersOf DEF LinkAllocation, At, Reaches, Paying, Repaying, Reads
<1>2. PICK a \in [Pairs -> Nat], worth \in [Payments -> Nat], paid, credited \in [Bills -> Nat] :
           /\ a = Seen(w) /\ worth = WorthSeen(w) /\ paid = PaidSeen(w) /\ credited = CreditedSeen(w)
           /\ Tables(a, worth, paid, credited) /\ Sound(tx[w], a, worth, paid, credited)
  BY <1>1, Sees
<1>3. Becomes(w, "sum", tx[w].left, tx[w].todo, tx[w].paid)
  <2>1. PICK x : tx' = [tx EXCEPT ![w].linked = x, ![w].pc = "sum"]
    BY DEF LinkAllocation
  <2> QED
    BY <2>1, TxNumbersOf, Becoming
<1>4. ASSUME NEW t, Alike(t, tx[w]), t.pc = "sum", t.todo = tx[w].todo PROVE Sound(t, a, worth, paid, credited)
  <2>1. t.kind = "allocate" /\ t.p = tx[w].p
    BY <1>1, <1>4 DEF Alike
  <2>2. PaidKnown(t, a, paid) /\ Room(t, a, credited)
    BY <1>1, <1>2, <1>4 DEF Sound, PaidKnown, Room, Freed, Syncing
  <2>3. Affords(t, a, credited)
    BY <1>1, <1>2, <1>4 DEF Sound, Affords, Syncing, ItemPcs
  <2>4. Fits(t, a, worth) /\ Releases(t, a, worth)
    BY <1>4, <2>1 DEF Fits, Releases, Repaying
  <2> QED
    BY <1>2, <2>2, <2>3, <2>4 DEF Sound
<1>5. Seen(w)' = a /\ WorthSeen(w)' = worth /\ PaidSeen(w)' = paid /\ CreditedSeen(w)' = credited
  BY <1>1, <1>2, SeenSame
<1> QED
  BY <1>1, <1>3, <1>4, <1>5, SoundMove

\* The sum that is read is the sum of the rows.
LEMMA SumPaidSound ==
  ASSUME SInv, TInv, OneAtATime, OneAtATime', NEW w \in Workers, SumPaid(w)
  PROVE  SInv'
<1>1. tx[w].pc = "sum" /\ ~At(w, "idle") /\ UNCHANGED <<rows, own>>
  BY DEF SumPaid, At, Reads
<1>2. PICK a \in [Pairs -> Nat], worth \in [Payments -> Nat], paid, credited \in [Bills -> Nat] :
           /\ a = Seen(w) /\ worth = WorthSeen(w) /\ paid = PaidSeen(w) /\ credited = CreditedSeen(w)
           /\ Tables(a, worth, paid, credited) /\ Sound(tx[w], a, worth, paid, credited)
  BY <1>1, Sees
<1>3. PICK sum : sum = PaidIn(a, tx[w].todo[1].bill)
  OBVIOUS
<1>4. Becomes(w, "sync", tx[w].left, tx[w].todo, sum)
  <2>1. Head(tx[w].todo) = tx[w].todo[1]
    BY <1>1, FirstItem DEF ItemPcs
  <2>2. tx' = [tx EXCEPT ![w].paid = sum, ![w].pc = "sync"]
    BY <1>2, <1>3, <2>1 DEF SumPaid
  <2> QED
    BY <2>2, TxNumbersOf, Becoming
<1>5. ASSUME NEW t, Alike(t, tx[w]), t.pc = "sync", t.todo = tx[w].todo, t.paid = sum
      PROVE  Sound(t, a, worth, paid, credited)
  <2>1. t.kind = tx[w].kind /\ t.p = tx[w].p /\ t.amount = tx[w].amount
    BY <1>5 DEF Alike
  <2>2. PaidKnown(t, a, paid) /\ Room(t, a, credited)
    BY <1>1, <1>2, <1>3, <1>5 DEF Sound, PaidKnown, Room, Freed, Syncing
  <2>3. Affords(t, a, credited)
    BY <1>1, <1>2, <1>5, <2>1 DEF Sound, Affords, Syncing, ItemPcs
  <2>4. \A goal : Goal(t, a, goal) <=> Goal(tx[w], a, goal)
    BY <1>5, <2>1 DEF Goal
  <2>5. Fits(t, a, worth) /\ Releases(t, a, worth)
    BY <1>1, <1>2, <1>5, <2>1, <2>4 DEF Sound, Fits, Releases
  <2> QED
    BY <1>2, <2>2, <2>3, <2>5 DEF Sound
<1>6. Seen(w)' = a /\ WorthSeen(w)' = worth /\ PaidSeen(w)' = paid /\ CreditedSeen(w)' = credited
  BY <1>1, <1>2, SeenSame
<1> QED
  BY <1>1, <1>4, <1>5, <1>6, SoundMove

-----------------------------------------------------------------------------
(* The steps that write. *)

\* The tables after an allocation has been written, after an invoice, after a
\* payment.
LEMMA SeenAfterPair ==
  ASSUME TInv, NEW w \in Workers, tx[w].pc \in ItemPcs, NEW s, NEW c, WritesItem(w, s, c)
  PROVE  /\ \E b \in [Pairs -> Nat] :
               /\ b = Seen(w)' /\ b[NextPair(w)] = NextAmount(w)
               /\ \A y \in Pairs : y # NextPair(w) => b[y] = Seen(w)[y]
         /\ WorthSeen(w)' = WorthSeen(w) /\ PaidSeen(w)' = PaidSeen(w) /\ CreditedSeen(w)' = CreditedSeen(w)
<1>1. PICK x, n : x = NextPair(w) /\ n = NextAmount(w)
  OBVIOUS
<1>2. x \in Pairs /\ n \in Nat
  BY <1>1, FirstItem
<1>3. WritePair(w, x, n, s) /\ s \in Nat /\ (n = 0 <=> s = 0) /\ UNCHANGED rows
  BY <1>1 DEF WritesItem
<1>4. /\ See(own'[w]) = [See(own[w]) EXCEPT ![x] = n]
      /\ own'[w].payment = own[w].payment /\ own'[w].invoice = own[w].invoice
  BY <1>2, <1>3, OwnAfterPair
<1>5. Seen(w)' = See(own'[w]) /\ Seen(w) = See(own[w])
  BY <1>3 DEF Seen, See, rows
<1>6. WorthSeen(w)' = WorthSeen(w)
  BY <1>3, <1>4 DEF rows, WorthSeen, PaymentSeen
<1>7. PaidSeen(w)' = PaidSeen(w) /\ CreditedSeen(w)' = CreditedSeen(w)
  BY <1>3, <1>4 DEF rows, PaidSeen, CreditedSeen, InvoiceSeen
<1>8. Seen(w) \in [Pairs -> Nat]
  BY SeenTyped
<1>9. PICK b : b = [Seen(w) EXCEPT ![x] = n]
  OBVIOUS
<1>10. b \in [Pairs -> Nat] /\ b = Seen(w)' /\ b[x] = n /\ \A y \in Pairs : y # x => b[y] = Seen(w)[y]
  BY <1>2, <1>4, <1>5, <1>8, <1>9
<1> QED
  BY <1>1, <1>6, <1>7, <1>10

\* The first item, and the sums after it has been written.
LEMMA ItemNext ==
  ASSUME TInv, NEW w \in Workers, tx[w].pc \in ItemPcs
  PROVE  \E p \in Payments, i \in Bills, n \in Nat :
           /\ p = tx[w].p /\ i = tx[w].todo[1].bill /\ n = tx[w].todo[1].amount
           /\ NextPair(w) = <<p, i>> /\ NextAmount(w) = n
BY FirstItem DEF NextAmount

\* The items of a transaction.
LEMMA ItemsOf ==
  ASSUME TInv, NEW w \in Workers, tx[w].pc \in ItemPcs
  PROVE  /\ 1 \in DOMAIN tx[w].todo
         /\ \A k \in DOMAIN tx[w].todo : tx[w].todo[k].bill \in Bills /\ tx[w].todo[k].amount \in Nat
         /\ \A k \in DOMAIN tx[w].todo : k # 1 => tx[w].todo[k].bill # tx[w].todo[1].bill
<1>1. ItemsTyped(tx[w])
  BY DEF TInv, WorkerTyped
<1>2. tx[w].todo \in Seq(Item) /\ tx[w].todo # <<>>
  BY <1>1 DEF ItemsTyped
<1>3. \A k \in DOMAIN tx[w].todo : tx[w].todo[k] \in Item
  BY <1>2
<1> QED
  BY <1>1, <1>2, <1>3, FirstItem DEF ItemsTyped, Item

\* An upsert leaves its invoice behind by one sync.
LEMMA UpsertSound ==
  ASSUME SInv, TInv, OneAtATime, OneAtATime', NEW w \in Workers, UpsertAllocation(w), ~Refuse(w)
  PROVE  SInv'
<1>1. PICK s, c : WritesItem(w, s, c) /\ tx[w].pc = "upsert" /\ tx[w].kind = "allocate" /\ ~At(w, "idle")
  BY UpsertWrites DEF At
<1>2. PICK a \in [Pairs -> Nat], worth \in [Payments -> Nat], paid, credited \in [Bills -> Nat] :
           /\ a = Seen(w) /\ worth = WorthSeen(w) /\ paid = PaidSeen(w) /\ credited = CreditedSeen(w)
           /\ Tables(a, worth, paid, credited) /\ Sound(tx[w], a, worth, paid, credited)
  BY <1>1, Sees
<1>3. PICK p \in Payments, i \in Bills, n \in Nat :
        /\ p = tx[w].p /\ i = tx[w].todo[1].bill /\ n = tx[w].todo[1].amount
        /\ NextPair(w) = <<p, i>> /\ NextAmount(w) = n
  BY <1>1, ItemNext DEF ItemPcs
<1>4. PICK todo : todo = tx[w].todo
  OBVIOUS
<1>b. PICK b \in [Pairs -> Nat] :
        /\ b = Seen(w)' /\ b[<<p, i>>] = n /\ \A x \in Pairs : x # <<p, i>> => b[x] = a[x]
  BY <1>1, <1>2, <1>3, SeenAfterPair DEF ItemPcs
<1>5. /\ AllocatedIn(b, p) = AllocatedIn(a, p) - a[<<p, i>>] + n
      /\ \A q \in Payments : q # p => AllocatedIn(b, q) = AllocatedIn(a, q)
      /\ PaidIn(b, i) = PaidIn(a, i) - a[<<p, i>>] + n
      /\ \A j \in Bills : j # i => PaidIn(b, j) = PaidIn(a, j)
  BY <1>b, PairChanges
<1>6. /\ 1 \in DOMAIN todo /\ todo[1].bill = i /\ todo[1].amount = n
      /\ \A k \in DOMAIN todo : todo[k].bill \in Bills /\ (k # 1 => todo[k].bill # i)
  BY <1>1, <1>3, <1>4, ItemsOf DEF ItemPcs
<1>7. a[<<p, i>>] \in Nat /\ AllocatedIn(a, p) \in Nat /\ worth[p] \in Nat
      /\ PaidIn(a, i) \in Nat /\ credited[i] \in Nat /\ Total[i] \in Nat
  BY <1>2 DEF Tables, Pairs
<1>8. AllocatedIn(a, p) + n <= worth[p] /\ PaidIn(a, i) + n + credited[i] <= Total[i]
  BY <1>1, <1>2, <1>3, <1>4, <1>6 DEF Sound, Fits, Affords, Syncing, ItemPcs
<1>9. AllocatedIn(b, p) <= worth[p] /\ PaidIn(b, i) + credited[i] <= Total[i]
  BY <1>5, <1>7, <1>8
<1>10. \A q \in Payments : AllocatedIn(b, q) <= worth[q]
  BY <1>2, <1>5, <1>9 DEF Sound
<1>11. \A j \in Bills : PaidIn(b, j) + credited[j] - 0 <= Total[j]
  <2>1. PaidIn(b, i) + credited[i] - 0 <= Total[i]
    <3>1. PaidIn(b, i) \in Int
      BY <1>5, <1>7
    <3> QED
      BY <1>7, <1>9, <3>1
  <2>2. \A j \in Bills : PaidIn(a, j) + credited[j] - 0 <= Total[j]
    BY <1>1, <1>2 DEF Sound, Room, Freed
  <2> QED
    BY <1>5, <2>1, <2>2
<1>12. \A j \in Bills : j = i \/ paid[j] = PaidIn(b, j)
  BY <1>1, <1>2, <1>5 DEF Sound, PaidKnown, Syncing
<1>13. ASSUME NEW k \in DOMAIN todo, k # 1
       PROVE  PaidIn(b, todo[k].bill) + todo[k].amount + credited[todo[k].bill] <= Total[todo[k].bill]
  BY <1>1, <1>2, <1>4, <1>5, <1>6, <1>13 DEF Sound, Affords, Syncing, ItemPcs
<1>14. Becomes(w, c, tx[w].left, todo, tx[w].paid)
  BY <1>1, <1>4, TxNumbersOf, Becoming DEF WritesItem, Goto
<1>15. ASSUME NEW t, Alike(t, tx[w]), t.pc = c, t.todo = todo PROVE Sound(t, b, worth, paid, credited)
  <2>1. t.kind = "allocate" /\ c \in {"link", "sum"}
    BY <1>1, <1>15 DEF Alike, WritesItem
  <2>2. PaidKnown(t, b, paid)
    BY <1>6, <1>12, <1>15, <2>1 DEF PaidKnown, Syncing
  <2>3. Room(t, b, credited)
    BY <1>11, <1>15, <2>1 DEF Room, Freed
  <2>4. Affords(t, b, credited)
    BY <1>6, <1>13, <1>15, <2>1 DEF Affords, Syncing
  <2>5. Fits(t, b, worth) /\ Releases(t, b, worth)
    BY <1>15, <2>1 DEF Fits, Releases, Repaying
  <2> QED
    BY <1>10, <2>2, <2>3, <2>4, <2>5 DEF Sound
<1>16. Seen(w)' = b /\ WorthSeen(w)' = worth /\ PaidSeen(w)' = paid /\ CreditedSeen(w)' = credited
  BY <1>1, <1>2, <1>3, <1>b, SeenAfterPair DEF ItemPcs
<1>17. UNCHANGED rows
  BY <1>1 DEF WritesItem
<1> QED
  BY <1>1, <1>14, <1>15, <1>16, <1>17, SoundMove

\* A release takes from the payment what it picked, and its invoice waits for
\* a sync.
LEMMA ReleaseSound ==
  ASSUME SInv, TInv, OneAtATime, OneAtATime', NEW w \in Workers, ReleaseAllocation(w), ~Refuse(w)
  PROVE  SInv'
<1>1. PICK s : WritesItem(w, s, "sum") /\ tx[w].pc = "release" /\ tx[w].kind \in Repaying /\ ~At(w, "idle")
  BY ReleaseWrites DEF At
<1>2. PICK a \in [Pairs -> Nat], worth \in [Payments -> Nat], paid, credited \in [Bills -> Nat] :
           /\ a = Seen(w) /\ worth = WorthSeen(w) /\ paid = PaidSeen(w) /\ credited = CreditedSeen(w)
           /\ Tables(a, worth, paid, credited) /\ Sound(tx[w], a, worth, paid, credited)
  BY <1>1, Sees
<1>3. PICK p \in Payments, i \in Bills, n \in Nat :
        /\ p = tx[w].p /\ i = tx[w].todo[1].bill /\ n = tx[w].todo[1].amount
        /\ NextPair(w) = <<p, i>> /\ NextAmount(w) = n
  BY <1>1, ItemNext DEF ItemPcs
<1>4. PICK todo : todo = tx[w].todo
  OBVIOUS
<1>5. PICK b \in [Pairs -> Nat] :
        /\ b = Seen(w)' /\ b[<<p, i>>] = n /\ \A x \in Pairs : x # <<p, i>> => b[x] = a[x]
  BY <1>1, <1>2, <1>3, SeenAfterPair DEF ItemPcs
<1>6. /\ AllocatedIn(b, p) = AllocatedIn(a, p) - a[<<p, i>>] + n
      /\ \A q \in Payments : q # p => AllocatedIn(b, q) = AllocatedIn(a, q)
      /\ PaidIn(b, i) = PaidIn(a, i) - a[<<p, i>>] + n
      /\ \A j \in Bills : j # i => PaidIn(b, j) = PaidIn(a, j)
  BY <1>5, PairChanges
<1>7. /\ 1 \in DOMAIN todo /\ todo[1].bill = i /\ todo[1].amount = n
      /\ \A k \in DOMAIN todo : todo[k].bill \in Bills /\ (k # 1 => todo[k].bill # i)
  BY <1>1, <1>3, <1>4, ItemsOf DEF ItemPcs
<1>8. a[<<p, i>>] \in Nat /\ AllocatedIn(a, p) \in Nat /\ worth[p] \in Nat
      /\ PaidIn(a, i) \in Nat /\ credited[i] \in Nat /\ Total[i] \in Nat
  BY <1>2 DEF Tables, Pairs
<1>9. n <= a[<<p, i>>]
  BY <1>1, <1>2, <1>3, <1>4, <1>7 DEF Sound, Releases
<1>10. AllocatedIn(b, p) <= worth[p]
  <2>1. AllocatedIn(a, p) <= worth[p]
    BY <1>2 DEF Sound
  <2> QED
    BY <1>6, <1>8, <1>9, <2>1
<1>11. \A q \in Payments : AllocatedIn(b, q) <= worth[q]
  BY <1>2, <1>6, <1>10 DEF Sound
<1>12. \A j \in Bills : PaidIn(b, j) + credited[j] - 0 <= Total[j]
  <2>1. PaidIn(b, i) + credited[i] - 0 <= Total[i]
    <3>1. CASE tx[w].kind = "credit"
      <4>1. i = tx[w].bill
        BY <1>1, <1>3, <3>1 DEF TInv, WorkerTyped, ItemsTyped, ItemPcs
      <4>2. PaidIn(a, i) + credited[i] - (a[<<p, i>>] - n) <= Total[i]
        BY <1>1, <1>2, <1>3, <3>1, <4>1 DEF Sound, Room, Freed
      <4> QED
        BY <1>6, <1>8, <4>2
    <3>2. CASE tx[w].kind # "credit"
      <4>1. PaidIn(a, i) + credited[i] - 0 <= Total[i]
        BY <1>2, <3>2 DEF Sound, Room, Freed
      <4> QED
        BY <1>6, <1>8, <1>9, <4>1
    <3> QED
      BY <3>1, <3>2
  <2>2. ASSUME NEW j \in Bills, j # i PROVE PaidIn(a, j) + credited[j] - 0 <= Total[j]
    <3>1. tx[w].kind = "credit" => tx[w].bill = i
      BY <1>1, <1>3 DEF TInv, WorkerTyped, ItemsTyped, ItemPcs
    <3>2. Freed(tx[w], a, j) = 0
      BY <2>2, <3>1 DEF Freed
    <3> QED
      BY <1>2, <3>2 DEF Sound, Room
  <2> QED
    BY <1>6, <2>1, <2>2
<1>13. \A j \in Bills : j = i \/ paid[j] = PaidIn(b, j)
  BY <1>1, <1>2, <1>6 DEF Sound, PaidKnown, Syncing
<1>14. \A k \in DOMAIN todo : /\ <<p, todo[k].bill>> \in Pairs /\ todo[k].amount <= b[<<p, todo[k].bill>>]
  <2> SUFFICES ASSUME NEW k \in DOMAIN todo
               PROVE  <<p, todo[k].bill>> \in Pairs /\ todo[k].amount <= b[<<p, todo[k].bill>>]
    OBVIOUS
  <2>1. <<p, todo[k].bill>> \in Pairs
    BY <1>7 DEF Pairs
  <2>2. todo[k].amount <= a[<<p, todo[k].bill>>]
    BY <1>1, <1>2, <1>3, <1>4 DEF Sound, Releases
  <2>3. CASE k = 1
    BY <1>5, <1>7, <2>1, <2>3
  <2>4. CASE k # 1
    <3>1. <<p, todo[k].bill>> # <<p, i>>
      BY <1>7, <2>4
    <3>2. b[<<p, todo[k].bill>>] = a[<<p, todo[k].bill>>]
      BY <1>5, <2>1, <3>1
    <3> QED
      BY <2>1, <2>2, <3>2
  <2> QED
    BY <2>3, <2>4
<1>15. Becomes(w, "sum", tx[w].left, todo, tx[w].paid)
  BY <1>1, <1>4, TxNumbersOf, Becoming DEF WritesItem, Goto
<1>16. ASSUME NEW t, Alike(t, tx[w]), t.pc = "sum", t.todo = todo PROVE Sound(t, b, worth, paid, credited)
  <2>1. t.kind \in Repaying /\ t.kind = tx[w].kind /\ t.p = p /\ t.amount = tx[w].amount
    BY <1>1, <1>3, <1>16 DEF Alike
  <2>2. PaidKnown(t, b, paid)
    BY <1>7, <1>13, <1>16 DEF PaidKnown, Syncing
  <2>3. Room(t, b, credited)
    BY <1>12, <1>16 DEF Room, Freed
  <2>4. Affords(t, b, credited) /\ Fits(t, b, worth)
    BY <1>16, <2>1 DEF Affords, Fits, Repaying
  <2>5. ASSUME NEW goal, Goal(t, b, goal) PROVE Goal(tx[w], a, goal)
    <3>1. \A j \in Bills : (\A k \in DOMAIN todo : todo[k].bill # j) => goal[j] = b[<<p, j>>]
      BY <1>16, <2>1, <2>5 DEF Goal
    <3>2. ASSUME NEW j \in Bills, \A k \in DOMAIN todo : todo[k].bill # j PROVE goal[j] = a[<<p, j>>]
      <4>1. <<p, j>> \in Pairs /\ <<p, j>> # <<p, i>>
        BY <1>7, <3>2 DEF Pairs
      <4> QED
        BY <1>5, <3>1, <3>2, <4>1
    <3> QED
      BY <1>3, <1>4, <1>16, <2>5, <3>2 DEF Goal
  <2>6. \A goal : Goal(t, b, goal) => SumOf(goal, Bills) <= worth[p] - t.amount
    BY <1>1, <1>2, <1>3, <2>1, <2>5 DEF Sound, Releases
  <2>7. Releases(t, b, worth)
    BY <1>5, <1>7, <1>14, <1>16, <2>1, <2>6 DEF Releases
  <2> QED
    BY <1>11, <2>2, <2>3, <2>4, <2>7 DEF Sound
<1>17. b = Seen(w)' /\ WorthSeen(w)' = worth /\ PaidSeen(w)' = paid /\ CreditedSeen(w)' = credited /\ UNCHANGED rows
  BY <1>1, <1>2, <1>5, SeenAfterPair DEF ItemPcs, WritesItem
<1> QED
  BY <1>1, <1>15, <1>16, <1>17, SoundMove

LEMMA SeenAfterInvoice ==
  ASSUME TInv, NEW w \in Workers, UNCHANGED rows, NEW i \in Bills, NEW row, row.paid \in Nat, row.credited \in Nat,
         WriteInvoice(w, i, row)
  PROVE  /\ Seen(w)' = Seen(w) /\ WorthSeen(w)' = WorthSeen(w)
         /\ \E paid \in [Bills -> Nat] : /\ paid = PaidSeen(w)' /\ paid[i] = row.paid
                                         /\ \A j \in Bills : j # i => paid[j] = PaidSeen(w)[j]
         /\ \E credited \in [Bills -> Nat] : /\ credited = CreditedSeen(w)' /\ credited[i] = row.credited
                                             /\ \A j \in Bills : j # i => credited[j] = CreditedSeen(w)[j]
<1>1. /\ own'[w].payment = own[w].payment /\ own'[w].allocation = own[w].allocation
      /\ own'[w].invoice = Put(own[w].invoice, i, row)
  BY OwnAfterInvoice
<1>2. UNCHANGED <<payment, allocation, invoice>>
  BY DEF rows
<1>3. Seen(w)' = Seen(w) /\ WorthSeen(w)' = WorthSeen(w)
  BY <1>1, <1>2 DEF Seen, WorthSeen, PaymentSeen
<1>4. \A j \in Bills : Over(Put(own[w].invoice, i, row), invoice)[j] = IF j = i THEN row ELSE InvoiceSeen(w, j)
  BY DEF Over, Put, InvoiceSeen, TInv, RowsTyped
<1>5. PICK g : g = [j \in Bills |-> IF j = i THEN row ELSE InvoiceSeen(w, j)]
  OBVIOUS
<1>6. /\ PaidSeen(w)' = [j \in Bills |-> g[j].paid] /\ CreditedSeen(w)' = [j \in Bills |-> g[j].credited]
  BY <1>1, <1>2, <1>4, <1>5 DEF PaidSeen, CreditedSeen, InvoiceSeen
<1>7. g[i] = row /\ \A j \in Bills : j # i => g[j] = InvoiceSeen(w, j)
  BY <1>5
<1>8. \A j \in Bills : InvoiceSeen(w, j).paid \in Nat /\ InvoiceSeen(w, j).credited \in Nat
  BY InvoiceIsTyped DEF IsInvoice
<1>9. \A j \in Bills : g[j].paid \in Nat /\ g[j].credited \in Nat
  BY <1>7, <1>8
<1>10. PICK paid : paid = [j \in Bills |-> g[j].paid]
  OBVIOUS
<1>11. PICK credited : credited = [j \in Bills |-> g[j].credited]
  OBVIOUS
<1>12. paid \in [Bills -> Nat] /\ paid = PaidSeen(w)' /\ paid[i] = row.paid
       /\ \A j \in Bills : j # i => paid[j] = PaidSeen(w)[j]
  BY <1>6, <1>7, <1>9, <1>10 DEF PaidSeen
<1>13. credited \in [Bills -> Nat] /\ credited = CreditedSeen(w)' /\ credited[i] = row.credited
       /\ \A j \in Bills : j # i => credited[j] = CreditedSeen(w)[j]
  BY <1>6, <1>7, <1>9, <1>11 DEF CreditedSeen
<1> QED
  BY <1>3, <1>12, <1>13

LEMMA SeenAfterPayment ==
  ASSUME TInv, NEW w \in Workers, UNCHANGED rows, NEW p \in Payments, NEW row, Worth(row) \in Nat,
         WritePayment(w, p, row)
  PROVE  /\ Seen(w)' = Seen(w) /\ PaidSeen(w)' = PaidSeen(w) /\ CreditedSeen(w)' = CreditedSeen(w)
         /\ \E worth \in [Payments -> Nat] : /\ worth = WorthSeen(w)' /\ worth[p] = Worth(row)
                                             /\ \A q \in Payments : q # p => worth[q] = WorthSeen(w)[q]
<1>1. /\ own'[w].invoice = own[w].invoice /\ own'[w].allocation = own[w].allocation
      /\ own'[w].payment = Put(own[w].payment, p, row)
  BY OwnAfterPayment
<1>2. UNCHANGED <<payment, allocation, invoice>>
  BY DEF rows
<1>3. Seen(w)' = Seen(w) /\ PaidSeen(w)' = PaidSeen(w) /\ CreditedSeen(w)' = CreditedSeen(w)
  BY <1>1, <1>2 DEF Seen, PaidSeen, CreditedSeen, InvoiceSeen
<1>4. \A q \in Payments : Over(Put(own[w].payment, p, row), payment)[q] = IF q = p THEN row ELSE PaymentSeen(w, q)
  BY DEF Over, Put, PaymentSeen, TInv, RowsTyped
<1>5. PICK g : g = [q \in Payments |-> IF q = p THEN row ELSE PaymentSeen(w, q)]
  OBVIOUS
<1>6. WorthSeen(w)' = [q \in Payments |-> Worth(g[q])]
  BY <1>1, <1>2, <1>4, <1>5 DEF WorthSeen, PaymentSeen
<1>7. g[p] = row /\ \A q \in Payments : q # p => g[q] = PaymentSeen(w, q)
  BY <1>5
<1>8. \A q \in Payments : Worth(g[q]) \in Nat
  BY <1>7, PaymentIsTyped
<1>9. PICK worth : worth = [q \in Payments |-> Worth(g[q])]
  OBVIOUS
<1>10. worth \in [Payments -> Nat] /\ worth = WorthSeen(w)' /\ worth[p] = Worth(row)
       /\ \A q \in Payments : q # p => worth[q] = WorthSeen(w)[q]
  BY <1>6, <1>7, <1>8, <1>9 DEF WorthSeen
<1> QED
  BY <1>3, <1>10

\* The new payment has no allocations.
LEMMA InsertPaymentSound ==
  ASSUME SInv, TInv, OneAtATime, OneAtATime', NEW w \in Workers, InsertPayment(w)
  PROVE  SInv'
<1>1. tx[w].p \in Payments /\ tx[w].pc = "insert" /\ ~At(w, "idle") /\ own[w] = NoWrites /\ tx[w].amount \in Nat
  BY TxNumbersOf DEF InsertPayment, At, Reaches, Paying, Repaying, TInv, WorkerTyped, Untouched
<1>2. PICK c : c \in {"read", "done"} /\ Goto(w, c) /\ UNCHANGED <<rows, tries>>
  BY DEF InsertPayment, Writes
<1>3. Becomes(w, c, tx[w].left, tx[w].todo, tx[w].paid)
  BY <1>2, TxNumbersOf, Becoming DEF Goto
<1>4. CASE UNCHANGED own
  BY <1>1, <1>2, <1>3, <1>4, QuietRead DEF ItemPcs
<1>5. CASE payment[tx[w].p].amount = 0 /\ WritePayment(w, tx[w].p, [amount |-> tx[w].amount, refunded |-> 0])
  <2>1. PICK a \in [Pairs -> Nat], worth \in [Payments -> Nat], paid, credited \in [Bills -> Nat] :
           /\ a = Seen(w) /\ worth = WorthSeen(w) /\ paid = PaidSeen(w) /\ credited = CreditedSeen(w)
           /\ Tables(a, worth, paid, credited) /\ Sound(tx[w], a, worth, paid, credited)
    BY <1>1, Sees
  <2>2. Balanced(a, worth, paid, credited)
    BY <1>1, <2>1, QuietSound
  <2>3. PICK p \in Payments, n \in Nat : p = tx[w].p /\ n = tx[w].amount
    BY <1>1
  <2>4. PICK row : row = [amount |-> n, refunded |-> 0]
    OBVIOUS
  <2>5. Worth(row) = n /\ WritePayment(w, p, row)
    BY <1>5, <2>3, <2>4 DEF Worth
  <2>6. PICK after \in [Payments -> Nat] :
          after = WorthSeen(w)' /\ after[p] = n /\ \A q \in Payments : q # p => after[q] = worth[q]
    BY <1>2, <2>1, <2>5, SeenAfterPayment
  <2>7. worth[p] = 0
    <3>1. p \notin DOMAIN own[w].payment
      BY <1>1 DEF NoWrites
    <3>2. PaymentSeen(w, p) = payment[p] /\ IsPayment(PaymentSeen(w, p)) /\ payment[p].amount = 0
      BY <1>5, <2>3, <3>1, PaymentIsTyped
    <3>3. Worth(PaymentSeen(w, p)) = 0
      BY <3>2 DEF Worth, IsPayment, PayRow
    <3> QED
      BY <2>1, <3>3 DEF WorthSeen
  <2>8. \A q \in Payments : AllocatedIn(a, q) <= after[q]
    <3>1. AllocatedIn(a, p) \in Nat /\ AllocatedIn(a, p) <= 0
      BY <2>1, <2>2, <2>7 DEF Balanced, Tables
    <3> QED
      BY <2>2, <2>6, <3>1 DEF Balanced
  <2>9. Balanced(a, after, paid, credited) /\ Tables(a, after, paid, credited)
    BY <2>1, <2>2, <2>8 DEF Balanced, Tables
  <2>10. \A t : t.pc = c => Sound(t, a, after, paid, credited)
    <3>1. \A t : t.pc = c => Quiet(t)
      BY <1>2 DEF Quiet, ItemPcs
    <3> QED
      BY <2>9, <3>1, QuietSound
  <2>11. Seen(w)' = a /\ WorthSeen(w)' = after /\ PaidSeen(w)' = paid /\ CreditedSeen(w)' = credited
    BY <1>2, <2>1, <2>5, <2>6, SeenAfterPayment
  <2> QED
    BY <1>1, <1>2, <1>3, <2>10, <2>11, SoundMove
<1>6. payment[tx[w].p].amount > 0 \/ payment[tx[w].p].amount = 0
  BY <1>1 DEF TInv, RowsTyped, PayRow
<1> QED
  BY <1>4, <1>5, <1>6 DEF InsertPayment

\* The allocations of a payment and their sum.
LEMMA AllocationsOf ==
  ASSUME NEW a \in [Pairs -> Nat], NEW p \in Payments
  PROVE  \E f \in [Bills -> Nat] : (\A i \in Bills : f[i] = a[<<p, i>>]) /\ AllocatedIn(a, p) = SumOf(f, Bills)
<1>1. PICK f : f = [i \in Bills |-> a[<<p, i>>]]
  OBVIOUS
<1>2. f \in [Bills -> Nat] /\ \A i \in Bills : f[i] = a[<<p, i>>]
  BY <1>1 DEF Pairs
<1>3. AllocatedIn(a, p) = SumOf(f, Bills)
  BY <1>1, AllocatedIsSum
<1> QED
  BY <1>2, <1>3

\* A sync brings the invoice up to date with its allocations.
LEMMA SyncSound ==
  ASSUME SInv, TInv, OneAtATime, OneAtATime', NEW w \in Workers, SyncInvoice(w)
  PROVE  SInv'
<1>1. PICK s, c, rest :
        /\ s \in Seq(Item) /\ s = tx[w].todo /\ s # <<>> /\ rest = Tail(s)
        /\ tx' = [tx EXCEPT ![w].todo = rest, ![w].paid = 0, ![w].pc = c]
        /\ c \in (IF tx[w].kind = "allocate" THEN {"check", "done"} ELSE {"release", "repay"})
        /\ c \in {"check", "release"} => Len(s) > 1
        /\ c = "release" => tx[w].kind = "refund"
        /\ c = "repay" => Len(s) = 1 \/ tx[w].kind = "credit"
  BY SyncMoves
<1>2. /\ tx[w].pc = "sync" /\ (tx[w].kind = "allocate" \/ tx[w].kind \in Repaying)
      /\ UNCHANGED <<rows, tries>> /\ ~At(w, "idle")
  BY SyncMoves DEF At
<1>3. PICK a \in [Pairs -> Nat], worth \in [Payments -> Nat], paid, credited \in [Bills -> Nat] :
           /\ a = Seen(w) /\ worth = WorthSeen(w) /\ paid = PaidSeen(w) /\ credited = CreditedSeen(w)
           /\ Tables(a, worth, paid, credited) /\ Sound(tx[w], a, worth, paid, credited)
  BY <1>2, Sees
<1>4. PICK p \in Payments, i \in Bills, n \in Nat : p = tx[w].p /\ i = tx[w].todo[1].bill /\ n = tx[w].todo[1].amount
  BY <1>2, ItemNext DEF ItemPcs
<1>5. PICK row : row = [InvoiceSeen(w, i) EXCEPT !.paid = tx[w].paid,
                                                 !.status = StatusAfter(i, InvoiceSeen(w, i), tx[w].paid)]
  OBVIOUS
<1>6. row.paid = tx[w].paid /\ tx[w].paid \in Nat /\ row.credited = credited[i] /\ row.credited \in Nat
  BY <1>3, <1>5, InvoiceIsTyped, TxNumbersOf DEF IsInvoice, CreditedSeen
<1>7. WriteInvoice(w, i, row)
  <2>1. Head(tx[w].todo).bill = i
    BY <1>2, <1>4, FirstItem DEF ItemPcs
  <2> QED
    BY <1>5, <2>1 DEF SyncInvoice
<1>8. PICK known \in [Bills -> Nat] :
        known = PaidSeen(w)' /\ known[i] = tx[w].paid /\ \A j \in Bills : j # i => known[j] = paid[j]
  BY <1>2, <1>3, <1>6, <1>7, SeenAfterInvoice
<1>9. CreditedSeen(w)' = credited
  <2>1. PICK f \in [Bills -> Nat] :
          f = CreditedSeen(w)' /\ f[i] = row.credited /\ \A j \in Bills : j # i => f[j] = credited[j]
    BY <1>2, <1>3, <1>6, <1>7, SeenAfterInvoice
  <2>2. \A j \in Bills : f[j] = credited[j]
    BY <1>6, <2>1
  <2> QED
    BY <2>1, <2>2
<1>10. Seen(w)' = a /\ WorthSeen(w)' = worth
  BY <1>2, <1>3, <1>6, <1>7, SeenAfterInvoice
<1>11. \A j \in Bills : known[j] = PaidIn(a, j)
  <2>1. tx[w].paid = PaidIn(a, i)
    BY <1>2, <1>3, <1>4 DEF Sound, PaidKnown
  <2>2. \A j \in Bills : j = i \/ paid[j] = PaidIn(a, j)
    BY <1>3, <1>4 DEF Sound, PaidKnown, Syncing
  <2> QED
    BY <1>8, <2>1, <2>2
<1>12. /\ Len(rest) = Len(s) - 1 /\ Len(s) \in Nat /\ DOMAIN s = 1 .. Len(s)
       /\ \A k \in DOMAIN rest : k \in Nat /\ k + 1 \in DOMAIN s /\ rest[k] = s[k + 1] /\ k + 1 # 1
       /\ DOMAIN rest = 1 .. (Len(s) - 1)
  BY <1>1, Tails
<1>13. /\ 1 \in DOMAIN s /\ s[1].bill = i /\ s[1].amount = n
       /\ \A k \in DOMAIN s : s[k].bill \in Bills /\ (k # 1 => s[k].bill # i)
  BY <1>1, <1>2, <1>4, ItemsOf DEF ItemPcs
<1>14. Becomes(w, c, tx[w].left, rest, 0)
  BY <1>1, TxNumbersOf, Becoming
<1>15. tx[w].kind \in Repaying =>
          /\ \A goal : Goal(tx[w], a, goal) => SumOf(goal, Bills) <= worth[p] - tx[w].amount
          /\ \A k \in DOMAIN s : s[k].amount <= a[<<p, s[k].bill>>]
          /\ a[<<p, i>>] = n
  BY <1>1, <1>2, <1>3, <1>4 DEF Sound, Releases
<1>16. ASSUME NEW t, Alike(t, tx[w]), t.pc = c, t.todo = rest PROVE Sound(t, a, worth, known, credited)
  <2>1. /\ t.kind = tx[w].kind /\ t.p = p /\ t.amount = tx[w].amount
        /\ c \in {"check", "done", "release", "repay"} /\ (c = "release" => t.kind = "refund")
        /\ (c = "check" => t.kind = "allocate")
    BY <1>1, <1>4, <1>16 DEF Alike
  <2>2. PaidKnown(t, a, known) /\ Fits(t, a, worth)
    BY <1>11, <1>16, <2>1 DEF PaidKnown, Fits
  <2>3. Room(t, a, credited)
    BY <1>2, <1>3, <1>16, <2>1 DEF Sound, Room, Freed
  <2>4. Affords(t, a, credited)
    <3> SUFFICES ASSUME t.kind = "allocate", NEW k \in DOMAIN rest, NEW j, j = rest[k].bill
                 PROVE  PaidIn(a, j) + rest[k].amount + credited[j] <= Total[j]
      BY <1>16 DEF Affords
    <3>1. PICK m \in DOMAIN s : s[m] = rest[k] /\ s[m].bill # i
      BY <1>12, <1>13
    <3> QED
      BY <1>1, <1>2, <1>3, <1>4, <2>1, <3>1 DEF Sound, Affords, Syncing, ItemPcs
  <2>5. t.kind \in Repaying /\ c = "release" => \A goal : Goal(t, a, goal) => SumOf(goal, Bills) <= worth[p] - t.amount
    <3> SUFFICES ASSUME t.kind \in Repaying, NEW goal, Goal(t, a, goal) PROVE Goal(tx[w], a, goal)
      BY <1>15, <2>1
    <3>1. /\ goal \in [Bills -> Nat] /\ \A k \in DOMAIN rest : goal[rest[k].bill] = rest[k].amount
          /\ \A j \in Bills : (\A k \in DOMAIN rest : rest[k].bill # j) => goal[j] = a[<<p, j>>]
      BY <1>16, <2>1 DEF Goal
    <3>2. \A k \in DOMAIN s : k = 1 \/ (k - 1 \in DOMAIN rest /\ rest[k - 1] = s[k])
      <4>1. PICK d \in Nat : d = Len(s)
        BY <1>12
      <4>2. DOMAIN s = 1 .. d /\ DOMAIN rest = 1 .. (d - 1) /\ \A k \in DOMAIN rest : rest[k] = s[k + 1]
        BY <1>12, <4>1
      <4> SUFFICES ASSUME NEW k \in 1 .. d, k # 1 PROVE k - 1 \in DOMAIN rest /\ rest[k - 1] = s[k]
        BY <4>2
      <4>3. PICK m \in 1 .. (d - 1) : m = k - 1 /\ m + 1 = k
        OBVIOUS
      <4>4. rest[m] = s[m + 1]
        BY <4>2, <4>3
      <4> QED
        BY <4>2, <4>3, <4>4
    <3>3. \A k \in DOMAIN rest : rest[k].bill # i
      BY <1>12, <1>13
    <3>4. goal[i] = n
      BY <1>15, <2>1, <3>1, <3>3
    <3>5. \A k \in DOMAIN s : goal[s[k].bill] = s[k].amount
      <4> SUFFICES ASSUME NEW k \in DOMAIN s PROVE goal[s[k].bill] = s[k].amount
        OBVIOUS
      <4>1. CASE k = 1
        BY <1>13, <3>4, <4>1
      <4>2. CASE k # 1
        <5>1. PICK m \in DOMAIN rest : rest[m] = s[k]
          BY <3>2, <4>2
        <5> QED
          BY <3>1, <5>1
      <4> QED
        BY <4>1, <4>2
    <3>6. \A j \in Bills : (\A k \in DOMAIN s : s[k].bill # j) => goal[j] = a[<<p, j>>]
      BY <1>12, <3>1
    <3> QED
      BY <1>1, <1>4, <3>1, <3>5, <3>6 DEF Goal
  <2>6. t.kind \in Repaying => \A k \in DOMAIN rest : rest[k].amount <= a[<<p, rest[k].bill>>]
    BY <1>12, <1>15, <2>1
  <2>7. t.kind \in Repaying /\ c = "repay" => AllocatedIn(a, p) <= worth[p] - t.amount
    <3> SUFFICES ASSUME t.kind \in Repaying, c = "repay" PROVE AllocatedIn(a, p) <= worth[p] - t.amount
      OBVIOUS
    <3>1. Len(s) = 1
      BY <1>1, <1>2 DEF TInv, WorkerTyped, ItemsTyped, ItemPcs
    <3>2. DOMAIN s = {1}
      BY <1>12, <3>1
    <3>3. PICK f \in [Bills -> Nat] : (\A j \in Bills : f[j] = a[<<p, j>>]) /\ AllocatedIn(a, p) = SumOf(f, Bills)
      BY AllocationsOf
    <3>4. f[i] = n
      BY <1>15, <2>1, <3>3
    <3>5. Goal(tx[w], a, f)
      BY <1>1, <1>4, <1>13, <3>2, <3>3, <3>4 DEF Goal
    <3> QED
      BY <1>15, <2>1, <3>3, <3>5
  <2>8. Releases(t, a, worth)
    BY <1>16, <2>1, <2>5, <2>6, <2>7 DEF Releases
  <2> QED
    BY <1>3, <2>2, <2>3, <2>4, <2>8 DEF Sound
<1> QED
  BY <1>2, <1>8, <1>9, <1>10, <1>14, <1>16, SoundMove

\* A repayment takes off the payment what has been released.
LEMMA RepaySound ==
  ASSUME SInv, TInv, OneAtATime, OneAtATime', NEW w \in Workers, RepayPayment(w), ~Refuse(w)
  PROVE  SInv'
<1>1. tx[w].p \in Payments /\ tx[w].kind \in Repaying /\ tx[w].pc = "repay" /\ ~At(w, "idle") /\ tx[w].amount \in Nat
  BY TxNumbersOf DEF RepayPayment, At, Reaches, Paying, Repaying
<1>2. PICK a \in [Pairs -> Nat], worth \in [Payments -> Nat], paid, credited \in [Bills -> Nat] :
           /\ a = Seen(w) /\ worth = WorthSeen(w) /\ paid = PaidSeen(w) /\ credited = CreditedSeen(w)
           /\ Tables(a, worth, paid, credited) /\ Sound(tx[w], a, worth, paid, credited)
  BY <1>1, Sees
<1>3. PICK p \in Payments, n \in Nat : p = tx[w].p /\ n = tx[w].amount
  BY <1>1
<1>4. PICK row : row = [PaymentSeen(w, p) EXCEPT !.refunded = @ + n]
  OBVIOUS
<1>5. Goto(w, "done") /\ UNCHANGED <<rows, tries>> /\ WritePayment(w, p, row) /\ Worth(row) >= 0
  BY <1>3, <1>4 DEF RepayPayment, Writes
<1>6. Worth(row) = worth[p] - n
  BY <1>2, <1>4, PaymentIsTyped DEF IsPayment, PayRow, Worth, WorthSeen
<1>7. Worth(row) \in Nat
  BY <1>5, <1>6
<1>8. PICK after \in [Payments -> Nat] :
        after = WorthSeen(w)' /\ after[p] = worth[p] - n /\ \A q \in Payments : q # p => after[q] = worth[q]
  BY <1>2, <1>5, <1>6, <1>7, SeenAfterPayment
<1>9. AllocatedIn(a, p) <= worth[p] - n
  BY <1>1, <1>2, <1>3 DEF Sound, Releases
<1>10. Balanced(a, after, paid, credited) /\ Tables(a, after, paid, credited)
  <2>1. Balanced(a, worth, paid, credited)
    BY <1>1, <1>2, QuietSound
  <2>2. \A q \in Payments : AllocatedIn(a, q) <= after[q]
    BY <1>8, <1>9, <2>1 DEF Balanced
  <2> QED
    BY <1>2, <2>1, <2>2 DEF Balanced, Tables
<1>11. \A t : t.pc = "done" => Sound(t, a, after, paid, credited)
  <2>1. \A t : t.pc = "done" => Quiet(t)
    BY DEF Quiet, ItemPcs
  <2> QED
    BY <1>10, <2>1, QuietSound
<1>12. Becomes(w, "done", tx[w].left, tx[w].todo, tx[w].paid)
  BY <1>5, TxNumbersOf, Becoming DEF Goto
<1>13. Seen(w)' = a /\ PaidSeen(w)' = paid /\ CreditedSeen(w)' = credited
  BY <1>2, <1>5, <1>7, SeenAfterPayment
<1> QED
  BY <1>1, <1>5, <1>8, <1>11, <1>12, <1>13, SoundMove

\* A void changes no amount.
LEMMA VoidSound ==
  ASSUME SInv, TInv, OneAtATime, OneAtATime', NEW w \in Workers, VoidInvoice(w)
  PROVE  SInv'
<1>1. tx[w].bill \in Bills /\ tx[w].pc = "void" /\ ~At(w, "idle")
  BY TxNumbersOf DEF VoidInvoice, At, Reaches, Paying, Repaying
<1>2. PICK a \in [Pairs -> Nat], worth \in [Payments -> Nat], paid, credited \in [Bills -> Nat] :
           /\ a = Seen(w) /\ worth = WorthSeen(w) /\ paid = PaidSeen(w) /\ credited = CreditedSeen(w)
           /\ Tables(a, worth, paid, credited) /\ Sound(tx[w], a, worth, paid, credited)
  BY <1>1, Sees
<1>a. PICK i \in Bills : i = tx[w].bill
  BY <1>1
<1>b. PICK row : row = [InvoiceSeen(w, i) EXCEPT !.status = "void"]
  OBVIOUS
<1>3. i = tx[w].bill /\ row = [InvoiceSeen(w, i) EXCEPT !.status = "void"]
  BY <1>a, <1>b
<1>4. row.paid = paid[i] /\ row.credited = credited[i] /\ row.paid \in Nat /\ row.credited \in Nat
  BY <1>2, <1>3, InvoiceIsTyped DEF IsInvoice, PaidSeen, CreditedSeen
<1>5. WriteInvoice(w, i, row) /\ Goto(w, "done") /\ UNCHANGED <<rows, tries>>
  BY <1>3 DEF VoidInvoice, Writes
<1>6. PaidSeen(w)' = paid /\ CreditedSeen(w)' = credited /\ Seen(w)' = a /\ WorthSeen(w)' = worth
  <2>1. PICK f \in [Bills -> Nat] :
          f = PaidSeen(w)' /\ f[i] = row.paid /\ \A j \in Bills : j # i => f[j] = paid[j]
    BY <1>2, <1>4, <1>5, SeenAfterInvoice
  <2>2. PICK g \in [Bills -> Nat] :
          g = CreditedSeen(w)' /\ g[i] = row.credited /\ \A j \in Bills : j # i => g[j] = credited[j]
    BY <1>2, <1>4, <1>5, SeenAfterInvoice
  <2>3. \A j \in Bills : f[j] = paid[j] /\ g[j] = credited[j]
    BY <1>4, <2>1, <2>2
  <2>4. Seen(w)' = a /\ WorthSeen(w)' = worth
    BY <1>2, <1>4, <1>5, SeenAfterInvoice
  <2> QED
    BY <2>1, <2>2, <2>3, <2>4
<1>7. \A t : t.pc = "done" => Sound(t, a, worth, paid, credited)
  <2>1. \A t : t.pc = "done" => Quiet(t)
    BY DEF Quiet, ItemPcs
  <2>2. Balanced(a, worth, paid, credited)
    BY <1>1, <1>2, QuietSound
  <2> QED
    BY <1>2, <2>1, <2>2, QuietSound
<1>8. Becomes(w, "done", tx[w].left, tx[w].todo, tx[w].paid)
  BY <1>5, TxNumbersOf, Becoming DEF Goto
<1> QED
  BY <1>1, <1>5, <1>6, <1>7, <1>8, SoundMove

\* What the credit note writes off is what will be released.
LEMMA CreditSound ==
  ASSUME SInv, TInv, OneAtATime, OneAtATime', NEW w \in Workers, CreditInvoice(w), ~Refuse(w)
  PROVE  SInv'
<1>1. /\ tx[w].pc = "credit" /\ tx[w].kind = "credit" /\ tx[w].bill \in Bills /\ tx[w].p \in Payments
      /\ tx[w].amount \in Nat /\ ~At(w, "idle") /\ own[w] = NoWrites
  BY TxNumbersOf DEF CreditInvoice, At, Reaches, Paying, Repaying, TInv, WorkerTyped, Untouched
<1>2. PICK a \in [Pairs -> Nat], worth \in [Payments -> Nat], paid, credited \in [Bills -> Nat] :
           /\ a = Seen(w) /\ worth = WorthSeen(w) /\ paid = PaidSeen(w) /\ credited = CreditedSeen(w)
           /\ Tables(a, worth, paid, credited) /\ Sound(tx[w], a, worth, paid, credited)
  BY <1>1, Sees
<1>3. Balanced(a, worth, paid, credited)
  BY <1>1, <1>2, QuietSound
<1>4. PICK p \in Payments, i \in Bills, n \in Nat, held \in Nat :
        p = tx[w].p /\ i = tx[w].bill /\ n = tx[w].amount /\ held = a[<<p, i>>]
  <2>1. <<tx[w].p, tx[w].bill>> \in Pairs
    BY <1>1 DEF Pairs
  <2> QED
    BY <1>1, <2>1
<1>5. PICK row, todo : /\ row = [invoice[i] EXCEPT !.credited = Total[i] - tx[w].left + n]
                       /\ todo = <<[bill |-> i, amount |-> held - n]>>
  OBVIOUS
<1>6. /\ tx' = [tx EXCEPT ![w].left = 0, ![w].todo = todo, ![w].pc = "release"]
      /\ n <= held /\ UNCHANGED <<rows, tries>> /\ WriteInvoice(w, i, row)
  BY <1>2, <1>4, <1>5 DEF CreditInvoice, Writes
<1>7. row.paid = paid[i] /\ row.credited = credited[i] + n /\ row.paid \in Nat /\ row.credited \in Nat
  <2>1. i \notin DOMAIN own[w].invoice
    BY <1>1 DEF NoWrites
  <2>2. InvoiceSeen(w, i) = invoice[i] /\ invoice[i] \in BillRow
    BY <2>1, InvoiceIsTyped DEF TInv, RowsTyped
  <2>3. paid[i] = invoice[i].paid /\ credited[i] = invoice[i].credited
    BY <1>2, <2>2 DEF PaidSeen, CreditedSeen
  <2>4. tx[w].left = Total[i] - invoice[i].credited /\ Total[i] \in Nat
    BY <1>1, <1>2, <1>4 DEF TInv, IInv, WorkerOK, InvoiceRead, Tables
  <2>5. row.paid = invoice[i].paid /\ row.credited = Total[i] - tx[w].left + n
    BY <1>5, <2>2 DEF BillRow
  <2> QED
    BY <2>2, <2>3, <2>4, <2>5 DEF BillRow
<1>8. PICK written \in [Bills -> Nat] :
        /\ written = CreditedSeen(w)' /\ written[i] = credited[i] + n
        /\ \A j \in Bills : j # i => written[j] = credited[j]
  BY <1>2, <1>6, <1>7, SeenAfterInvoice
<1>9. PaidSeen(w)' = paid /\ Seen(w)' = a /\ WorthSeen(w)' = worth
  <2>1. PICK f \in [Bills -> Nat] :
          f = PaidSeen(w)' /\ f[i] = row.paid /\ \A j \in Bills : j # i => f[j] = paid[j]
    BY <1>2, <1>6, <1>7, SeenAfterInvoice
  <2>2. \A j \in Bills : f[j] = paid[j]
    BY <1>7, <2>1
  <2>3. Seen(w)' = a /\ WorthSeen(w)' = worth
    BY <1>2, <1>6, <1>7, SeenAfterInvoice
  <2> QED
    BY <2>1, <2>2, <2>3
<1>10. Becomes(w, "release", 0, todo, tx[w].paid)
  BY <1>6, TxNumbersOf, Becoming
<1>11. DOMAIN todo = {1} /\ todo[1].bill = i /\ todo[1].amount = held - n
  BY <1>5
<1>12. ASSUME NEW t, Alike(t, tx[w]), t.pc = "release", t.todo = todo PROVE Sound(t, a, worth, paid, written)
  <2>1. t.kind = "credit" /\ t.p = p /\ t.bill = i /\ t.amount = n
    BY <1>1, <1>4, <1>12 DEF Alike
  <2>2. PaidKnown(t, a, paid) /\ Affords(t, a, written) /\ Fits(t, a, worth)
    BY <1>3, <1>12, <2>1 DEF Balanced, PaidKnown, Affords, Fits
  <2>3. Room(t, a, written)
    <3>1. ASSUME NEW j \in Bills PROVE PaidIn(a, j) + credited[j] <= Total[j] /\ PaidIn(a, j) \in Nat /\ Total[j] \in Nat
      BY <1>2, <1>3 DEF Balanced, Tables
    <3>2. Freed(t, a, i) = held - (held - n)
      BY <1>4, <1>11, <1>12, <2>1 DEF Freed
    <3>3. PaidIn(a, i) + written[i] - Freed(t, a, i) <= Total[i]
      BY <1>8, <3>1, <3>2
    <3>4. ASSUME NEW j \in Bills, j # i PROVE PaidIn(a, j) + written[j] - Freed(t, a, j) <= Total[j]
      <4>1. Freed(t, a, j) = 0 /\ written[j] = credited[j]
        BY <1>8, <2>1, <3>4 DEF Freed
      <4> QED
        BY <3>1, <4>1
    <3> QED
      BY <3>3, <3>4 DEF Room
  <2>4. ASSUME NEW goal, Goal(t, a, goal) PROVE SumOf(goal, Bills) <= worth[p] - n
    <3>1. PICK f \in [Bills -> Nat] : (\A j \in Bills : f[j] = a[<<p, j>>]) /\ AllocatedIn(a, p) = SumOf(f, Bills)
      BY AllocationsOf
    <3>2. PICK h \in [Bills -> Nat] : h = goal
      BY <2>4 DEF Goal
    <3>3. h[i] = held - n /\ \A j \in Bills \ {i} : h[j] = f[j]
      BY <1>11, <1>12, <2>1, <2>4, <3>1, <3>2 DEF Goal
    <3>4. SumOf(h, Bills) = SumOf(f, Bills) - f[i] + h[i]
      <4>1. (\A j \in Bills : f[j] \in Int) /\ h[i] \in Int
        OBVIOUS
      <4> QED
        BY <3>3, <4>1, BillsAreFinite, SumOfChange
    <3>5. f[i] = held /\ SumOf(f, Bills) <= worth[p] /\ SumOf(f, Bills) \in Nat /\ worth[p] \in Nat
      BY <1>2, <1>3, <1>4, <3>1 DEF Balanced, Tables
    <3> QED
      BY <3>2, <3>3, <3>4, <3>5
  <2>5. \A k \in DOMAIN todo : todo[k].amount <= a[<<p, todo[k].bill>>]
    BY <1>4, <1>11
  <2>6. Releases(t, a, worth)
    BY <1>12, <2>1, <2>4, <2>5 DEF Releases
  <2> QED
    BY <1>3, <2>2, <2>3, <2>6 DEF Sound, Balanced
<1> QED
  BY <1>1, <1>6, <1>8, <1>9, <1>10, <1>12, SoundMove

-----------------------------------------------------------------------------
(* What a refund picks. *)

\* z is f without what it has on the first k bills of an order.
Drained(z, f, order, k) ==
    /\ z \in [Bills -> Nat] /\ \A j \in 1 .. k : z[order[j]] = 0
    /\ \A i \in Bills : (\A j \in 1 .. k : order[j] # i) => z[i] = f[i]
DrainedBy(f, order, g, k) ==
    \E z : Drained(z, f, order, k) /\ SumOf(z, Bills) = SumOf(f, Bills) - SumOf(g, 1 .. k)

\* The allocations of a payment when one of them changes.
LEMMA OneChanges ==
  ASSUME NEW f \in [Bills -> Nat], NEW h \in [Bills -> Nat], NEW i \in Bills, \A j \in Bills \ {i} : h[j] = f[j]
  PROVE  SumOf(h, Bills) = SumOf(f, Bills) - f[i] + h[i]
<1>1. (\A j \in Bills : f[j] \in Int) /\ h[i] \in Int
  OBVIOUS
<1> QED
  BY <1>1, BillsAreFinite, SumOfChange

\* Emptying one bill after the other.
LEMMA DrainMore ==
  ASSUME NEW f \in [Bills -> Nat], NEW d \in Nat, NEW order \in [1 .. d -> Bills],
         \A j, k \in 1 .. d : order[j] = order[k] => j = k,
         NEW g, \A k \in 1 .. d : g[k] = f[order[k]], NEW k \in 1 .. d, DrainedBy(f, order, g, k - 1)
  PROVE  DrainedBy(f, order, g, k)
<1>1. PICK z \in [Bills -> Nat] :
        Drained(z, f, order, k - 1) /\ SumOf(z, Bills) = SumOf(f, Bills) - SumOf(g, 1 .. (k - 1))
  BY DEF DrainedBy, Drained
<1>2. PICK i \in Bills : i = order[k]
  OBVIOUS
<1>3. \A j \in 1 .. (k - 1) : j \in 1 .. d /\ order[j] # i
  BY <1>2
<1>4. z[i] = f[i] /\ g[k] = f[i] /\ f[i] \in Nat
  BY <1>1, <1>2, <1>3 DEF Drained
<1>5. [z EXCEPT ![i] = 0] \in [Bills -> Nat]
  OBVIOUS
<1>6. PICK y \in [Bills -> Nat] : y[i] = 0 /\ \A j \in Bills \ {i} : y[j] = z[j]
  BY <1>5
<1>7. SumOf(y, Bills) = SumOf(z, Bills) - z[i] + y[i]
  BY <1>6, OneChanges
<1>8. SumOf(g, 1 .. k) = SumOf(g, 1 .. (k - 1)) + g[k] /\ SumOf(g, 1 .. (k - 1)) \in Nat
  <2>1. \A j \in 1 .. d : g[j] \in Nat
    OBVIOUS
  <2>2. k - 1 \in 0 .. d
    OBVIOUS
  <2>3. /\ \A j \in 0 .. d : SumOf(g, 1 .. j) \in Nat
        /\ \A j \in 1 .. d : SumOf(g, 1 .. j) = SumOf(g, 1 .. (j - 1)) + g[j]
    BY <2>1, PrefixSums
  <2> QED
    BY <2>2, <2>3
<1>9. SumOf(f, Bills) \in Nat /\ SumOf(z, Bills) \in Nat
  BY BillsAreFinite, SumOfNats
<1>10. SumOf(y, Bills) = SumOf(f, Bills) - SumOf(g, 1 .. k)
  BY <1>1, <1>4, <1>6, <1>7, <1>8, <1>9
<1>11. Drained(y, f, order, k)
  <2>1. ASSUME NEW j \in 1 .. k PROVE y[order[j]] = 0
    <3>1. CASE j = k
      BY <1>2, <1>6, <3>1
    <3>2. CASE j # k
      <4>1. j \in 1 .. (k - 1)
        BY <3>2
      <4>2. z[order[j]] = 0 /\ order[j] \in Bills \ {i}
        BY <1>1, <1>3, <4>1 DEF Drained
      <4> QED
        BY <1>6, <4>2
    <3> QED
      BY <3>1, <3>2
  <2>2. ASSUME NEW x \in Bills, \A j \in 1 .. k : order[j] # x PROVE y[x] = f[x]
    <3>1. x # i /\ \A j \in 1 .. (k - 1) : order[j] # x
      BY <1>2, <2>2
    <3> QED
      BY <1>1, <1>6, <3>1 DEF Drained
  <2> QED
    BY <1>6, <2>1, <2>2 DEF Drained
<1> QED
  BY <1>10, <1>11 DEF DrainedBy

LEMMA DrainAll ==
  ASSUME NEW f \in [Bills -> Nat], NEW d \in Nat, NEW order \in [1 .. d -> Bills],
         \A j, k \in 1 .. d : order[j] = order[k] => j = k,
         NEW g, \A k \in 1 .. d : g[k] = f[order[k]], NEW k \in 0 .. d
  PROVE  DrainedBy(f, order, g, k)
<1> DEFINE Bad == {n \in 0 .. d : ~DrainedBy(f, order, g, n)}
<1>1. SUFFICES ASSUME Bad # {} PROVE FALSE
  OBVIOUS
<1>2. Bad \in SUBSET Nat
  OBVIOUS
<1>3. \A n \in Bad : n \in 0 .. d /\ ~DrainedBy(f, order, g, n)
  OBVIOUS
<1>4. \A n \in 0 .. d : n \notin Bad => DrainedBy(f, order, g, n)
  OBVIOUS
<1> HIDE DEF Bad
<1>5. PICK n \in Bad : \A m \in Bad : n <= m
  BY <1>1, <1>2, LeastNumber
<1>6. n \in 0 .. d /\ ~DrainedBy(f, order, g, n)
  BY <1>3
<1>7. n # 0
  <2>1. Drained(f, f, order, 0)
    BY DEF Drained
  <2>2. SumOf(g, 1 .. 0) = 0
    BY PrefixSums
  <2>3. SumOf(f, Bills) \in Nat
    BY BillsAreFinite, SumOfNats
  <2>4. SumOf(f, Bills) = SumOf(f, Bills) - SumOf(g, 1 .. 0)
    BY <2>2, <2>3
  <2>5. DrainedBy(f, order, g, 0)
    BY <2>1, <2>4 DEF DrainedBy
  <2> QED
    BY <1>6, <2>5
<1>8. n \in 1 .. d /\ n - 1 \in 0 .. d /\ n - 1 < n
  BY <1>6, <1>7
<1>9. n - 1 \notin Bad
  BY <1>5, <1>8
<1>10. DrainedBy(f, order, g, n - 1)
  BY <1>4, <1>8, <1>9
<1> QED
  BY <1>6, <1>8, <1>10, DrainMore

\* A sum of nothing but zeroes is zero.
LEMMA SumOfZeroes ==
  ASSUME NEW S, IsFiniteSet(S), NEW f, \A x \in S : f[x] = 0
  PROVE  SumOf(f, S) = 0
<1> DEFINE B == {U \in SUBSET S : SumOf(f, U) # 0}
<1>1. SUFFICES ASSUME S \in B PROVE FALSE
  OBVIOUS
<1>2. B \in SUBSET (SUBSET S) /\ B # {}
  BY <1>1
<1>3. PICK T \in B : \A U \in B : U \subseteq T => U = T
  <2> HIDE DEF B
  <2> QED
    BY <1>2, SmallestSet
<1>4. T \subseteq S /\ SumOf(f, T) # 0 /\ IsFiniteSet(T)
  BY <1>3, FS_Subset
<1>5. T # {}
  BY <1>4, SumOfNothing
<1>6. Chosen(T) \in T /\ Rest(T) \subseteq T /\ Chosen(T) \notin Rest(T)
  BY <1>5, ChosenAndRest
<1>7. Rest(T) \notin B
  BY <1>3, <1>6
<1>8. SumOf(f, Rest(T)) = 0
  BY <1>4, <1>6, <1>7
<1>9. SumOf(f, T) = f[Chosen(T)] + SumOf(f, Rest(T))
  BY <1>4, <1>5, SumOfChosen
<1>10. f[Chosen(T)] = 0
  BY <1>4, <1>6
<1> QED
  BY <1>4, <1>8, <1>9, <1>10

\* The rows a payment has money on, in an order; and what it holds once the m
\* first of them have given what was taken.
Lists(order, d, f, g) ==
    /\ order \in [1 .. d -> Bills] /\ \A j, k \in 1 .. d : order[j] = order[k] => j = k
    /\ \A i \in Bills : f[i] > 0 => \E k \in 1 .. d : order[k] = i
    /\ \A k \in 1 .. d : g[k] = f[order[k]]
Gives(goal, f, order, g, takes, m) ==
    /\ \A k \in 1 .. m : goal[order[k]] = g[k] - takes[k].amount
    /\ \A i \in Bills : (\A k \in 1 .. m : order[k] # i) => goal[i] = f[i]

\* What a payment holds once everything picked has been released: what it held
\* less the refund, or nothing.
LEMMA PickedGoal ==
  ASSUME NEW f \in [Bills -> Nat], NEW d \in Nat, NEW order, NEW g, Lists(order, d, f, g),
         NEW m \in 0 .. d, NEW takes, NEW amount \in Nat, amount > 0, Spends(takes, m, g, d, amount),
         NEW worth \in Nat, SumOf(f, Bills) <= worth, amount <= worth,
         NEW goal \in [Bills -> Nat], Gives(goal, f, order, g, takes, m)
  PROVE  SumOf(goal, Bills) <= worth - amount
<1>1. CASE m = d /\ \A k \in 1 .. m : takes[k].amount = g[k]
  <2>1. ASSUME NEW i \in Bills PROVE goal[i] = 0
    <3>1. CASE \E k \in 1 .. m : order[k] = i
      <4>1. PICK k \in 1 .. d : order[k] = i
        BY <1>1, <3>1 DEF Lists
      <4>2. goal[i] = g[k] - g[k] /\ g[k] \in Nat
        BY <1>1, <4>1 DEF Lists, Gives
      <4> QED
        BY <4>2
    <3>2. CASE \A k \in 1 .. m : order[k] # i
      BY <1>1, <3>2 DEF Lists, Gives
    <3> QED
      BY <3>1, <3>2
  <2>2. SumOf(goal, Bills) = 0
    BY <2>1, BillsAreFinite, SumOfZeroes
  <2> QED
    BY <2>2
<1>2. CASE m = 0 /\ amount <= 0
  BY <1>2
<1>3. CASE /\ m > 0 /\ \A k \in 1 .. (m - 1) : takes[k].amount = g[k]
           /\ takes[m].amount = amount - SumOf(g, 1 .. (m - 1))
  <2>1. m \in 1 .. d /\ m - 1 \in 0 .. d
    BY <1>3
  <2>2. DrainedBy(f, order, g, m - 1)
    BY <2>1, DrainAll DEF Lists
  <2>3. PICK z \in [Bills -> Nat] :
          Drained(z, f, order, m - 1) /\ SumOf(z, Bills) = SumOf(f, Bills) - SumOf(g, 1 .. (m - 1))
    BY <2>2 DEF DrainedBy, Drained
  <2>4. PICK i \in Bills : i = order[m]
    BY <2>1 DEF Lists
  <2>5. \A k \in 1 .. (m - 1) : k \in 1 .. d /\ k \in 1 .. m /\ order[k] # i
    BY <2>1, <2>4 DEF Lists
  <2>6. z[i] = f[i] /\ g[m] = f[i]
    BY <2>1, <2>3, <2>4, <2>5 DEF Drained, Lists
  <2>7. ASSUME NEW j \in Bills \ {i} PROVE goal[j] = z[j]
    <3>1. CASE \E k \in 1 .. (m - 1) : order[k] = j
      <4>1. PICK k \in 1 .. (m - 1) : order[k] = j
        BY <3>1
      <4>2. z[j] = 0
        BY <2>3, <4>1 DEF Drained
      <4>3. PICK n \in Nat : n = g[k]
        <5>1. k \in 1 .. d
          BY <2>5
        <5>2. g[k] = f[order[k]] /\ order[k] \in Bills
          BY <5>1 DEF Lists
        <5> QED
          BY <5>2
      <4>4. goal[j] = n - n
        BY <1>3, <2>5, <4>1, <4>3 DEF Gives
      <4>5. goal[j] = 0
        BY <4>4
      <4> QED
        BY <4>2, <4>5
    <3>2. CASE \A k \in 1 .. (m - 1) : order[k] # j
      <4>1. z[j] = f[j]
        BY <2>3, <3>2 DEF Drained
      <4>2. \A k \in 1 .. m : k = m \/ k \in 1 .. (m - 1)
        BY <2>1
      <4>3. ASSUME NEW k \in 1 .. m PROVE order[k] # j
        BY <2>4, <2>7, <3>2, <4>2
      <4>4. goal[j] = f[j]
        BY <4>3 DEF Gives
      <4> QED
        BY <4>1, <4>4
    <3> QED
      BY <3>1, <3>2
  <2>8. SumOf(goal, Bills) = SumOf(z, Bills) - z[i] + goal[i]
    <3>1. \A j \in Bills \ {i} : goal[j] = z[j]
      BY <2>7
    <3> QED
      BY <3>1, OneChanges
  <2>9. PICK s \in Nat : s = SumOf(g, 1 .. (m - 1))
    <3>1. \A k \in 1 .. d : g[k] \in Nat
      BY DEF Lists
    <3>2. \A k \in 0 .. d : SumOf(g, 1 .. k) \in Nat
      BY <3>1, PrefixSums
    <3>3. SumOf(g, 1 .. (m - 1)) \in Nat
      BY <2>1, <3>2
    <3> QED
      BY <3>3
  <2>10. goal[i] = f[i] - (amount - s)
    <3>1. m \in 1 .. m
      BY <2>1
    <3>2. goal[order[m]] = g[m] - takes[m].amount
      BY <3>1 DEF Gives
    <3> QED
      BY <1>3, <2>4, <2>6, <2>9, <3>2
  <2>11. PICK total \in Nat, held \in Nat : total = SumOf(f, Bills) /\ held = f[i]
    BY BillsAreFinite, SumOfNats
  <2>12. SumOf(goal, Bills) = (total - s) - held + (held - (amount - s))
    BY <2>3, <2>6, <2>8, <2>9, <2>10, <2>11
  <2>13. SumOf(goal, Bills) = total - amount
    BY <2>12
  <2>14. total <= worth
    BY <2>11
  <2> QED
    BY <2>13, <2>14
<1> QED
  BY <1>1, <1>2, <1>3 DEF Spends

\* A refund picks what it takes off the allocations of its payment.
LEMMA PickSound ==
  ASSUME SInv, TInv, OneAtATime, OneAtATime', NEW w \in Workers, PickAllocations(w)
  PROVE  SInv'
<1>1. /\ tx[w].kind = "refund" /\ tx[w].p \in Payments /\ tx[w].pc = "pick" /\ tx[w].amount \in Nat
      /\ ~At(w, "idle") /\ UNCHANGED <<rows, own>> /\ own[w] = NoWrites
  BY TxNumbersOf DEF PickAllocations, At, Reaches, Paying, Repaying, Reads, TInv, WorkerTyped, Untouched
<1>2. PICK a \in [Pairs -> Nat], worth \in [Payments -> Nat], paid, credited \in [Bills -> Nat] :
           /\ a = Seen(w) /\ worth = WorthSeen(w) /\ paid = PaidSeen(w) /\ credited = CreditedSeen(w)
           /\ Tables(a, worth, paid, credited) /\ Sound(tx[w], a, worth, paid, credited)
  BY <1>1, Sees
<1>3. Balanced(a, worth, paid, credited)
  BY <1>1, <1>2, QuietSound
<1>4. PICK p \in Payments, n \in Nat : p = tx[w].p /\ n = tx[w].amount
  BY <1>1
<1>5. n > 0 /\ n <= worth[p]
  <2>1. WorkerOK(tx[w], own[w])
    BY DEF TInv, IInv
  <2>2. n > 0 /\ n <= Worth(payment[p])
    BY <1>1, <1>4, <2>1 DEF WorkerOK, TxTyped, PaymentRead, Repaying
  <2>3. PaymentSeen(w, p) = payment[p]
    BY <1>1 DEF PaymentSeen, Over, NoWrites, TInv, RowsTyped
  <2> QED
    BY <1>2, <2>2, <2>3 DEF WorthSeen
<1>6. PICK d, order, f, m, takes, leaves :
           /\ Picks(tx[w].p, Seen(w), d, order, f, m, takes, leaves, tx[w].amount)
           /\ tx' = [tx EXCEPT ![w].todo = leaves, ![w].pc = IF leaves = <<>> THEN "repay" ELSE "release"]
  BY Picked
<1>6a. Picks(p, a, d, order, f, m, takes, leaves, n)
  BY <1>2, <1>4, <1>6
<1>7. PICK c : c = IF leaves = <<>> THEN "repay" ELSE "release"
  OBVIOUS
<1>8. Becomes(w, c, tx[w].left, leaves, tx[w].paid) /\ c \in {"repay", "release"}
  BY <1>6, <1>7, TxNumbersOf, Becoming
<1>9. PICK held \in [Bills -> Nat] : (\A i \in Bills : held[i] = a[<<p, i>>]) /\ AllocatedIn(a, p) = SumOf(held, Bills)
  BY AllocationsOf
<1>10. /\ d \in Nat /\ m \in 0 .. d /\ DOMAIN leaves = 1 .. m /\ Spends(takes, m, f, d, n)
       /\ \A k \in 1 .. m : /\ k \in 1 .. d /\ leaves[k].bill = order[k] /\ leaves[k].amount = f[k] - takes[k].amount
                             /\ takes[k].amount \in Nat /\ f[k] \in Nat
  <2>1. d \in Nat /\ m \in 0 .. d /\ DOMAIN leaves = 1 .. m /\ Spends(takes, m, f, d, n)
    BY <1>6a DEF Picks, Fills
  <2>2. ASSUME NEW k \in 1 .. m
        PROVE  /\ k \in 1 .. d /\ leaves[k].bill = order[k] /\ leaves[k].amount = f[k] - takes[k].amount
               /\ takes[k].amount \in Nat /\ f[k] \in Nat
    <3>1. k \in 1 .. d
      BY <2>1
    <3> QED
      BY <1>6a, <3>1 DEF Picks, Fills, TakesFrom
  <2> QED
    BY <2>1, <2>2
<1>11. Lists(order, d, held, f)
  <2>1. order \in [1 .. d -> Bills] /\ \A j, k \in 1 .. d : order[j] = order[k] => j = k
    BY <1>6a DEF Picks
  <2>2. \A i \in Bills : held[i] > 0 => \E k \in 1 .. d : order[k] = i
    BY <1>6a, <1>9 DEF Picks
  <2>3. \A k \in 1 .. d : f[k] = held[order[k]]
    BY <1>6a, <1>9, <2>1 DEF Picks
  <2> QED
    BY <2>1, <2>2, <2>3 DEF Lists
<1>12. SumOf(held, Bills) <= worth[p]
  BY <1>3, <1>9 DEF Balanced
<1>13. ASSUME NEW goal \in [Bills -> Nat], \A k \in 1 .. m : goal[leaves[k].bill] = leaves[k].amount,
              \A i \in Bills : (\A k \in 1 .. m : leaves[k].bill # i) => goal[i] = a[<<p, i>>]
       PROVE  SumOf(goal, Bills) <= worth[p] - n
  <2>1. \A k \in 1 .. m : goal[order[k]] = f[k] - takes[k].amount
    BY <1>10, <1>13
  <2>2. ASSUME NEW i \in Bills, \A k \in 1 .. m : order[k] # i PROVE goal[i] = held[i]
    <3>1. \A k \in 1 .. m : leaves[k].bill # i
      BY <1>10, <2>2
    <3> QED
      BY <1>9, <1>13, <3>1
  <2>3. Gives(goal, held, order, f, takes, m)
    BY <2>1, <2>2 DEF Gives
  <2>4. worth[p] \in Nat
    OBVIOUS
  <2> QED
    BY <1>5, <1>10, <1>11, <1>12, <2>3, <2>4, PickedGoal
<1>14. ASSUME NEW t, Alike(t, tx[w]), t.pc = c, t.todo = leaves PROVE Sound(t, a, worth, paid, credited)
  <2>1. t.kind = "refund" /\ t.p = p /\ t.amount = n
    BY <1>1, <1>4, <1>14 DEF Alike
  <2>2. PaidKnown(t, a, paid) /\ Affords(t, a, credited) /\ Fits(t, a, worth)
    BY <1>3, <1>8, <1>14, <2>1 DEF Balanced, PaidKnown, Affords, Fits
  <2>3. Room(t, a, credited)
    <3>1. \A i \in Bills : PaidIn(a, i) + credited[i] - 0 <= Total[i]
      BY <1>2, <1>3 DEF Tables, Balanced
    <3> QED
      BY <2>1, <3>1 DEF Room, Freed
  <2>4. c = "release" => \A goal : Goal(t, a, goal) => SumOf(goal, Bills) <= worth[p] - n
    BY <1>10, <1>13, <1>14, <2>1 DEF Goal
  <2>5. \A k \in DOMAIN leaves : leaves[k].amount <= a[<<p, leaves[k].bill>>]
    <3> SUFFICES ASSUME NEW k \in 1 .. m PROVE leaves[k].amount <= a[<<p, leaves[k].bill>>]
      BY <1>10
    <3>1. f[k] = a[<<p, order[k]>>]
      BY <1>6a, <1>10 DEF Picks
    <3>2. PICK x \in Nat, y \in Nat : x = f[k] /\ y = takes[k].amount
      BY <1>10
    <3>3. leaves[k].amount = x - y /\ leaves[k].bill = order[k]
      BY <1>10, <3>2
    <3> QED
      BY <3>1, <3>2, <3>3
  <2>6. c = "repay" => AllocatedIn(a, p) <= worth[p] - n
    <3> SUFFICES ASSUME c = "repay" PROVE AllocatedIn(a, p) <= worth[p] - n
      OBVIOUS
    <3>1. leaves = <<>>
      BY <1>7
    <3>2. DOMAIN leaves = {}
      BY <3>1
    <3>3. \A k \in 1 .. m : FALSE
      BY <1>10, <3>2
    <3>4. SumOf(held, Bills) <= worth[p] - n
      BY <1>9, <1>13, <3>3
    <3> QED
      BY <1>9, <3>4
  <2>7. Releases(t, a, worth)
    BY <1>8, <1>14, <2>1, <2>4, <2>5, <2>6 DEF Releases
  <2> QED
    BY <1>3, <2>2, <2>3, <2>7 DEF Sound, Balanced
<1>15. Seen(w)' = a /\ WorthSeen(w)' = worth /\ PaidSeen(w)' = paid /\ CreditedSeen(w)' = credited
  BY <1>1, <1>2, SeenSame
<1> QED
  BY <1>1, <1>8, <1>14, <1>15, SoundMove

-----------------------------------------------------------------------------
(* Beginnings and ends, and the theorems. *)

\* A commit publishes what the transaction saw.
LEMMA CommitSound ==
  ASSUME SInv, TInv, OneAtATime, NEW w \in Workers, Commit(w)
  PROVE  SInv'
<1>1. tx[w].pc = "done" /\ ~At(w, "idle")
  BY DEF Commit, At
<1>2. PICK a \in [Pairs -> Nat], worth \in [Payments -> Nat], paid, credited \in [Bills -> Nat] :
           /\ a = Seen(w) /\ worth = WorthSeen(w) /\ paid = PaidSeen(w) /\ credited = CreditedSeen(w)
           /\ Tables(a, worth, paid, credited) /\ Sound(tx[w], a, worth, paid, credited)
  BY <1>1, Sees
<1>3. Balanced(a, worth, paid, credited)
  BY <1>1, <1>2, QuietSound
<1>4. allocation' = a
  BY <1>2 DEF Commit, Seen
<1>5. \A p \in Payments : Worth(payment'[p]) = worth[p]
  BY <1>2 DEF Commit, WorthSeen, PaymentSeen
<1>6. \A i \in Bills : invoice'[i].paid = paid[i] /\ invoice'[i].credited = credited[i]
  BY <1>2 DEF Commit, PaidSeen, CreditedSeen, InvoiceSeen
<1>7. AllocatedWithinPayment'
  <2>1. \A p \in Payments : AllocatedIn(allocation', p) <= Worth(payment'[p])
    BY <1>3, <1>4, <1>5 DEF Balanced
  <2> QED
    BY <2>1 DEF AllocatedWithinPayment
<1>8. PaidIsSumOfAllocations'
  <2>1. \A i \in Bills : invoice'[i].paid = PaidIn(allocation', i)
    BY <1>3, <1>4, <1>6 DEF Balanced
  <2> QED
    BY <2>1 DEF PaidIsSumOfAllocations
<1>9. NeverOverpaid'
  <2>1. \A i \in Bills : paid[i] + credited[i] <= Total[i]
    BY <1>3 DEF Balanced
  <2> QED
    BY <1>6, <2>1 DEF NeverOverpaid
<1>10. ASSUME NEW v \in Workers PROVE At(v, "idle")'
  <2>1. tx' = [tx EXCEPT ![w] = NoTx]
    BY DEF Commit, End
  <2>2. tx'[v] = IF v = w THEN NoTx ELSE tx[v]
    BY <2>1 DEF TInv, IInv
  <2>3. v = w \/ At(v, "idle")
    BY <1>1, Working
  <2> QED
    BY <2>2, <2>3 DEF At, NoTx
<1> QED
  BY <1>7, <1>8, <1>9, <1>10 DEF SInv, Ledger

\* A rollback leaves the committed ledger, which is in balance.
LEMMA RefuseSound ==
  ASSUME SInv, TInv, OneAtATime, OneAtATime', NEW w \in Workers, Refuse(w), ~At(w, "idle")
  PROVE  SInv'
<1>1. tx' = [tx EXCEPT ![w] = NoTx] /\ UNCHANGED rows
  BY DEF Refuse, End, Writes
<1>2. tx'[w] = NoTx
  BY <1>1 DEF TInv, IInv
<1>3. At(w, "idle")'
  BY <1>2 DEF At, NoTx
<1>4. tx' = [tx EXCEPT ![w] = tx'[w]]
  BY <1>1, <1>2
<1> QED
  BY <1>1, <1>3, <1>4, Working, SoundStep

\* A request begins on a ledger in balance.
LEMMA StartSound ==
  ASSUME SInv, TInv, OneAtATime', NEW w \in Workers, UNCHANGED <<rows, own>>, NEW t, tx[w].pc = "idle",
         tx' = [tx EXCEPT ![w] = t], t.pc \in {"insert", "freeze", "lock", "void"}
  PROVE  SInv'
<1>1. own[w] = NoWrites
  BY DEF TInv, WorkerTyped, Untouched
<1>2. PICK a, worth, paid, credited :
        a = Seen(w) /\ worth = WorthSeen(w) /\ paid = PaidSeen(w) /\ credited = CreditedSeen(w)
  OBVIOUS
<1>3. Tables(a, worth, paid, credited)
  BY <1>2, TablesSeen
<1>4. Balanced(a, worth, paid, credited)
  BY <1>1, <1>2, LedgerIsBalanced DEF SInv
<1>5. Quiet(t)
  BY DEF Quiet, ItemPcs
<1>6. Sound(t, a, worth, paid, credited)
  BY <1>3, <1>4, <1>5, QuietSound
<1>7. Seen(w)' = a /\ WorthSeen(w)' = worth /\ PaidSeen(w)' = paid /\ CreditedSeen(w)' = credited
  BY <1>2, SeenSame
<1>8. tx'[w] = t /\ \A v \in Workers \ {w} : tx'[v] = tx[v]
  BY DEF TInv, IInv
<1>9. SoundAt(w)'
  BY <1>6, <1>7, <1>8 DEF SoundAt
<1>10. ~At(w, "idle")' /\ \A v \in Workers : v = w \/ At(v, "idle")
  BY <1>8 DEF OneAtATime, At
<1> QED
  BY <1>8, <1>9, <1>10, SoundStep

LEMMA StartsSound ==
  ASSUME SInv, TInv, OneAtATime', NEW w \in Workers, Start(w)
  PROVE  SInv'
<1>1. ASSUME NEW p \in Payments, NEW a, NEW bill, NEW kind, RecordPayment(w, p, a, bill, kind) PROVE SInv'
  <2>1. PICK t : t = [NoTx EXCEPT !.pc = "insert", !.kind = kind, !.p = p, !.bill = bill,
                                  !.amount = a, !.since = tries[p] + 1]
    OBVIOUS
  <2>2. t.pc = "insert"
    BY <2>1 DEF NoTx
  <2>3. tx' = [tx EXCEPT ![w] = t] /\ tx[w].pc = "idle" /\ UNCHANGED <<rows, own>>
    BY <1>1, <2>1 DEF RecordPayment
  <2> QED
    BY <2>2, <2>3, StartSound
<1>2. ASSUME NEW pc, NEW kind, NEW p, NEW bill, NEW a, Begin(w, pc, kind, p, bill, a), Reads,
             pc \in {"freeze", "lock", "void"}
      PROVE  SInv'
  <2>1. PICK t : t = [NoTx EXCEPT !.pc = pc, !.kind = kind, !.p = p, !.bill = bill, !.amount = a]
    OBVIOUS
  <2>2. t.pc = pc
    BY <2>1 DEF NoTx
  <2>3. tx' = [tx EXCEPT ![w] = t] /\ tx[w].pc = "idle" /\ UNCHANGED <<rows, own>>
    BY <1>2, <2>1 DEF Begin, Reads
  <2> QED
    BY <1>2, <2>2, <2>3, StartSound
<1> QED
  BY <1>1, <1>2 DEF Start, Refund, Credit, ReadForVoid

\* Every step of a request, and every step of the specification, keeps SInv.
LEMMA StepSound ==
  ASSUME SInv, TInv, OneAtATime, OneAtATime', NEW w \in Workers, Step(w)
  PROVE  SInv'
<1>0. ~At(w, "idle")
  BY DEF Step, InsertPayment, ReadUnallocated, CheckPreferred, PlanAllocations, CheckAllocation,
     UpsertAllocation, LinkAllocation, SumPaid, SyncInvoice, LockPayment, PickAllocations,
     ReleaseAllocation, RepayPayment, LockInvoice, CreditInvoice, VoidInvoice, Commit, At
<1>1. CASE Refuse(w)
  BY <1>0, <1>1, RefuseSound
<1>2. CASE ~Refuse(w)
  BY <1>2, InsertPaymentSound, ReadUnallocatedSound, CheckPreferredSound, PlanSound, CheckAllocationSound,
     UpsertSound, LinkSound, SumPaidSound, SyncSound, LockSound, PickSound, ReleaseSound, RepaySound,
     CreditSound, VoidSound, CommitSound DEF Step
<1> QED
  BY <1>1, <1>2

LEMMA NextSound == SInv /\ TInv /\ OneAtATime /\ OneAtATime' /\ [Next]_vars => SInv'
<1> SUFFICES ASSUME SInv, TInv, OneAtATime, OneAtATime', [Next]_vars PROVE SInv'
  OBVIOUS
<1>0. \A w \in Workers : Blocked(w) => ~At(w, "idle")
  BY DEF Blocked, At
<1>1. CASE Next
  BY <1>0, <1>1, StartsSound, StepSound, RefuseSound DEF Next, Crash, LockTimeout
<1>2. CASE UNCHANGED vars
  <2>1. UNCHANGED <<rows, own>> /\ UNCHANGED tx
    BY <1>2 DEF vars, rows
  <2>2. Ledger'
    BY <2>1 DEF rows, SInv, Ledger, AllocatedWithinPayment, PaidIsSumOfAllocations, NeverOverpaid
  <2>3. ASSUME NEW w \in Workers PROVE (At(w, "idle") \/ SoundAt(w))'
    <3>1. PICK a, worth, paid, credited :
            a = Seen(w) /\ worth = WorthSeen(w) /\ paid = PaidSeen(w) /\ credited = CreditedSeen(w)
      OBVIOUS
    <3>2. Seen(w)' = a /\ WorthSeen(w)' = worth /\ PaidSeen(w)' = paid /\ CreditedSeen(w)' = credited
      BY <2>1, <3>1, SeenSame
    <3>3. tx[w].pc = "idle" \/ Sound(tx[w], a, worth, paid, credited)
      BY <3>1 DEF SInv, SoundAt, At
    <3>4. tx'[w].pc = "idle" \/ Sound(tx'[w], a, worth, paid, credited)
      BY <2>1, <3>3
    <3> QED
      BY <3>2, <3>4 DEF SoundAt, At
  <2> QED
    BY <2>2, <2>3 DEF SInv
<1> QED
  BY <1>1, <1>2

\* A ledger with no row in it.
LEMMA InitSound == Init => SInv
<1> SUFFICES ASSUME Init PROVE SInv
  OBVIOUS
<1>1. \A w \in Workers : At(w, "idle")
  BY DEF Init, At, NoTx
<1>2. ASSUME NEW p \in Payments PROVE AllocatedIn(allocation, p) = 0
  <2>1. PICK f : f = [i \in Bills |-> allocation[<<p, i>>]]
    OBVIOUS
  <2>2. \A i \in Bills : f[i] = 0
    BY <2>1 DEF Init, Pairs
  <2>3. SumOf(f, Bills) = 0
    BY <2>2, BillsAreFinite, SumOfZeroes
  <2> QED
    BY <2>1, <2>3, AllocatedIsSum
<1>3. ASSUME NEW i \in Bills PROVE PaidIn(allocation, i) = 0
  <2>1. PICK f : f = [p \in Payments |-> allocation[<<p, i>>]]
    OBVIOUS
  <2>2. \A p \in Payments : f[p] = 0
    BY <2>1 DEF Init, Pairs
  <2>3. SumOf(f, Payments) = 0
    BY <2>2, PaymentsAreFinite, SumOfZeroes
  <2> QED
    BY <2>1, <2>3, PaidIsSum
<1>4. \A p \in Payments : Worth(payment[p]) = 0
  BY DEF Init, Worth
<1>5. \A i \in Bills : invoice[i].paid = 0 /\ invoice[i].credited = 0 /\ Total[i] \in Nat
  BY TotalsArePositive DEF Init
<1>6. Ledger
  BY <1>2, <1>3, <1>4, <1>5 DEF Ledger, AllocatedWithinPayment, PaidIsSumOfAllocations, NeverOverpaid
<1> QED
  BY <1>1, <1>6 DEF SInv

\* The invariant of requests that come one at a time.
THEOREM SerialInvariance == Spec /\ []OneAtATime => []SInv
  BY TypedInvariance, InitSound, NextSound, PTL DEF Spec

\* When requests come one at a time, however many pay, refund, credit and void and
\* whichever of them crash, an invoice is not paid beyond its total.
THEOREM NeverPaidTwice == Spec /\ []OneAtATime => []NeverOverpaid
<1>1. SInv => NeverOverpaid
  BY DEF SInv, Ledger
<1> QED
  BY <1>1, SerialInvariance, PTL
=============================================================================
