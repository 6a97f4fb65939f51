--------------------------- MODULE InvoiceIssuing ---------------------------
(***************************************************************************)
(* How a draft invoice becomes a numbered, immutable document, when        *)
(* several requests work on the same studio at once.                       *)
(*                                                                         *)
(* Every request runs in one READ COMMITTED transaction on a worker        *)
(* thread.  A step of this module is one SQL statement: it sees what other *)
(* transactions have committed and what its own has written, and it waits  *)
(* for the row locks the statement needs.  What a transaction has written  *)
(* stays in the variables of its worker until the step that commits it.    *)
(*                                                                         *)
(* A line's price is left out: the stored total of an invoice is the set   *)
(* of lines it sums.                                                       *)
(***************************************************************************)
EXTENDS Integers, FiniteSets

CONSTANTS
    Workers,    \* threads of the web server that run requests
    Invoices,   \* rows of table invoices, of one tenant
    Lines,      \* rows of table invoice_lines, of one tenant
    Taxed,      \* the lines that carry GST
    Nil         \* NULL, or "not there"

ASSUME TaxedAreLines == Taxed \subseteq Lines
ASSUME NilIsNothing == Nil \notin Invoices \cup Lines \cup Int

VARIABLES
    status,     \* invoices.status, or "absent" before the INSERT
    number,     \* invoices.number: the counter value in it, or Nil
    total,      \* invoices.total_cents: the lines it sums
    supplier,   \* invoices.supplier_snapshot
    lineOf,     \* invoice_lines.invoice_id, Nil for a line not inserted yet
    nextValue,  \* document_number_sequences.next_value (1 while no row exists)
    identity,   \* the tenant_billing_identity row
    pc,         \* where the transaction of each worker stands
    doc,        \* the invoice it works on
    line,       \* the line it inserts
    seen,       \* the lines its SUM returned
    who,        \* the identity it read, or the one it is about to save
    sent        \* the identity fields a save received from its caller

committed == <<status, number, total, supplier, lineOf, nextValue, identity>>
session == <<pc, doc, line, seen, who, sent>>
vars == <<committed, session>>

-----------------------------------------------------------------------------
(* The issuing identity: whether the ABN is filled in, whether a name and  *)
(* an address are, and whether the studio is GST registered.               *)

Fields == {"abn", "details", "gst"}
Identity == [Fields -> BOOLEAN]
Blank == [f \in Fields |-> FALSE]

\* The constraint that a GST-registered studio records its ABN.
Storable(x) == x["gst"] => x["abn"]

\* invoice_profile_missing finds nothing missing.
Complete(x) == x["abn"] /\ x["details"]

\* The value a tenant's counter row is created with.
FirstNumber_Zero == 0   \* mutant
FirstNumber == 1

Numbered == {i \in Invoices : number[i] # Nil}
LinesOf(i) == {l \in Lines : lineOf[l] = i}

-----------------------------------------------------------------------------
(* Row locks.  Which lock a transaction holds follows from how far it got. *)

IssueSteps == {"locked", "identified", "checked", "recalculated", "numbered"}

\* FOR UPDATE OF i: excludes every other lock on the invoice row.
HoldsForUpdate(w, i) == doc[w] = i /\ pc[w] \in IssueSteps

\* The foreign key of a new line: KEY SHARE, excludes only FOR UPDATE.
HoldsKeyShare(w, i) ==
    doc[w] = i /\ pc[w] \in {"linked", "summed", "totalled", "passedOver"}

\* A plain UPDATE of the row: excludes other updates, not KEY SHARE.
HoldsUpdate(w, i) == doc[w] = i /\ pc[w] \in {"totalled", "voided"}

CanLockForUpdate(w, i) ==
    \A v \in Workers \ {w} :
        ~ (HoldsForUpdate(v, i) \/ HoldsKeyShare(v, i) \/ HoldsUpdate(v, i))
CanKeyShare(w, i) == \A v \in Workers \ {w} : ~ HoldsForUpdate(v, i)
CanUpdate(w, i) ==
    \A v \in Workers \ {w} : ~ (HoldsForUpdate(v, i) \/ HoldsUpdate(v, i))

\* FOR SHARE on the identity row, until the issuing transaction ends.
HoldsIdentity(w) ==
    pc[w] \in {"identified", "checked", "recalculated", "numbered"}

\* The counter row, from UPDATE ... RETURNING until the transaction ends.
HoldsCounter(w) == pc[w] = "numbered"

-----------------------------------------------------------------------------
(* Transactions.                                                           *)

Begin(w, at, i) ==
    /\ pc[w] = "idle"
    /\ pc' = [pc EXCEPT ![w] = at]
    /\ doc' = [doc EXCEPT ![w] = i]

Goto(w, from, to) ==
    /\ pc[w] = from
    /\ pc' = [pc EXCEPT ![w] = to]

End(w) ==
    /\ pc' = [pc EXCEPT ![w] = "idle"]
    /\ doc' = [doc EXCEPT ![w] = Nil]
    /\ line' = [line EXCEPT ![w] = Nil]
    /\ seen' = [seen EXCEPT ![w] = {}]
    /\ who' = [who EXCEPT ![w] = Blank]
    /\ sent' = [sent EXCEPT ![w] = {}]

\* An error, a refused check, a timeout, a dropped connection or a crash of
\* the process: nothing the transaction wrote survives.
Rollback(w) ==
    /\ pc[w] # "idle"
    /\ End(w)
    /\ UNCHANGED committed

-----------------------------------------------------------------------------
(* Opening a draft, empty or with its first lines, in one transaction.     *)

CreateDraft(i, ls) ==
    /\ status[i] = "absent"
    /\ \A l \in ls : lineOf[l] = Nil /\ \A w \in Workers : line[w] # l
    /\ status' = [status EXCEPT ![i] = "draft"]
    /\ lineOf' = [l \in Lines |-> IF l \in ls THEN i ELSE lineOf[l]]
    /\ total' = [total EXCEPT ![i] = ls]
    /\ UNCHANGED <<number, supplier, nextValue, identity, session>>

-----------------------------------------------------------------------------
(* Adding a line to a draft.                                               *)

\* The row trigger of the INSERT reads the parent's status without a lock.
InsertLine(w, i, l) ==
    /\ status[i] = "draft"
    /\ lineOf[l] = Nil /\ \A v \in Workers : line[v] # l
    /\ Begin(w, "inserted", i)
    /\ line' = [line EXCEPT ![w] = l]
    /\ UNCHANGED <<committed, seen, who, sent>>

\* The foreign key check at the end of the same INSERT.
LinkLine(w) ==
    /\ Goto(w, "inserted", "linked")
    /\ CanKeyShare(w, doc[w])
    /\ UNCHANGED <<committed, doc, line, seen, who, sent>>

\* recalculate_totals, the SELECT.
SumLines(w) ==
    /\ Goto(w, "linked", "summed")
    /\ seen' = [seen EXCEPT ![w] = LinesOf(doc[w]) \cup {line[w]}]
    /\ UNCHANGED <<committed, doc, line, who, sent>>

\* Mutant: the UPDATE forgets AND status = 'draft'.
StoreTotal_AnyStatus(w) ==
    /\ pc[w] = "summed"
    /\ CanUpdate(w, doc[w])
    /\ Goto(w, "summed", "totalled")
    /\ UNCHANGED <<committed, doc, line, seen, who, sent>>

\* recalculate_totals, the UPDATE ... WHERE status = 'draft'.
StoreTotal(w) ==
    /\ pc[w] = "summed"
    /\ CanUpdate(w, doc[w])
    /\ Goto(w, "summed",
            IF status[doc[w]] = "draft" THEN "totalled" ELSE "passedOver")
    /\ UNCHANGED <<committed, doc, line, seen, who, sent>>

CommitLine(w) ==
    /\ pc[w] \in {"totalled", "passedOver"}
    /\ lineOf' = [lineOf EXCEPT ![line[w]] = doc[w]]
    /\ total' = IF pc[w] = "totalled"
                THEN [total EXCEPT ![doc[w]] = seen[w]] ELSE total
    /\ End(w)
    /\ UNCHANGED <<status, number, supplier, nextValue, identity>>

-----------------------------------------------------------------------------
(* Issuing.                                                                *)

LockDraft(w, i) ==
    /\ status[i] = "draft"
    /\ CanLockForUpdate(w, i)
    /\ Begin(w, "locked", i)
    /\ UNCHANGED <<committed, line, seen, who, sent>>

\* The identity is read FOR SHARE; an incomplete one refuses the issue.
ReadIdentity(w) ==
    /\ Goto(w, "locked", "identified")
    /\ Complete(identity)
    /\ who' = [who EXCEPT ![w] = identity]
    /\ UNCHANGED <<committed, doc, line, seen, sent>>

\* Mutant: the tax check is dropped from the blockers.
CheckLines_NoTax(w) ==
    /\ Goto(w, "identified", "checked")
    /\ LinesOf(doc[w]) # {}
    /\ UNCHANGED <<committed, doc, line, seen, who, sent>>

\* At least one line, and no GST charged by a studio not registered for it.
CheckLines(w) ==
    /\ Goto(w, "identified", "checked")
    /\ LinesOf(doc[w]) # {}
    /\ LinesOf(doc[w]) \cap Taxed # {} => identity["gst"]
    /\ UNCHANGED <<committed, doc, line, seen, who, sent>>

Recalculate(w) ==
    /\ Goto(w, "checked", "recalculated")
    /\ seen' = [seen EXCEPT ![w] = LinesOf(doc[w])]
    /\ UNCHANGED <<committed, doc, line, who, sent>>

\* Mutant: the number comes from a sequence, which a rollback does not undo.
TakeNumber_Sequence(w) ==
    /\ Goto(w, "recalculated", "numbered")
    /\ nextValue' = nextValue + 1
    /\ UNCHANGED <<status, number, total, supplier, lineOf, identity,
                   doc, line, seen, who, sent>>

\* next_document_number: a second issuer waits for the counter row.
TakeNumber(w) ==
    /\ Goto(w, "recalculated", "numbered")
    /\ \A v \in Workers \ {w} : ~ HoldsCounter(v)
    /\ UNCHANGED <<committed, doc, line, seen, who, sent>>

\* The UPDATE ... WHERE status = 'draft' with the number and the snapshot,
\* and the commit.  The counter moves with the transaction that took from it.
CommitIssue(w) ==
    /\ pc[w] = "numbered"
    /\ status[doc[w]] = "draft"
    /\ \A i \in Invoices : number[i] # nextValue        \* UNIQUE
    /\ status' = [status EXCEPT ![doc[w]] = "issued"]
    /\ number' = [number EXCEPT ![doc[w]] = nextValue]
    /\ total' = [total EXCEPT ![doc[w]] = seen[w]]
    /\ supplier' = [supplier EXCEPT ![doc[w]] = who[w]]
    /\ nextValue' = nextValue + 1
    /\ End(w)
    /\ UNCHANGED <<lineOf, identity>>

-----------------------------------------------------------------------------
(* Voiding.                                                                *)

\* The status is read without a lock; an invoice already void is left alone.
ReadForVoid(w, i) ==
    /\ status[i] \in {"draft", "issued"}
    /\ Begin(w, "voiding", i)
    /\ UNCHANGED <<committed, line, seen, who, sent>>

\* The UPDATE names no status; the CHECK on number refuses a draft.
Void(w) ==
    /\ Goto(w, "voiding", "voided")
    /\ CanUpdate(w, doc[w])
    /\ number[doc[w]] # Nil
    /\ UNCHANGED <<committed, doc, line, seen, who, sent>>

CommitVoid(w) ==
    /\ pc[w] = "voided"
    /\ status' = [status EXCEPT ![doc[w]] = "void"]
    /\ End(w)
    /\ UNCHANGED <<number, total, supplier, lineOf, nextValue, identity>>

-----------------------------------------------------------------------------
(* Saving the issuing identity: read, merge what the caller sent, upsert.  *)

MergeIdentity(w, fs, value) ==
    LET merged == [f \in Fields |-> IF f \in fs THEN value ELSE identity[f]] IN
    /\ Storable(merged)
    /\ Begin(w, "merged", Nil)
    /\ who' = [who EXCEPT ![w] = merged]
    /\ sent' = [sent EXCEPT ![w] = fs]
    /\ UNCHANGED <<committed, line, seen>>

\* Mutant: the issuing transaction reads the identity without FOR SHARE.
SaveIdentity_NoLock(w) ==
    /\ pc[w] = "merged"
    /\ identity' = who[w]
    /\ End(w)
    /\ UNCHANGED <<status, number, total, supplier, lineOf, nextValue>>

\* The upsert waits for the transactions that hold the row FOR SHARE.
SaveIdentity(w) ==
    /\ pc[w] = "merged"
    /\ \A v \in Workers : ~ HoldsIdentity(v)
    /\ identity' = who[w]
    /\ End(w)
    /\ UNCHANGED <<status, number, total, supplier, lineOf, nextValue>>

-----------------------------------------------------------------------------
Init ==
    /\ status = [i \in Invoices |-> "absent"]
    /\ number = [i \in Invoices |-> Nil]
    /\ total = [i \in Invoices |-> {}]
    /\ supplier = [i \in Invoices |-> Blank]
    /\ lineOf = [l \in Lines |-> Nil]
    /\ nextValue = FirstNumber
    /\ identity = Blank
    /\ pc = [w \in Workers |-> "idle"]
    /\ doc = [w \in Workers |-> Nil]
    /\ line = [w \in Workers |-> Nil]
    /\ seen = [w \in Workers |-> {}]
    /\ who = [w \in Workers |-> Blank]
    /\ sent = [w \in Workers |-> {}]

Issue(w) ==
    \/ \E i \in Invoices : LockDraft(w, i)
    \/ ReadIdentity(w) \/ CheckLines(w) \/ Recalculate(w)
    \/ TakeNumber(w) \/ CommitIssue(w)

AddLine(w) ==
    \/ \E i \in Invoices, l \in Lines : InsertLine(w, i, l)
    \/ LinkLine(w) \/ SumLines(w) \/ StoreTotal(w) \/ CommitLine(w)

VoidInvoice(w) ==
    \/ \E i \in Invoices : ReadForVoid(w, i)
    \/ Void(w) \/ CommitVoid(w)

SaveBillingIdentity(w) ==
    \/ \E fs \in (SUBSET Fields) \ {{}}, value \in BOOLEAN :
            MergeIdentity(w, fs, value)
    \/ SaveIdentity(w)

Next ==
    \/ \E i \in Invoices, ls \in SUBSET Lines : CreateDraft(i, ls)
    \/ \E w \in Workers :
        Issue(w) \/ AddLine(w) \/ VoidInvoice(w) \/ SaveBillingIdentity(w)
        \/ Rollback(w)

Spec == Init /\ [][Next]_vars

-----------------------------------------------------------------------------
(* Properties.                                                             *)

\* Rows keep their shape, and a number is the counter's or none.
TypeOK ==
    /\ status \in [Invoices -> {"absent", "draft", "issued", "void"}]
    /\ number \in [Invoices -> (Nat \ {0}) \cup {Nil}]
    /\ total \in [Invoices -> SUBSET Lines]
    /\ supplier \in [Invoices -> Identity]
    /\ lineOf \in [Lines -> Invoices \cup {Nil}]
    /\ nextValue \in Nat \ {0}
    /\ identity \in Identity
    /\ pc \in [Workers -> {"idle", "inserted", "linked", "summed", "totalled",
                           "passedOver", "voiding", "voided", "merged"}
                          \cup IssueSteps]
    /\ doc \in [Workers -> Invoices \cup {Nil}]
    /\ line \in [Workers -> Lines \cup {Nil}]
    /\ seen \in [Workers -> SUBSET Lines]
    /\ who \in [Workers -> Identity]
    /\ sent \in [Workers -> SUBSET Fields]

\* The numbers on documents are exactly 1 .. next_value - 1, each on one
\* document, whatever requests overlapped, failed or were rolled back
\* (next_document_number).
NumbersAreGapless ==
    /\ \A n \in 1 .. nextValue - 1 : \E i \in Invoices : number[i] = n
    /\ \A i, j \in Numbered : number[i] = number[j] => i = j
    /\ \A i \in Numbered : number[i] < nextValue

\* A number exists exactly when the document has left draft, and a document
\* with a number keeps the figures and the identity it was issued with.
IssuedIsFrozen ==
    [][\A i \in Numbered :
        /\ number'[i] = number[i]
        /\ total'[i] = total[i]
        /\ supplier'[i] = supplier[i]
        /\ status'[i] \in {"issued", "void"}]_vars

\* The identity printed on a document is the studio's at the moment the
\* document is issued: no save slips in between the snapshot and the commit.
SnapshotIsCurrent ==
    [][\A i \in Invoices :
        i \notin Numbered /\ number'[i] # Nil => supplier'[i] = identity]_vars

\* A numbered document came from a complete profile, and charges GST only
\* for a studio registered for it (the completeness gate and the blockers).
IssuedIsValid ==
    \A i \in Numbered :
        /\ Complete(supplier[i])
        /\ total[i] # {}
        /\ total[i] \cap Taxed # {} => supplier[i]["gst"]

\* "Lines follow the header: once the header leaves draft, its lines are
\* frozen", so the total on the document is the total of its lines.
IssuedLinesAreFrozen == \A i \in Numbered : LinesOf(i) = total[i]

\* "Upsert the issuing identity, keeping anything the caller did not send."
\* No run checks it: the code writes back all it merged, and two saves at once
\* lose a field (README, "Where the code and its words differ").
SaveKeepsTheRest ==
    [][\A w \in Workers, f \in Fields :
        SaveIdentity(w) /\ f \notin sent[w] => identity'[f] = identity[f]]_vars

\* The inductive invariant behind the properties above.  A transaction past
\* its first step has a target, and the row locks keep apart the issuer of an
\* invoice and those who add lines to it, so what the issuer has read of the
\* lines and of the identity stays true until it commits.
TargetsAreSet ==
    \A w \in Workers :
        /\ pc[w] \notin {"idle", "merged"} => doc[w] \in Invoices
        /\ pc[w] \in {"inserted", "linked", "summed", "totalled", "passedOver"}
            => line[w] \in Lines

LinesAreFresh ==
    /\ \A w \in Workers : line[w] \in Lines => lineOf[line[w]] = Nil
    /\ \A v, w \in Workers : v # w /\ line[v] = line[w] => line[v] = Nil

NumberMatchesStatus ==
    \A i \in Invoices : number[i] = Nil <=> status[i] \in {"absent", "draft"}

IssuerIsAlone ==
    \A v, w \in Workers, i \in Invoices :
        v # w /\ HoldsForUpdate(v, i) =>
            ~ (HoldsForUpdate(w, i) \/ HoldsKeyShare(w, i) \/ HoldsUpdate(w, i))

TotalledIsDraft ==
    \A w \in Workers :
        /\ pc[w] \in IssueSteps \cup {"totalled"} => status[doc[w]] = "draft"
        /\ pc[w] = "voided" => number[doc[w]] # Nil

Chargeable(ls, x) == Complete(x) /\ ls # {} /\ (ls \cap Taxed # {} => x["gst"])

IssuerReadsHold ==
    \A w \in Workers :
        /\ HoldsIdentity(w) => who[w] = identity /\ Complete(identity)
        /\ pc[w] \in {"checked", "recalculated", "numbered"}
            => Chargeable(LinesOf(doc[w]), identity)
        /\ pc[w] \in {"recalculated", "numbered"} => seen[w] = LinesOf(doc[w])

\* What every step of every transaction preserves; the proofs rest on it.
IndInv ==
    /\ TypeOK
    /\ TargetsAreSet
    /\ LinesAreFresh
    /\ NumberMatchesStatus
    /\ IssuerIsAlone
    /\ TotalledIsDraft
    /\ IssuerReadsHold
    /\ NumbersAreGapless
    /\ IssuedIsValid

\* Issuing implements the register: whatever the transactions do, the numbers
\* handed out read as a sequence of documents that only ever grows at its end.
EntryAt(n) == {i \in Invoices : number[i] = n}
Register == INSTANCE DocumentRegister WITH
    Docs <- {{i} : i \in Invoices},
    register <- [n \in 1 .. nextValue - 1 |-> EntryAt(n)]
ImplementsRegister == Register!Spec
=============================================================================
