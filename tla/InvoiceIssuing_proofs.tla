----------------------- MODULE InvoiceIssuing_proofs -----------------------
(***************************************************************************)
(* Proofs about InvoiceIssuing, for any set of workers, invoices and lines.*)
(***************************************************************************)
EXTENDS InvoiceIssuing, Sequences, TLAPS

(***************************************************************************)
(* Every step keeps the variables in their types.                          *)
(***************************************************************************)
LEMMA TypeStep == TypeOK /\ TargetsAreSet /\ [Next]_vars => TypeOK'
<1> SUFFICES ASSUME TypeOK, TargetsAreSet, [Next]_vars PROVE TypeOK'
  OBVIOUS
<1> USE NilIsNothing DEF TypeOK, Identity, Blank, IssueSteps, Begin, Goto, End,
        committed, session
<1>1. ASSUME NEW i \in Invoices, NEW ls \in SUBSET Lines, CreateDraft(i, ls)
      PROVE  TypeOK'
  BY <1>1 DEF CreateDraft
<1>2. ASSUME NEW w \in Workers, Issue(w) PROVE TypeOK'
  <2>1. ASSUME NEW i \in Invoices, LockDraft(w, i) PROVE TypeOK'
    BY <2>1 DEF LockDraft
  <2>2. CASE ReadIdentity(w)
    BY <2>2 DEF ReadIdentity
  <2>3. CASE CheckLines(w)
    BY <2>3 DEF CheckLines
  <2>4. CASE Recalculate(w)
    BY <2>4 DEF Recalculate, LinesOf
  <2>5. CASE TakeNumber(w)
    BY <2>5 DEF TakeNumber
  <2>6. CASE CommitIssue(w)
    <3>1. /\ pc' \in [Workers -> {"idle", "inserted", "linked", "summed",
                           "totalled", "passedOver", "voiding", "voided",
                           "merged"} \cup IssueSteps]
          /\ doc' \in [Workers -> Invoices \cup {Nil}]
          /\ line' \in [Workers -> Lines \cup {Nil}]
          /\ seen' \in [Workers -> SUBSET Lines]
          /\ who' \in [Workers -> Identity]
          /\ sent' \in [Workers -> SUBSET Fields]
      BY <2>6 DEF CommitIssue
    <3>2. status' \in [Invoices -> {"absent", "draft", "issued", "void"}]
      BY <2>6 DEF CommitIssue
    <3>3. number' \in [Invoices -> (Nat \ {0}) \cup {Nil}]
      BY <2>6 DEF CommitIssue
    <3>4. total' \in [Invoices -> SUBSET Lines]
      BY <2>6 DEF CommitIssue
    <3>5. supplier' \in [Invoices -> Identity]
      BY <2>6 DEF CommitIssue
    <3>6. /\ nextValue' \in Nat \ {0}
          /\ UNCHANGED <<lineOf, identity>>
      BY <2>6 DEF CommitIssue
    <3> QED
      BY <3>1, <3>2, <3>3, <3>4, <3>5, <3>6
  <2> HIDE DEF TypeOK, Identity, Blank, IssueSteps, Begin, Goto, End
  <2> QED
    BY <1>2, <2>1, <2>2, <2>3, <2>4, <2>5, <2>6 DEF Issue
<1>3. ASSUME NEW w \in Workers, AddLine(w) PROVE TypeOK'
  <2>1. ASSUME NEW i \in Invoices, NEW l \in Lines, InsertLine(w, i, l)
        PROVE  TypeOK'
    BY <2>1 DEF InsertLine
  <2>2. CASE LinkLine(w)
    BY <2>2 DEF LinkLine
  <2>3. CASE SumLines(w)
    BY <2>3 DEF SumLines, LinesOf, TargetsAreSet
  <2>4. CASE StoreTotal(w)
    BY <2>4 DEF StoreTotal
  <2>5. CASE CommitLine(w)
    BY <2>5 DEF CommitLine
  <2> HIDE DEF TypeOK, Identity, Blank, IssueSteps, Begin, Goto, End
  <2> QED
    BY <1>3, <2>1, <2>2, <2>3, <2>4, <2>5 DEF AddLine
<1>4. ASSUME NEW w \in Workers, VoidInvoice(w) PROVE TypeOK'
  <2>1. ASSUME NEW i \in Invoices, ReadForVoid(w, i) PROVE TypeOK'
    BY <2>1 DEF ReadForVoid
  <2>2. CASE Void(w)
    BY <2>2 DEF Void
  <2>3. CASE CommitVoid(w)
    BY <2>3 DEF CommitVoid
  <2> HIDE DEF TypeOK, Identity, Blank, IssueSteps, Begin, Goto, End
  <2> QED
    BY <1>4, <2>1, <2>2, <2>3 DEF VoidInvoice
<1>5. ASSUME NEW w \in Workers, SaveBillingIdentity(w) PROVE TypeOK'
  <2>1. ASSUME NEW fs \in (SUBSET Fields) \ {{}}, NEW value \in BOOLEAN,
               MergeIdentity(w, fs, value)
        PROVE  TypeOK'
    BY <2>1 DEF MergeIdentity
  <2>2. CASE SaveIdentity(w)
    BY <2>2 DEF SaveIdentity
  <2> HIDE DEF TypeOK, Identity, Blank, IssueSteps, Begin, Goto, End
  <2> QED
    BY <1>5, <2>1, <2>2 DEF SaveBillingIdentity
<1>6. ASSUME NEW w \in Workers, Rollback(w) PROVE TypeOK'
  BY <1>6 DEF Rollback
<1>7. CASE UNCHANGED vars
  BY <1>7 DEF vars
<1> QED
  BY <1>1, <1>2, <1>3, <1>4, <1>5, <1>6, <1>7 DEF Next

(***************************************************************************)
(* What each transaction works on.                                         *)
(***************************************************************************)
LEMMA TargetsStep == IndInv /\ [Next]_vars => TargetsAreSet'
<1> SUFFICES ASSUME IndInv, [Next]_vars PROVE TargetsAreSet'
  OBVIOUS
<1> USE DEF IndInv, TypeOK, TargetsAreSet, IssueSteps, Begin, Goto, End,
        committed, session
<1>1. ASSUME NEW i \in Invoices, NEW ls \in SUBSET Lines,
             CreateDraft(i, ls)
      PROVE TargetsAreSet'
  BY <1>1 DEF CreateDraft
<1>2. ASSUME NEW w \in Workers, NEW i \in Invoices, LockDraft(w, i)
      PROVE TargetsAreSet'
  BY <1>2 DEF LockDraft
<1>3. ASSUME NEW w \in Workers, ReadIdentity(w)
      PROVE TargetsAreSet'
  BY <1>3 DEF ReadIdentity
<1>4. ASSUME NEW w \in Workers, CheckLines(w)
      PROVE TargetsAreSet'
  BY <1>4 DEF CheckLines
<1>5. ASSUME NEW w \in Workers, Recalculate(w)
      PROVE TargetsAreSet'
  BY <1>5 DEF Recalculate
<1>6. ASSUME NEW w \in Workers, TakeNumber(w)
      PROVE TargetsAreSet'
  BY <1>6 DEF TakeNumber
<1>7. ASSUME NEW w \in Workers, CommitIssue(w)
      PROVE TargetsAreSet'
  BY <1>7 DEF CommitIssue
<1>8. ASSUME NEW w \in Workers, NEW i \in Invoices, NEW l \in Lines,
             InsertLine(w, i, l)
      PROVE TargetsAreSet'
  BY <1>8 DEF InsertLine
<1>9. ASSUME NEW w \in Workers, LinkLine(w)
      PROVE TargetsAreSet'
  BY <1>9 DEF LinkLine
<1>10. ASSUME NEW w \in Workers, SumLines(w)
      PROVE TargetsAreSet'
  BY <1>10 DEF SumLines
<1>11. ASSUME NEW w \in Workers, StoreTotal(w)
      PROVE TargetsAreSet'
  BY <1>11 DEF StoreTotal
<1>12. ASSUME NEW w \in Workers, CommitLine(w)
      PROVE TargetsAreSet'
  BY <1>12 DEF CommitLine
<1>13. ASSUME NEW w \in Workers, NEW i \in Invoices, ReadForVoid(w, i)
      PROVE TargetsAreSet'
  BY <1>13 DEF ReadForVoid
<1>14. ASSUME NEW w \in Workers, Void(w)
      PROVE TargetsAreSet'
  BY <1>14 DEF Void
<1>15. ASSUME NEW w \in Workers, CommitVoid(w)
      PROVE TargetsAreSet'
  BY <1>15 DEF CommitVoid
<1>16. ASSUME NEW w \in Workers, NEW fs \in (SUBSET Fields) \ {{}},
             NEW value \in BOOLEAN, MergeIdentity(w, fs, value)
      PROVE TargetsAreSet'
  BY <1>16 DEF MergeIdentity
<1>17. ASSUME NEW w \in Workers, SaveIdentity(w)
      PROVE TargetsAreSet'
  BY <1>17 DEF SaveIdentity
<1>18. ASSUME NEW w \in Workers, Rollback(w)
      PROVE TargetsAreSet'
  BY <1>18 DEF Rollback
<1>19. CASE UNCHANGED vars
  BY <1>19 DEF vars
<1> QED
  BY <1>1, <1>2, <1>3, <1>4, <1>5, <1>6, <1>7, <1>8, <1>9, <1>10, <1>11,
     <1>12, <1>13, <1>14, <1>15, <1>16, <1>17, <1>18, <1>19
     DEF Next, Issue, AddLine, VoidInvoice, SaveBillingIdentity

(***************************************************************************)
(* A line under insertion is no other's, and on no invoice yet.            *)
(***************************************************************************)
LEMMA FreshStep == IndInv /\ [Next]_vars => LinesAreFresh'
<1> SUFFICES ASSUME IndInv, [Next]_vars PROVE LinesAreFresh'
  OBVIOUS
<1> USE NilIsNothing DEF IndInv, TypeOK, TargetsAreSet, IssueSteps, Begin, Goto, End,
        committed, session, LinesAreFresh
<1>1. ASSUME NEW i \in Invoices, NEW ls \in SUBSET Lines,
             CreateDraft(i, ls)
      PROVE LinesAreFresh'
  BY <1>1 DEF CreateDraft
<1>2. ASSUME NEW w \in Workers, NEW i \in Invoices, LockDraft(w, i)
      PROVE LinesAreFresh'
  BY <1>2 DEF LockDraft
<1>3. ASSUME NEW w \in Workers, ReadIdentity(w)
      PROVE LinesAreFresh'
  BY <1>3 DEF ReadIdentity
<1>4. ASSUME NEW w \in Workers, CheckLines(w)
      PROVE LinesAreFresh'
  BY <1>4 DEF CheckLines
<1>5. ASSUME NEW w \in Workers, Recalculate(w)
      PROVE LinesAreFresh'
  BY <1>5 DEF Recalculate
<1>6. ASSUME NEW w \in Workers, TakeNumber(w)
      PROVE LinesAreFresh'
  BY <1>6 DEF TakeNumber
<1>7. ASSUME NEW w \in Workers, CommitIssue(w)
      PROVE LinesAreFresh'
  BY <1>7 DEF CommitIssue
<1>8. ASSUME NEW w \in Workers, NEW i \in Invoices, NEW l \in Lines,
             InsertLine(w, i, l)
      PROVE LinesAreFresh'
  BY <1>8 DEF InsertLine
<1>9. ASSUME NEW w \in Workers, LinkLine(w)
      PROVE LinesAreFresh'
  BY <1>9 DEF LinkLine
<1>10. ASSUME NEW w \in Workers, SumLines(w)
      PROVE LinesAreFresh'
  BY <1>10 DEF SumLines
<1>11. ASSUME NEW w \in Workers, StoreTotal(w)
      PROVE LinesAreFresh'
  BY <1>11 DEF StoreTotal
<1>12. ASSUME NEW w \in Workers, CommitLine(w)
      PROVE LinesAreFresh'
  BY <1>12 DEF CommitLine
<1>13. ASSUME NEW w \in Workers, NEW i \in Invoices, ReadForVoid(w, i)
      PROVE LinesAreFresh'
  BY <1>13 DEF ReadForVoid
<1>14. ASSUME NEW w \in Workers, Void(w)
      PROVE LinesAreFresh'
  BY <1>14 DEF Void
<1>15. ASSUME NEW w \in Workers, CommitVoid(w)
      PROVE LinesAreFresh'
  BY <1>15 DEF CommitVoid
<1>16. ASSUME NEW w \in Workers, NEW fs \in (SUBSET Fields) \ {{}},
             NEW value \in BOOLEAN, MergeIdentity(w, fs, value)
      PROVE LinesAreFresh'
  BY <1>16 DEF MergeIdentity
<1>17. ASSUME NEW w \in Workers, SaveIdentity(w)
      PROVE LinesAreFresh'
  BY <1>17 DEF SaveIdentity
<1>18. ASSUME NEW w \in Workers, Rollback(w)
      PROVE LinesAreFresh'
  BY <1>18 DEF Rollback
<1>19. CASE UNCHANGED vars
  BY <1>19 DEF vars
<1> HIDE DEF IndInv, TypeOK, LinesAreFresh, Begin, Goto, End, committed, session
<1> QED
  BY <1>1, <1>2, <1>3, <1>4, <1>5, <1>6, <1>7, <1>8, <1>9, <1>10, <1>11,
     <1>12, <1>13, <1>14, <1>15, <1>16, <1>17, <1>18, <1>19
     DEF Next, Issue, AddLine, VoidInvoice, SaveBillingIdentity

(***************************************************************************)
(* The row locks keep the issuer of an invoice apart from other writers.   *)
(***************************************************************************)
LEMMA AloneStep == IndInv /\ [Next]_vars => IssuerIsAlone'
<1> SUFFICES ASSUME IndInv, [Next]_vars PROVE IssuerIsAlone'
  OBVIOUS
<1> USE DEF IndInv, TypeOK, TargetsAreSet, IssuerIsAlone, HoldsForUpdate,
        HoldsKeyShare, HoldsUpdate, CanLockForUpdate, CanKeyShare, CanUpdate,
        IssueSteps, Begin, Goto, End, committed, session
<1>1. ASSUME NEW i \in Invoices, NEW ls \in SUBSET Lines,
             CreateDraft(i, ls)
      PROVE IssuerIsAlone'
  BY <1>1 DEF CreateDraft
<1>2. ASSUME NEW w \in Workers, NEW i \in Invoices, LockDraft(w, i)
      PROVE IssuerIsAlone'
  BY <1>2 DEF LockDraft
<1>3. ASSUME NEW w \in Workers, ReadIdentity(w)
      PROVE IssuerIsAlone'
  BY <1>3 DEF ReadIdentity
<1>4. ASSUME NEW w \in Workers, CheckLines(w)
      PROVE IssuerIsAlone'
  BY <1>4 DEF CheckLines
<1>5. ASSUME NEW w \in Workers, Recalculate(w)
      PROVE IssuerIsAlone'
  BY <1>5 DEF Recalculate
<1>6. ASSUME NEW w \in Workers, TakeNumber(w)
      PROVE IssuerIsAlone'
  BY <1>6 DEF TakeNumber
<1>7. ASSUME NEW w \in Workers, CommitIssue(w)
      PROVE IssuerIsAlone'
  BY <1>7 DEF CommitIssue
<1>8. ASSUME NEW w \in Workers, NEW i \in Invoices, NEW l \in Lines,
             InsertLine(w, i, l)
      PROVE IssuerIsAlone'
  BY <1>8 DEF InsertLine
<1>9. ASSUME NEW w \in Workers, LinkLine(w)
      PROVE IssuerIsAlone'
  BY <1>9 DEF LinkLine
<1>10. ASSUME NEW w \in Workers, SumLines(w)
      PROVE IssuerIsAlone'
  BY <1>10 DEF SumLines
<1>11. ASSUME NEW w \in Workers, StoreTotal(w)
      PROVE IssuerIsAlone'
  BY <1>11 DEF StoreTotal
<1>12. ASSUME NEW w \in Workers, CommitLine(w)
      PROVE IssuerIsAlone'
  BY <1>12 DEF CommitLine
<1>13. ASSUME NEW w \in Workers, NEW i \in Invoices, ReadForVoid(w, i)
      PROVE IssuerIsAlone'
  BY <1>13 DEF ReadForVoid
<1>14. ASSUME NEW w \in Workers, Void(w)
      PROVE IssuerIsAlone'
  BY <1>14 DEF Void
<1>15. ASSUME NEW w \in Workers, CommitVoid(w)
      PROVE IssuerIsAlone'
  BY <1>15 DEF CommitVoid
<1>16. ASSUME NEW w \in Workers, NEW fs \in (SUBSET Fields) \ {{}},
             NEW value \in BOOLEAN, MergeIdentity(w, fs, value)
      PROVE IssuerIsAlone'
  BY <1>16 DEF MergeIdentity
<1>17. ASSUME NEW w \in Workers, SaveIdentity(w)
      PROVE IssuerIsAlone'
  BY <1>17 DEF SaveIdentity
<1>18. ASSUME NEW w \in Workers, Rollback(w)
      PROVE IssuerIsAlone'
  BY <1>18 DEF Rollback
<1>19. CASE UNCHANGED vars
  BY <1>19 DEF vars
<1> QED
  BY <1>1, <1>2, <1>3, <1>4, <1>5, <1>6, <1>7, <1>8, <1>9, <1>10, <1>11,
     <1>12, <1>13, <1>14, <1>15, <1>16, <1>17, <1>18, <1>19
     DEF Next, Issue, AddLine, VoidInvoice, SaveBillingIdentity

(***************************************************************************)
(* A number exists exactly when the document has left draft.               *)
(***************************************************************************)
LEMMA NumberStep == IndInv /\ [Next]_vars => NumberMatchesStatus'
<1> SUFFICES ASSUME IndInv, [Next]_vars PROVE NumberMatchesStatus'
  OBVIOUS
<1> USE NilIsNothing DEF IndInv, TypeOK, TargetsAreSet, IssueSteps, Begin, Goto, End,
        committed, session, NumberMatchesStatus, TotalledIsDraft
<1>1. ASSUME NEW i \in Invoices, NEW ls \in SUBSET Lines,
             CreateDraft(i, ls)
      PROVE NumberMatchesStatus'
  BY <1>1 DEF CreateDraft
<1>2. ASSUME NEW w \in Workers, NEW i \in Invoices, LockDraft(w, i)
      PROVE NumberMatchesStatus'
  BY <1>2 DEF LockDraft
<1>3. ASSUME NEW w \in Workers, ReadIdentity(w)
      PROVE NumberMatchesStatus'
  BY <1>3 DEF ReadIdentity
<1>4. ASSUME NEW w \in Workers, CheckLines(w)
      PROVE NumberMatchesStatus'
  BY <1>4 DEF CheckLines
<1>5. ASSUME NEW w \in Workers, Recalculate(w)
      PROVE NumberMatchesStatus'
  BY <1>5 DEF Recalculate
<1>6. ASSUME NEW w \in Workers, TakeNumber(w)
      PROVE NumberMatchesStatus'
  BY <1>6 DEF TakeNumber
<1>7. ASSUME NEW w \in Workers, CommitIssue(w)
      PROVE NumberMatchesStatus'
  BY <1>7 DEF CommitIssue
<1>8. ASSUME NEW w \in Workers, NEW i \in Invoices, NEW l \in Lines,
             InsertLine(w, i, l)
      PROVE NumberMatchesStatus'
  BY <1>8 DEF InsertLine
<1>9. ASSUME NEW w \in Workers, LinkLine(w)
      PROVE NumberMatchesStatus'
  BY <1>9 DEF LinkLine
<1>10. ASSUME NEW w \in Workers, SumLines(w)
      PROVE NumberMatchesStatus'
  BY <1>10 DEF SumLines
<1>11. ASSUME NEW w \in Workers, StoreTotal(w)
      PROVE NumberMatchesStatus'
  BY <1>11 DEF StoreTotal
<1>12. ASSUME NEW w \in Workers, CommitLine(w)
      PROVE NumberMatchesStatus'
  BY <1>12 DEF CommitLine
<1>13. ASSUME NEW w \in Workers, NEW i \in Invoices, ReadForVoid(w, i)
      PROVE NumberMatchesStatus'
  BY <1>13 DEF ReadForVoid
<1>14. ASSUME NEW w \in Workers, Void(w)
      PROVE NumberMatchesStatus'
  BY <1>14 DEF Void
<1>15. ASSUME NEW w \in Workers, CommitVoid(w)
      PROVE NumberMatchesStatus'
  BY <1>15 DEF CommitVoid
<1>16. ASSUME NEW w \in Workers, NEW fs \in (SUBSET Fields) \ {{}},
             NEW value \in BOOLEAN, MergeIdentity(w, fs, value)
      PROVE NumberMatchesStatus'
  BY <1>16 DEF MergeIdentity
<1>17. ASSUME NEW w \in Workers, SaveIdentity(w)
      PROVE NumberMatchesStatus'
  BY <1>17 DEF SaveIdentity
<1>18. ASSUME NEW w \in Workers, Rollback(w)
      PROVE NumberMatchesStatus'
  BY <1>18 DEF Rollback
<1>19. CASE UNCHANGED vars
  BY <1>19 DEF vars
<1> QED
  BY <1>1, <1>2, <1>3, <1>4, <1>5, <1>6, <1>7, <1>8, <1>9, <1>10, <1>11,
     <1>12, <1>13, <1>14, <1>15, <1>16, <1>17, <1>18, <1>19
     DEF Next, Issue, AddLine, VoidInvoice, SaveBillingIdentity

(***************************************************************************)
(* Whoever is about to write a draft's figures still finds a draft.        *)
(***************************************************************************)
LEMMA TotalledStep == IndInv /\ [Next]_vars => TotalledIsDraft'
<1> SUFFICES ASSUME IndInv, [Next]_vars PROVE TotalledIsDraft'
  OBVIOUS
<1> USE NilIsNothing DEF IndInv, TypeOK, TargetsAreSet, IssueSteps, Begin, Goto, End,
        committed, session, NumberMatchesStatus, TotalledIsDraft,
        IssuerIsAlone, HoldsForUpdate, HoldsKeyShare, HoldsUpdate,
        CanLockForUpdate, CanUpdate
<1>1. ASSUME NEW i \in Invoices, NEW ls \in SUBSET Lines,
             CreateDraft(i, ls)
      PROVE TotalledIsDraft'
  BY <1>1 DEF CreateDraft
<1>2. ASSUME NEW w \in Workers, NEW i \in Invoices, LockDraft(w, i)
      PROVE TotalledIsDraft'
  BY <1>2 DEF LockDraft
<1>3. ASSUME NEW w \in Workers, ReadIdentity(w)
      PROVE TotalledIsDraft'
  BY <1>3 DEF ReadIdentity
<1>4. ASSUME NEW w \in Workers, CheckLines(w)
      PROVE TotalledIsDraft'
  BY <1>4 DEF CheckLines
<1>5. ASSUME NEW w \in Workers, Recalculate(w)
      PROVE TotalledIsDraft'
  BY <1>5 DEF Recalculate
<1>6. ASSUME NEW w \in Workers, TakeNumber(w)
      PROVE TotalledIsDraft'
  BY <1>6 DEF TakeNumber
<1>7. ASSUME NEW w \in Workers, CommitIssue(w)
      PROVE TotalledIsDraft'
  BY <1>7 DEF CommitIssue
<1>8. ASSUME NEW w \in Workers, NEW i \in Invoices, NEW l \in Lines,
             InsertLine(w, i, l)
      PROVE TotalledIsDraft'
  BY <1>8 DEF InsertLine
<1>9. ASSUME NEW w \in Workers, LinkLine(w)
      PROVE TotalledIsDraft'
  BY <1>9 DEF LinkLine
<1>10. ASSUME NEW w \in Workers, SumLines(w)
      PROVE TotalledIsDraft'
  BY <1>10 DEF SumLines
<1>11. ASSUME NEW w \in Workers, StoreTotal(w)
      PROVE TotalledIsDraft'
  BY <1>11 DEF StoreTotal
<1>12. ASSUME NEW w \in Workers, CommitLine(w)
      PROVE TotalledIsDraft'
  BY <1>12 DEF CommitLine
<1>13. ASSUME NEW w \in Workers, NEW i \in Invoices, ReadForVoid(w, i)
      PROVE TotalledIsDraft'
  BY <1>13 DEF ReadForVoid
<1>14. ASSUME NEW w \in Workers, Void(w)
      PROVE TotalledIsDraft'
  BY <1>14 DEF Void
<1>15. ASSUME NEW w \in Workers, CommitVoid(w)
      PROVE TotalledIsDraft'
  BY <1>15 DEF CommitVoid
<1>16. ASSUME NEW w \in Workers, NEW fs \in (SUBSET Fields) \ {{}},
             NEW value \in BOOLEAN, MergeIdentity(w, fs, value)
      PROVE TotalledIsDraft'
  BY <1>16 DEF MergeIdentity
<1>17. ASSUME NEW w \in Workers, SaveIdentity(w)
      PROVE TotalledIsDraft'
  BY <1>17 DEF SaveIdentity
<1>18. ASSUME NEW w \in Workers, Rollback(w)
      PROVE TotalledIsDraft'
  BY <1>18 DEF Rollback
<1>19. CASE UNCHANGED vars
  BY <1>19 DEF vars
<1> QED
  BY <1>1, <1>2, <1>3, <1>4, <1>5, <1>6, <1>7, <1>8, <1>9, <1>10, <1>11,
     <1>12, <1>13, <1>14, <1>15, <1>16, <1>17, <1>18, <1>19
     DEF Next, Issue, AddLine, VoidInvoice, SaveBillingIdentity

(***************************************************************************)
(* What the issuer has read stays true until it commits.                   *)
(***************************************************************************)
LEMMA ReadsStep == IndInv /\ [Next]_vars => IssuerReadsHold'
<1> SUFFICES ASSUME IndInv, [Next]_vars PROVE IssuerReadsHold'
  OBVIOUS
<1> USE NilIsNothing DEF IndInv, TypeOK, TargetsAreSet, IssueSteps, Begin, Goto, End,
        committed, session, IssuerReadsHold, Chargeable, LinesOf,
        TotalledIsDraft, HoldsIdentity,
        IssuerIsAlone, HoldsForUpdate, HoldsKeyShare, HoldsUpdate
<1>1. ASSUME NEW i \in Invoices, NEW ls \in SUBSET Lines,
             CreateDraft(i, ls)
      PROVE IssuerReadsHold'
  <2>1. \A w \in Workers : pc[w] \in IssueSteps => LinesOf(doc[w])' = LinesOf(doc[w])
    BY <1>1 DEF CreateDraft
  <2> QED
    BY <1>1, <2>1 DEF CreateDraft
<1>2. ASSUME NEW w \in Workers, NEW i \in Invoices, LockDraft(w, i)
      PROVE IssuerReadsHold'
  BY <1>2 DEF LockDraft
<1>3. ASSUME NEW w \in Workers, ReadIdentity(w)
      PROVE IssuerReadsHold'
  BY <1>3 DEF ReadIdentity
<1>4. ASSUME NEW w \in Workers, CheckLines(w)
      PROVE IssuerReadsHold'
  BY <1>4 DEF CheckLines
<1>5. ASSUME NEW w \in Workers, Recalculate(w)
      PROVE IssuerReadsHold'
  BY <1>5 DEF Recalculate
<1>6. ASSUME NEW w \in Workers, TakeNumber(w)
      PROVE IssuerReadsHold'
  BY <1>6 DEF TakeNumber
<1>7. ASSUME NEW w \in Workers, CommitIssue(w)
      PROVE IssuerReadsHold'
  BY <1>7 DEF CommitIssue
<1>8. ASSUME NEW w \in Workers, NEW i \in Invoices, NEW l \in Lines,
             InsertLine(w, i, l)
      PROVE IssuerReadsHold'
  BY <1>8 DEF InsertLine
<1>9. ASSUME NEW w \in Workers, LinkLine(w)
      PROVE IssuerReadsHold'
  BY <1>9 DEF LinkLine
<1>10. ASSUME NEW w \in Workers, SumLines(w)
      PROVE IssuerReadsHold'
  BY <1>10 DEF SumLines
<1>11. ASSUME NEW w \in Workers, StoreTotal(w)
      PROVE IssuerReadsHold'
  BY <1>11 DEF StoreTotal
<1>12. ASSUME NEW w \in Workers, CommitLine(w)
      PROVE IssuerReadsHold'
  <2>1. \A v \in Workers :
            pc[v] \in IssueSteps => v # w /\ doc[v] # doc[w]
    BY <1>12 DEF CommitLine
  <2>2. \A v \in Workers :
            pc[v] \in IssueSteps => LinesOf(doc[v])' = LinesOf(doc[v])
    BY <1>12, <2>1 DEF CommitLine, LinesAreFresh
  <2> QED
    BY <1>12, <2>1, <2>2 DEF CommitLine
<1>13. ASSUME NEW w \in Workers, NEW i \in Invoices, ReadForVoid(w, i)
      PROVE IssuerReadsHold'
  BY <1>13 DEF ReadForVoid
<1>14. ASSUME NEW w \in Workers, Void(w)
      PROVE IssuerReadsHold'
  BY <1>14 DEF Void
<1>15. ASSUME NEW w \in Workers, CommitVoid(w)
      PROVE IssuerReadsHold'
  BY <1>15 DEF CommitVoid
<1>16. ASSUME NEW w \in Workers, NEW fs \in (SUBSET Fields) \ {{}},
             NEW value \in BOOLEAN, MergeIdentity(w, fs, value)
      PROVE IssuerReadsHold'
  BY <1>16 DEF MergeIdentity
<1>17. ASSUME NEW w \in Workers, SaveIdentity(w)
      PROVE IssuerReadsHold'
  BY <1>17 DEF SaveIdentity
<1>18. ASSUME NEW w \in Workers, Rollback(w)
      PROVE IssuerReadsHold'
  BY <1>18 DEF Rollback
<1>19. CASE UNCHANGED vars
  BY <1>19 DEF vars
<1> HIDE DEF IndInv, TypeOK, IssuerReadsHold, Begin, Goto, End, committed, session
<1> QED
  BY <1>1, <1>2, <1>3, <1>4, <1>5, <1>6, <1>7, <1>8, <1>9, <1>10, <1>11,
     <1>12, <1>13, <1>14, <1>15, <1>16, <1>17, <1>18, <1>19
     DEF Next, Issue, AddLine, VoidInvoice, SaveBillingIdentity

(***************************************************************************)
(* The numbers stay 1 .. next_value - 1, each on one document.             *)
(***************************************************************************)
LEMMA GaplessStep == IndInv /\ [Next]_vars => NumbersAreGapless'
<1> SUFFICES ASSUME IndInv, [Next]_vars PROVE NumbersAreGapless'
  OBVIOUS
<1> USE NilIsNothing DEF IndInv, TypeOK, TargetsAreSet, IssueSteps, Begin, Goto, End,
        committed, session, NumberMatchesStatus, TotalledIsDraft,
        NumbersAreGapless, Numbered
<1>1. ASSUME NEW i \in Invoices, NEW ls \in SUBSET Lines,
             CreateDraft(i, ls)
      PROVE NumbersAreGapless'
  BY <1>1 DEF CreateDraft
<1>2. ASSUME NEW w \in Workers, NEW i \in Invoices, LockDraft(w, i)
      PROVE NumbersAreGapless'
  BY <1>2 DEF LockDraft
<1>3. ASSUME NEW w \in Workers, ReadIdentity(w)
      PROVE NumbersAreGapless'
  BY <1>3 DEF ReadIdentity
<1>4. ASSUME NEW w \in Workers, CheckLines(w)
      PROVE NumbersAreGapless'
  BY <1>4 DEF CheckLines
<1>5. ASSUME NEW w \in Workers, Recalculate(w)
      PROVE NumbersAreGapless'
  BY <1>5 DEF Recalculate
<1>6. ASSUME NEW w \in Workers, TakeNumber(w)
      PROVE NumbersAreGapless'
  BY <1>6 DEF TakeNumber
<1>7. ASSUME NEW w \in Workers, CommitIssue(w)
      PROVE NumbersAreGapless'
  BY <1>7 DEF CommitIssue
<1>8. ASSUME NEW w \in Workers, NEW i \in Invoices, NEW l \in Lines,
             InsertLine(w, i, l)
      PROVE NumbersAreGapless'
  BY <1>8 DEF InsertLine
<1>9. ASSUME NEW w \in Workers, LinkLine(w)
      PROVE NumbersAreGapless'
  BY <1>9 DEF LinkLine
<1>10. ASSUME NEW w \in Workers, SumLines(w)
      PROVE NumbersAreGapless'
  BY <1>10 DEF SumLines
<1>11. ASSUME NEW w \in Workers, StoreTotal(w)
      PROVE NumbersAreGapless'
  BY <1>11 DEF StoreTotal
<1>12. ASSUME NEW w \in Workers, CommitLine(w)
      PROVE NumbersAreGapless'
  BY <1>12 DEF CommitLine
<1>13. ASSUME NEW w \in Workers, NEW i \in Invoices, ReadForVoid(w, i)
      PROVE NumbersAreGapless'
  BY <1>13 DEF ReadForVoid
<1>14. ASSUME NEW w \in Workers, Void(w)
      PROVE NumbersAreGapless'
  BY <1>14 DEF Void
<1>15. ASSUME NEW w \in Workers, CommitVoid(w)
      PROVE NumbersAreGapless'
  BY <1>15 DEF CommitVoid
<1>16. ASSUME NEW w \in Workers, NEW fs \in (SUBSET Fields) \ {{}},
             NEW value \in BOOLEAN, MergeIdentity(w, fs, value)
      PROVE NumbersAreGapless'
  BY <1>16 DEF MergeIdentity
<1>17. ASSUME NEW w \in Workers, SaveIdentity(w)
      PROVE NumbersAreGapless'
  BY <1>17 DEF SaveIdentity
<1>18. ASSUME NEW w \in Workers, Rollback(w)
      PROVE NumbersAreGapless'
  BY <1>18 DEF Rollback
<1>19. CASE UNCHANGED vars
  BY <1>19 DEF vars
<1> QED
  BY <1>1, <1>2, <1>3, <1>4, <1>5, <1>6, <1>7, <1>8, <1>9, <1>10, <1>11,
     <1>12, <1>13, <1>14, <1>15, <1>16, <1>17, <1>18, <1>19
     DEF Next, Issue, AddLine, VoidInvoice, SaveBillingIdentity

(***************************************************************************)
(* A document is issued from a complete profile, with the tax checked.     *)
(***************************************************************************)
LEMMA ValidStep == IndInv /\ [Next]_vars => IssuedIsValid'
<1> SUFFICES ASSUME IndInv, [Next]_vars PROVE IssuedIsValid'
  OBVIOUS
<1> USE NilIsNothing DEF IndInv, TypeOK, TargetsAreSet, IssueSteps, Begin, Goto, End,
        committed, session, NumberMatchesStatus, TotalledIsDraft,
        IssuerReadsHold, Chargeable, HoldsIdentity, IssuedIsValid, Numbered
<1>1. ASSUME NEW i \in Invoices, NEW ls \in SUBSET Lines,
             CreateDraft(i, ls)
      PROVE IssuedIsValid'
  BY <1>1 DEF CreateDraft
<1>2. ASSUME NEW w \in Workers, NEW i \in Invoices, LockDraft(w, i)
      PROVE IssuedIsValid'
  BY <1>2 DEF LockDraft
<1>3. ASSUME NEW w \in Workers, ReadIdentity(w)
      PROVE IssuedIsValid'
  BY <1>3 DEF ReadIdentity
<1>4. ASSUME NEW w \in Workers, CheckLines(w)
      PROVE IssuedIsValid'
  BY <1>4 DEF CheckLines
<1>5. ASSUME NEW w \in Workers, Recalculate(w)
      PROVE IssuedIsValid'
  BY <1>5 DEF Recalculate
<1>6. ASSUME NEW w \in Workers, TakeNumber(w)
      PROVE IssuedIsValid'
  BY <1>6 DEF TakeNumber
<1>7. ASSUME NEW w \in Workers, CommitIssue(w)
      PROVE IssuedIsValid'
  BY <1>7 DEF CommitIssue
<1>8. ASSUME NEW w \in Workers, NEW i \in Invoices, NEW l \in Lines,
             InsertLine(w, i, l)
      PROVE IssuedIsValid'
  BY <1>8 DEF InsertLine
<1>9. ASSUME NEW w \in Workers, LinkLine(w)
      PROVE IssuedIsValid'
  BY <1>9 DEF LinkLine
<1>10. ASSUME NEW w \in Workers, SumLines(w)
      PROVE IssuedIsValid'
  BY <1>10 DEF SumLines
<1>11. ASSUME NEW w \in Workers, StoreTotal(w)
      PROVE IssuedIsValid'
  BY <1>11 DEF StoreTotal
<1>12. ASSUME NEW w \in Workers, CommitLine(w)
      PROVE IssuedIsValid'
  BY <1>12 DEF CommitLine
<1>13. ASSUME NEW w \in Workers, NEW i \in Invoices, ReadForVoid(w, i)
      PROVE IssuedIsValid'
  BY <1>13 DEF ReadForVoid
<1>14. ASSUME NEW w \in Workers, Void(w)
      PROVE IssuedIsValid'
  BY <1>14 DEF Void
<1>15. ASSUME NEW w \in Workers, CommitVoid(w)
      PROVE IssuedIsValid'
  BY <1>15 DEF CommitVoid
<1>16. ASSUME NEW w \in Workers, NEW fs \in (SUBSET Fields) \ {{}},
             NEW value \in BOOLEAN, MergeIdentity(w, fs, value)
      PROVE IssuedIsValid'
  BY <1>16 DEF MergeIdentity
<1>17. ASSUME NEW w \in Workers, SaveIdentity(w)
      PROVE IssuedIsValid'
  BY <1>17 DEF SaveIdentity
<1>18. ASSUME NEW w \in Workers, Rollback(w)
      PROVE IssuedIsValid'
  BY <1>18 DEF Rollback
<1>19. CASE UNCHANGED vars
  BY <1>19 DEF vars
<1> HIDE DEF IndInv, TypeOK, IssuedIsValid, Begin, Goto, End, committed, session
<1> QED
  BY <1>1, <1>2, <1>3, <1>4, <1>5, <1>6, <1>7, <1>8, <1>9, <1>10, <1>11,
     <1>12, <1>13, <1>14, <1>15, <1>16, <1>17, <1>18, <1>19
     DEF Next, Issue, AddLine, VoidInvoice, SaveBillingIdentity

(***************************************************************************)
(* The invariant, and what follows from it.                                *)
(***************************************************************************)
LEMMA InitIndInv == Init => IndInv
  BY NilIsNothing DEF Init, IndInv, TypeOK, TargetsAreSet, LinesAreFresh,
     NumberMatchesStatus, IssuerIsAlone, HoldsForUpdate, HoldsKeyShare,
     HoldsUpdate, TotalledIsDraft, IssuerReadsHold, HoldsIdentity,
     NumbersAreGapless, IssuedIsValid, Numbered, Identity, Blank, IssueSteps,
     FirstNumber

LEMMA NextIndInv == IndInv /\ [Next]_vars => IndInv'
  BY TypeStep, TargetsStep, FreshStep, NumberStep, AloneStep, TotalledStep,
     ReadsStep, GaplessStep, ValidStep DEF IndInv

\* The inductive invariant holds in every reachable state.
THEOREM Invariance == Spec => []IndInv
  BY InitIndInv, NextIndInv, PTL DEF Spec

\* The variables keep their types.
THEOREM TypeCorrect == Spec => []TypeOK
<1>1. IndInv => TypeOK
  BY DEF IndInv
<1> QED
  BY <1>1, Invariance, PTL

\* However many requests issue, void, edit, fail and roll back at once, the
\* numbers given out are 1, 2, 3, ... and each names one document
\* (next_document_number).
THEOREM GaplessNumbering == Spec => []NumbersAreGapless
<1>1. IndInv => NumbersAreGapless
  BY DEF IndInv
<1> QED
  BY <1>1, Invariance, PTL

\* No route issues a document without a complete profile, without lines, or
\* with GST the studio may not charge (issue_invoice's gate and blockers).
THEOREM ValidDocuments == Spec => []IssuedIsValid
<1>1. IndInv => IssuedIsValid
  BY DEF IndInv
<1> QED
  BY <1>1, Invariance, PTL

(***************************************************************************)
(* What a step may do to the committed rows.                               *)
(***************************************************************************)
LEMMA Writers ==
    ASSUME [Next]_vars
    PROVE  \/ \E i \in Invoices, ls \in SUBSET Lines : CreateDraft(i, ls)
           \/ \E w \in Workers : \/ CommitIssue(w) \/ CommitLine(w)
                                 \/ CommitVoid(w) \/ SaveIdentity(w)
           \/ UNCHANGED committed
<1>1. ASSUME NEW w \in Workers, Issue(w), ~ CommitIssue(w)
      PROVE  UNCHANGED committed
  BY <1>1 DEF Issue, LockDraft, ReadIdentity, CheckLines, Recalculate, TakeNumber
<1>2. ASSUME NEW w \in Workers, AddLine(w), ~ CommitLine(w)
      PROVE  UNCHANGED committed
  BY <1>2 DEF AddLine, InsertLine, LinkLine, SumLines, StoreTotal
<1>3. ASSUME NEW w \in Workers, VoidInvoice(w), ~ CommitVoid(w)
      PROVE  UNCHANGED committed
  BY <1>3 DEF VoidInvoice, ReadForVoid, Void
<1>4. ASSUME NEW w \in Workers, SaveBillingIdentity(w), ~ SaveIdentity(w)
      PROVE  UNCHANGED committed
  BY <1>4 DEF SaveBillingIdentity, MergeIdentity
<1>5. ASSUME NEW w \in Workers, Rollback(w)
      PROVE  UNCHANGED committed
  BY <1>5 DEF Rollback
<1>6. CASE UNCHANGED vars
  BY <1>6 DEF vars
<1> QED
  BY <1>1, <1>2, <1>3, <1>4, <1>5, <1>6 DEF Next

(***************************************************************************)
(* A document with a number keeps its number, figures and identity: a      *)
(* request that read the draft before it was issued can no longer write.   *)
(***************************************************************************)
LEMMA FrozenStep ==
    IndInv /\ [Next]_vars =>
        \A i \in Numbered : /\ number'[i] = number[i]
                            /\ total'[i] = total[i]
                            /\ supplier'[i] = supplier[i]
                            /\ status'[i] \in {"issued", "void"}
<1> SUFFICES ASSUME IndInv, [Next]_vars, NEW i \in Numbered
             PROVE  /\ number'[i] = number[i]
                    /\ total'[i] = total[i]
                    /\ supplier'[i] = supplier[i]
                    /\ status'[i] \in {"issued", "void"}
  OBVIOUS
<1>1. i \in Invoices /\ status[i] \in {"issued", "void"}
  BY DEF Numbered, IndInv, TypeOK, NumberMatchesStatus
<1>2. ASSUME NEW j \in Invoices, NEW ls \in SUBSET Lines, CreateDraft(j, ls)
      PROVE  i # j /\ UNCHANGED <<number[i], total[i], supplier[i], status[i]>>
  BY <1>1, <1>2 DEF CreateDraft, IndInv, TypeOK
<1>3. ASSUME NEW w \in Workers, CommitIssue(w)
      PROVE  UNCHANGED <<number[i], total[i], supplier[i], status[i]>>
  BY <1>1, <1>3 DEF CommitIssue, IndInv, TypeOK
<1>4. ASSUME NEW w \in Workers, CommitLine(w)
      PROVE  UNCHANGED <<number[i], total[i], supplier[i], status[i]>>
  BY <1>1, <1>4 DEF CommitLine, IndInv, TypeOK, TotalledIsDraft
<1>5. ASSUME NEW w \in Workers, CommitVoid(w)
      PROVE  /\ UNCHANGED <<number[i], total[i], supplier[i]>>
             /\ status'[i] \in {"issued", "void"}
  BY <1>1, <1>5 DEF CommitVoid, IndInv, TypeOK
<1>6. ASSUME NEW w \in Workers, SaveIdentity(w)
      PROVE  UNCHANGED <<number[i], total[i], supplier[i], status[i]>>
  BY <1>6 DEF SaveIdentity
<1>7. CASE UNCHANGED committed
  BY <1>1, <1>7 DEF committed
<1> QED
  BY <1>1, <1>2, <1>3, <1>4, <1>5, <1>6, <1>7, Writers

\* A document that left draft keeps its number, total, buyer and seller: no
\* later save of the profile, line write, retry of issue_invoice or void
\* changes what the studio handed out.
THEOREM IssuedDocumentsAreFrozen == Spec => IssuedIsFrozen
<1>1. IndInv /\ [Next]_vars =>
        [\A i \in Numbered : /\ number'[i] = number[i]
                             /\ total'[i] = total[i]
                             /\ supplier'[i] = supplier[i]
                             /\ status'[i] \in {"issued", "void"}]_vars
  BY FrozenStep
<1> QED
  BY <1>1, Invariance, PTL DEF Spec, IssuedIsFrozen

(***************************************************************************)
(* The identity a document carries is the one in force when it is issued.  *)
(***************************************************************************)
LEMMA SnapshotStep ==
    IndInv /\ [Next]_vars =>
        \A i \in Invoices :
            i \notin Numbered /\ number'[i] # Nil => supplier'[i] = identity
<1> SUFFICES ASSUME IndInv, [Next]_vars, NEW i \in Invoices,
                    i \notin Numbered, number'[i] # Nil
             PROVE  supplier'[i] = identity
  OBVIOUS
<1>1. number'[i] # number[i]
  BY DEF Numbered
<1>2. PICK w \in Workers : CommitIssue(w)
  BY <1>1, Writers DEF CreateDraft, CommitLine, CommitVoid, SaveIdentity, committed
<1>3. who[w] = identity
  BY <1>2 DEF CommitIssue, IndInv, IssuerReadsHold, HoldsIdentity
<1>4. doc[w] = i
  BY <1>1, <1>2 DEF CommitIssue, IndInv, TypeOK
<1> QED
  BY <1>2, <1>3, <1>4 DEF CommitIssue, IndInv, TypeOK

\* What issue_invoice prints is the profile and the lines of the moment the
\* document is issued, although it read them several steps earlier.
THEOREM SnapshotsAreCurrent == Spec => SnapshotIsCurrent
<1>1. IndInv /\ [Next]_vars =>
        [\A i \in Invoices :
            i \notin Numbered /\ number'[i] # Nil => supplier'[i] = identity]_vars
  BY SnapshotStep
<1> QED
  BY <1>1, Invariance, PTL DEF Spec, SnapshotIsCurrent

(***************************************************************************)
(* Issuing implements the register: a commit of an issue enters one        *)
(* document at the end, every other step leaves the register alone.        *)
(***************************************************************************)
entries == [n \in 1 .. nextValue - 1 |-> EntryAt(n)]

LEMMA RegisterInit == Init => Register!Init
<1> SUFFICES ASSUME Init PROVE entries = << >>
  BY DEF Register!Init, entries
<1>1. nextValue = 1
  BY DEF Init, FirstNumber
<1>2. entries = [n \in 1 .. 0 |-> EntryAt(n)]
  BY <1>1 DEF entries
<1> QED
  BY <1>2

LEMMA RegisterStep == IndInv /\ [Next]_vars => [Register!Next]_entries
<1> SUFFICES ASSUME IndInv, [Next]_vars
             PROVE  Register!Next \/ entries' = entries
  OBVIOUS
<1>1. ASSUME UNCHANGED <<number, nextValue>> PROVE entries' = entries
  BY <1>1 DEF entries, EntryAt
<1>2. ASSUME NEW w \in Workers, CommitIssue(w) PROVE Register!Next
  <2>0. PICK i, k : i = doc[w] /\ k = nextValue
    OBVIOUS
  <2>1. /\ i \in Invoices /\ k \in Nat \ {0} /\ nextValue' = k + 1
        /\ number[i] = Nil /\ number' = [number EXCEPT ![i] = k]
    BY <1>2, <2>0 DEF CommitIssue, IndInv, TypeOK, TargetsAreSet, TotalledIsDraft,
                NumberMatchesStatus, IssueSteps
  <2>2. \A n \in 1 .. k - 1 : EntryAt(n)' = EntryAt(n)
    BY <2>1, NilIsNothing DEF EntryAt, IndInv, TypeOK
  <2>3. EntryAt(k)' = {i}
    <3>1. \A j \in Invoices : number[j] # k
      BY <1>2, <2>0 DEF CommitIssue
    <3> QED
      BY <2>1, <3>1 DEF EntryAt, IndInv, TypeOK
  <2>4. entries \in Seq(SUBSET Invoices) /\ Len(entries) = k - 1
    BY <2>0, <2>1 DEF entries, EntryAt
  <2>5. entries' = Append(entries, {i})
    <3>1. entries' = [n \in 1 .. k |-> EntryAt(n)']
      BY <2>0, <2>1 DEF entries
    <3>2. entries' = [n \in 1 .. k |-> IF n = k THEN {i} ELSE entries[n]]
      BY <2>0, <2>1, <2>2, <2>3, <3>1 DEF entries
    <3> QED
      BY <2>0, <2>1, <2>4, <3>2
  <2>6. {i} \notin {entries[n] : n \in DOMAIN entries}
    <3>1. \A n \in 1 .. k - 1 : i \notin EntryAt(n)
      BY <2>0, <2>1, NilIsNothing DEF EntryAt
    <3> QED
      BY <2>0, <2>1, <3>1 DEF entries
  <2> QED
    BY <2>0, <2>1, <2>5, <2>6
    DEF Register!Next, Register!Enter, Register!Entered, entries
<1>3. ASSUME ~ UNCHANGED <<number, nextValue>>
      PROVE  \E w \in Workers : CommitIssue(w)
  BY <1>3, Writers DEF CreateDraft, CommitLine, CommitVoid, SaveIdentity, committed
<1> QED
  BY <1>1, <1>2, <1>3

\* Issuing invoices implements the register of documents: a counter of its
\* own and rows written one by one look like documents entered in order.
THEOREM RegisterRefinement == Spec => ImplementsRegister
  BY RegisterInit, RegisterStep, Invariance, PTL
  DEF Spec, ImplementsRegister, Register!Spec, entries
=============================================================================
