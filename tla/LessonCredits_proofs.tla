------------------------- MODULE LessonCredits_proofs -------------------------
(***************************************************************************)
(* The credits that lessons are paid with, of both kinds: those that are   *)
(* bought and refunded (CreditDesk) and those that absences grant          *)
(* (MakeupCredits, over LessonRecords).  The theorems hold for any number  *)
(* of desks, students, forms, days and requests.                           *)
(*                                                                         *)
(* That one form is booked once is not inductive: it needs that everybody  *)
(* who holds one form, the open question or a request on its way, holds    *)
(* one id (Tied), which is claimed as soon as the form is booked.  That    *)
(* refunds stay within their purchase needs that the fold over refunds     *)
(* grows by one movement at a time (RefundedGrows), which is shown of any  *)
(* deduction over a finite set.                                            *)
(*                                                                         *)
(* That a make-up lesson's credit stays spent needs that no other change   *)
(* has its id (Apart) and that the credit was unspent before, which is     *)
(* what the re-checked condition of the booking says and what              *)
(* CreditsGoWithAbsences keeps apart from cancelled ones.                  *)
(***************************************************************************)
EXTENDS CreditDesk, LessonRecords, FiniteSetTheorems, WellFoundedInduction, TLAPS

CONSTANTS LessonDays, FirstClosures, Presses, Turns
VARIABLES series, closed, turns, page, calls, pressed
Lesson == INSTANCE MakeupCredits

-----------------------------------------------------------------------------
(* The inductive invariant. *)

Intents == Desks \X Nat
Entry == [student : Students, credits : Int, source : Indices \cup {None},
          account : Accounts \cup {None}, intent : Intents \cup {None}]
Form == [mode : Kinds, student : Students \cup {None}, pack : Packs \cup {None}, invoice : BOOLEAN,
         source : Indices \cup {None}, credits : Packs \cup {None}]
Choice == [known : SUBSET Accounts, payer : Accounts \cup {New, None}]
Lookup == [about : {"payers", "sources"}, student : Students,
           chosen : Accounts \cup {New, None} \cup Indices, wanted : BOOLEAN]
Offer == [of : Indices, left : Int]
Slot == [sig : Signature \cup {None}, id : Ids \cup {None}]
Memory == [slot : [Kinds -> Slot], account : Accounts \cup {None}]
Question == [sig : Signature, id : Ids, intent : Intents]
Operation == [sig : Signature \cup {None}, id : Ids \cup {None}, intent : Intents \cup {None},
              account : Accounts \cup {None}, at : {"account", "book", "adrift", "loading"}]

\* Whoever holds a form: the question that is open and the requests on their way.
HoldersOf(g, os) == (IF g = None THEN {} ELSE {g}) \cup {op \in os : op.sig # None}
Holders(d) == HoldersOf(dialog[d], ops[d])
Slotted(d) == memory[d].slot[form[d].mode]

LedgerTyped ==
    /\ balance \in [Students -> Nat]
    /\ moves \in Seq(Entry) /\ Len(moves) <= Cardinality(Indices)
    /\ claims \in [Ids -> Digests \cup {None}]
    /\ links \in [Students -> SUBSET Accounts]
LedgerOK ==
    /\ LedgerTyped /\ OneFormOneMove /\ RefundsWithinPurchase
    /\ \A j \in DOMAIN moves : moves[j].source \in DOMAIN moves \cup {None}
DesksTyped ==
    /\ form \in [Desks -> Form] /\ picker \in [Desks -> Choice]
    /\ lookups \in [Desks -> SUBSET Lookup] /\ sources \in [Desks -> SUBSET Offer]
    /\ memory \in [Desks -> Memory] /\ busy \in [Desks -> BOOLEAN]
    /\ dialog \in [Desks -> Question \cup {None}] /\ ops \in [Desks -> SUBSET Operation]
    /\ intent \in [Desks -> Nat] /\ sent \in 0 .. Submits

\* A request that is no mere load, and a slot that is taken, are complete.
Whole(os, slot) ==
    /\ \A op \in os : IF op.sig = None THEN op.at = "loading"
                      ELSE op.id \in Ids /\ op.intent \in Intents
    /\ \A k \in Kinds : slot[k].sig # None => slot[k].id \in Ids

\* Refunds are only asked for of purchases that are there: of one yet to come nothing
\* is refunded.
Sourced(D, offers, H) ==
    /\ \A src \in offers : src.of \in D
    /\ \A h \in H : h.sig.source \in D \cup {None}

\* Of a desk d, its n-th form in hand, slot the request remembered for that kind: all
\* who hold one form hold one id, which is claimed as soon as the form is booked; and
\* the form in hand, once held or booked, is the one the slot was made for.
Tied(H, m, c, d, n, slot, signed) ==
  /\ \A h \in H :
        /\ h.intent[1] = d /\ h.intent[2] <= n
        /\ \A g \in H : g.intent = h.intent => g.id = h.id
        /\ \A j \in DOMAIN m : m[j].intent # None /\ m[j].intent = h.intent => c[h.id] # None
        /\ h.intent[2] = n => slot.sig = signed /\ slot.id = h.id
  /\ \A j \in DOMAIN m : m[j].intent # None /\ m[j].intent[1] = d =>
        /\ m[j].intent[2] <= n
        /\ m[j].intent[2] = n => slot.sig = signed /\ slot.id \in Ids /\ c[slot.id] # None

DeskOK(d) ==
    /\ Whole(ops[d], memory[d].slot)
    /\ Sourced(DOMAIN moves, sources[d], Holders(d))
    /\ Tied(Holders(d), moves, claims, d, intent[d], Slotted(d), Signed(d))

IInv == LedgerOK /\ DesksTyped /\ \A d \in Desks : DeskOK(d)

-----------------------------------------------------------------------------
(* Deductions over a finite set. *)

\* Among sets of subsets of a finite set there is a smallest one: the
\* induction of this module.
LEMMA SmallestSet ==
  ASSUME NEW S, IsFiniteSet(S), NEW B \in SUBSET (SUBSET S), B # {}
  PROVE  \E T \in B : \A U \in B : U \subseteq T => U = T
<1>1. IsWellFoundedOn(StrictSubsetOrdering(S), SUBSET S)
  BY FS_StrictSubsetOrderingWellFounded, FS_FiniteSubsetsOfFinite
<1>2. PICK T \in B : \A U \in B : <<U, T>> \notin StrictSubsetOrdering(S)
  <2> HIDE DEF StrictSubsetOrdering
  <2> QED
    BY <1>1, WFMin
<1> QED
  BY <1>2 DEF StrictSubsetOrdering

Chosen(s) == CHOOSE x \in s : TRUE
Rest(s) == s \ {Chosen(s)}
\* g[s] is what is left of nothing when f is deducted for each element of s, a subset of S.
Deducts(g, f, S) == g = [s \in SUBSET S |-> IF s = {} THEN 0 ELSE g[Rest(s)] - f[Chosen(s)]]
Left(f, S) == (CHOOSE g : Deducts(g, f, S))[S]

\* What is chosen of a set is in it, and the rest is what remains.
LEMMA ChosenAndRest ==
  ASSUME NEW s, s # {}
  PROVE  Chosen(s) \in s /\ Rest(s) \subseteq s /\ Chosen(s) \notin Rest(s)
BY DEF Chosen, Rest

\* The recursive deduction over the subsets of a finite set is a function.
LEMMA DeductionsExist ==
  ASSUME NEW S, IsFiniteSet(S), NEW f
  PROVE  \E g : Deducts(g, f, S)
<1> DEFINE Small(n) == {s \in SUBSET S : Cardinality(s) <= n}
           OK(n) == \E g : g = [s \in Small(n) |-> IF s = {} THEN 0 ELSE g[Rest(s)] - f[Chosen(s)]]
           B == {T \in SUBSET S : ~OK(Cardinality(T))}
<1>1. \A T \in SUBSET S : IsFiniteSet(T) /\ Cardinality(T) \in Nat /\ Cardinality(T) <= Cardinality(S)
  BY FS_Subset, FS_CardinalityType
<1>2. B = {}
  <2> SUFFICES ASSUME B # {}
               PROVE  FALSE
    OBVIOUS
  <2>1. B \in SUBSET (SUBSET S)
    OBVIOUS
  <2> HIDE DEF OK
  <2>2. PICK T \in B : \A U \in B : U \subseteq T => U = T
    <3> HIDE DEF B
    <3> QED
      BY <2>1, SmallestSet
  <2>3. T \in SUBSET S /\ ~OK(Cardinality(T))
    OBVIOUS
  <2>4. CASE T = {}
    <3>1. Cardinality(T) = 0 /\ \A s \in Small(0) : s = {}
      BY <1>1, <2>4, FS_EmptySet
    <3>2. PICK g : g = [s \in Small(0) |-> 0]
      OBVIOUS
    <3>3. g = [s \in Small(0) |-> IF s = {} THEN 0 ELSE g[Rest(s)] - f[Chosen(s)]]
      BY <3>1, <3>2
    <3> QED
      BY <2>3, <3>1, <3>3 DEF OK
  <2>5. CASE T # {}
    <3>1. PICK x \in T : TRUE
      BY <2>5
    <3>2. PICK n \in Nat : n = Cardinality(T \ {x}) /\ n + 1 = Cardinality(T)
      <4>1. IsFiniteSet(T) /\ Cardinality(T) \in Nat
        BY <1>1, <2>3
      <4>2. Cardinality(T \ {x}) = Cardinality(T) - 1 /\ IsFiniteSet(T \ {x})
        BY <3>1, <4>1, FS_RemoveElement
      <4>3. Cardinality(T \ {x}) \in Nat
        BY <4>2, FS_CardinalityType
      <4> QED
        BY <4>1, <4>2, <4>3
    <3>3. OK(n)
      BY <2>2, <2>3, <3>1, <3>2
    <3>4. PICK g : g = [s \in Small(n) |-> IF s = {} THEN 0 ELSE g[Rest(s)] - f[Chosen(s)]]
      BY <3>3 DEF OK
    <3>5. \A s \in Small(n + 1) : s # {} => Rest(s) \in Small(n)
      <4>1. SUFFICES ASSUME NEW s \in Small(n + 1), s # {}
                     PROVE  Rest(s) \in Small(n)
        OBVIOUS
      <4>2. Chosen(s) \in s /\ Rest(s) = s \ {Chosen(s)}
        BY <4>1, ChosenAndRest DEF Rest
      <4>3. Cardinality(Rest(s)) = Cardinality(s) - 1
        BY <1>1, <4>1, <4>2, FS_RemoveElement
      <4> QED
        BY <1>1, <3>2, <4>1, <4>2, <4>3
    <3>6. PICK k : k = [s \in Small(n + 1) |-> IF s = {} THEN 0 ELSE g[Rest(s)] - f[Chosen(s)]]
      OBVIOUS
    <3>7. \A s \in Small(n) : s \in Small(n + 1)
      BY <1>1, <3>2
    <3> HIDE DEF Small
    <3>8. \A s \in Small(n) : k[s] = g[s]
      BY <3>4, <3>6, <3>7
    <3>9. k = [s \in Small(n + 1) |-> IF s = {} THEN 0 ELSE k[Rest(s)] - f[Chosen(s)]]
      BY <3>5, <3>6, <3>8
    <3> QED
      BY <2>3, <3>2, <3>9 DEF OK
  <2> QED
    BY <2>4, <2>5
<1>3. OK(Cardinality(S))
  BY <1>2
<1>4. Small(Cardinality(S)) = SUBSET S
  BY <1>1
<1> QED
  BY <1>3, <1>4 DEF Deducts

\* Functions that agree leave the same.
LEMMA DeductionsAgree ==
  ASSUME NEW S, IsFiniteSet(S), NEW T, NEW U, U \subseteq S, U \subseteq T,
         NEW f, NEW h, \A x \in U : f[x] = h[x],
         NEW g, NEW k, Deducts(g, f, S), Deducts(k, h, T)
  PROVE  g[U] = k[U]
<1> DEFINE B == {V \in SUBSET U : g[V] # k[V]}
<1>1. SUFFICES ASSUME B # {}
               PROVE  FALSE
  OBVIOUS
<1>2. IsFiniteSet(U) /\ B \in SUBSET (SUBSET U)
  BY FS_Subset
<1>3. PICK V \in B : \A W \in B : W \subseteq V => W = V
  <2> HIDE DEF B
  <2> QED
    BY <1>1, <1>2, SmallestSet
<1>4. V \in SUBSET S /\ V \in SUBSET T /\ V \subseteq U
  BY <1>2
<1>5. g[V] = IF V = {} THEN 0 ELSE g[Rest(V)] - f[Chosen(V)]
  BY <1>4 DEF Deducts
<1>6. k[V] = IF V = {} THEN 0 ELSE k[Rest(V)] - h[Chosen(V)]
  BY <1>4 DEF Deducts
<1>7. CASE V = {}
  BY <1>5, <1>6, <1>7
<1>8. CASE V # {}
  <2>1. Chosen(V) \in U /\ Rest(V) \subseteq V /\ Rest(V) # V
    BY <1>4, <1>8, ChosenAndRest
  <2>2. g[Rest(V)] = k[Rest(V)]
    BY <1>3, <1>4, <2>1
  <2> QED
    BY <1>5, <1>6, <1>8, <2>1, <2>2
<1> QED
  BY <1>7, <1>8

\* There is one such function, and Left is it.
LEMMA DeductionIsUnique ==
  ASSUME NEW S, IsFiniteSet(S), NEW f, NEW g, Deducts(g, f, S), NEW T, T \subseteq S
  PROVE  g[T] = Left(f, T)
<1>1. IsFiniteSet(T)
  BY FS_Subset
<1>2. PICK k : k = CHOOSE h : Deducts(h, f, T)
  OBVIOUS
<1>3. Deducts(k, f, T)
  BY <1>1, <1>2, DeductionsExist
<1>4. g[T] = k[T]
  BY <1>3, DeductionsAgree
<1> QED
  BY <1>2, <1>4 DEF Left

\* It depends on f over S only.
LEMMA LeftSame ==
  ASSUME NEW S, IsFiniteSet(S), NEW f, NEW h, \A x \in S : f[x] = h[x]
  PROVE  Left(f, S) = Left(h, S)
<1>1. PICK g, k : Deducts(g, f, S) /\ Deducts(k, h, S)
  BY DeductionsExist
<1>2. g[S] = k[S]
  BY <1>1, DeductionsAgree
<1>3. g[S] = Left(f, S) /\ k[S] = Left(h, S)
  BY <1>1, DeductionIsUnique
<1> QED
  BY <1>2, <1>3

\* Without anything to deduct, nothing is deducted.
LEMMA LeftNothing == ASSUME NEW f PROVE Left(f, {}) = 0
<1>1. PICK g : Deducts(g, f, {})
  BY DeductionsExist, FS_EmptySet
<1>2. g[{}] = 0
  BY <1>1 DEF Deducts
<1> QED
  BY <1>1, <1>2, DeductionIsUnique, FS_EmptySet

\* The chosen element is deducted last.
LEMMA LeftChosen ==
  ASSUME NEW S, IsFiniteSet(S), S # {}, NEW f
  PROVE  Left(f, S) = Left(f, Rest(S)) - f[Chosen(S)]
<1>1. PICK g : Deducts(g, f, S)
  BY DeductionsExist
<1>2. g[S] = g[Rest(S)] - f[Chosen(S)]
  BY <1>1 DEF Deducts
<1>3. Rest(S) \subseteq S
  BY ChosenAndRest
<1> QED
  BY <1>1, <1>2, <1>3, DeductionIsUnique

\* Of integers an integer is left.
LEMMA LeftIsInt ==
  ASSUME NEW S, IsFiniteSet(S), NEW f, \A x \in S : f[x] \in Int
  PROVE  Left(f, S) \in Int
<1> DEFINE B == {V \in SUBSET S : Left(f, V) \notin Int}
<1>1. SUFFICES ASSUME B # {}
               PROVE  FALSE
  OBVIOUS
<1>2. B \in SUBSET (SUBSET S)
  OBVIOUS
<1>3. PICK V \in B : \A W \in B : W \subseteq V => W = V
  <2> HIDE DEF B
  <2> QED
    BY <1>1, <1>2, SmallestSet
<1>4. IsFiniteSet(V)
  BY FS_Subset
<1>5. V # {}
  BY LeftNothing
<1>6. Chosen(V) \in S /\ Rest(V) \subseteq V /\ Rest(V) # V
  BY <1>5, ChosenAndRest
<1>7. Left(f, Rest(V)) \in Int
  BY <1>3, <1>6
<1>8. Left(f, V) \in Int
  BY <1>4, <1>5, <1>6, <1>7, LeftChosen
<1> QED
  BY <1>8

\* Any element can be deducted last.
LEMMA LeftTakeOut ==
  ASSUME NEW S, IsFiniteSet(S), NEW f, \A y \in S : f[y] \in Int, NEW x \in S
  PROVE  Left(f, S) = Left(f, S \ {x}) - f[x]
<1> DEFINE B == {V \in SUBSET S : \E v \in V : Left(f, V) # Left(f, V \ {v}) - f[v]}
<1>1. SUFFICES ASSUME B # {}
               PROVE  FALSE
  BY DEF B
<1>2. B \in SUBSET (SUBSET S)
  OBVIOUS
<1>3. PICK V \in B : \A W \in B : W \subseteq V => W = V
  <2> HIDE DEF B
  <2> QED
    BY <1>1, <1>2, SmallestSet
<1>4. PICK v \in V : Left(f, V) # Left(f, V \ {v}) - f[v]
  OBVIOUS
<1>5. V \subseteq S /\ IsFiniteSet(V) /\ IsFiniteSet(V \ {v})
  BY FS_Subset
<1>6. PICK y : y = Chosen(V)
  OBVIOUS
<1>7. y \in V /\ Rest(V) = V \ {y} /\ Left(f, V) = Left(f, V \ {y}) - f[y]
  BY <1>4, <1>5, <1>6, ChosenAndRest, LeftChosen DEF Rest
<1>8. y # v
  BY <1>4, <1>7
<1>9. \A W : W \subseteq V /\ W # V => \A w \in W : Left(f, W) = Left(f, W \ {w}) - f[w]
  BY <1>3, <1>5
<1>10. Left(f, V \ {y}) = Left(f, (V \ {y}) \ {v}) - f[v]
  <2>1. V \ {y} \subseteq V /\ V \ {y} # V /\ v \in V \ {y}
    BY <1>7, <1>8
  <2> QED
    BY <1>9, <2>1
<1>11. Left(f, V \ {v}) = Left(f, (V \ {v}) \ {y}) - f[y]
  <2>1. V \ {v} \subseteq V /\ V \ {v} # V /\ y \in V \ {v}
    BY <1>7, <1>8
  <2> QED
    BY <1>9, <2>1
<1>12. PICK n \in Int, a \in Int, b \in Int : n = Left(f, (V \ {y}) \ {v}) /\ a = f[v] /\ b = f[y]
  <2>1. IsFiniteSet((V \ {y}) \ {v}) /\ \A z \in (V \ {y}) \ {v} : f[z] \in Int
    BY <1>5, FS_Subset
  <2>2. Left(f, (V \ {y}) \ {v}) \in Int
    BY <2>1, LeftIsInt
  <2> QED
    BY <1>5, <1>7, <2>2
<1>13. (V \ {v}) \ {y} = (V \ {y}) \ {v}
  OBVIOUS
<1>14. Left(f, V) = (n - a) - b /\ Left(f, V \ {v}) - f[v] = (n - b) - a
  BY <1>7, <1>10, <1>11, <1>12, <1>13
<1> QED
  BY <1>4, <1>12, <1>14


-----------------------------------------------------------------------------
(* What was refunded of a purchase. *)

Credits == [j \in DOMAIN moves |-> moves[j].credits]

\* The fold of the model is the deduction over the refunds of a purchase.
LEMMA RefundedIsLeft == \A i : IsFiniteSet(DOMAIN moves) => Refunded(i) = Left(Credits, RefundsOf(i))
<1> SUFFICES ASSUME NEW i, IsFiniteSet(DOMAIN moves)
             PROVE  Refunded(i) = Left(Credits, RefundsOf(i))
  OBVIOUS
<1> DEFINE S == RefundsOf(i)
           h == CHOOSE h : h = [s \in SUBSET S |->
                  IF s = {} THEN 0 ELSE h[s \ {Chosen(s)}] - moves[Chosen(s)].credits]
<1>1. Refunded(i) = h[S]
  BY DEF Refunded, FoldSet, MapThenFoldSet, Chosen
<1>2. S \subseteq DOMAIN moves
  BY DEF RefundsOf
<1> HIDE DEF S
<1>3. IsFiniteSet(S)
  BY <1>2, FS_Subset
<1>4. \A s \in SUBSET S : s # {} => Credits[Chosen(s)] = moves[Chosen(s)].credits
  BY <1>2, ChosenAndRest DEF Credits
<1>5. PICK g : Deducts(g, Credits, S)
  BY <1>3, DeductionsExist
<1>6. g = [s \in SUBSET S |-> IF s = {} THEN 0 ELSE g[s \ {Chosen(s)}] - moves[Chosen(s)].credits]
  BY <1>4, <1>5 DEF Deducts, Rest
<1>7. h = [s \in SUBSET S |-> IF s = {} THEN 0 ELSE h[s \ {Chosen(s)}] - moves[Chosen(s)].credits]
  BY <1>6
<1> HIDE DEF h
<1>8. Deducts(h, Credits, S)
  BY <1>4, <1>7 DEF Deducts, Rest
<1>9. h[S] = Left(Credits, S)
  BY <1>3, <1>8, DeductionIsUnique
<1> QED
  BY <1>1, <1>9 DEF S

\* And so it is after a step.
LEMMA RefundedIsLeftThen == (\A i : IsFiniteSet(DOMAIN moves) => Refunded(i) = Left(Credits, RefundsOf(i)))'
BY RefundedIsLeft, PTL

\* With one movement more, what was refunded grows by it for its own purchase only.
LEMMA RefundedGrows ==
  ASSUME moves \in Seq(Entry), NEW new \in Entry, moves' = Append(moves, new), NEW i
  PROVE  /\ Refunded(i) \in Int /\ Refunded(i)' \in Int
         /\ new.source = i => Refunded(i)' = Refunded(i) - new.credits
         /\ new.source # i => Refunded(i)' = Refunded(i)
<1>1. PICK n \in Nat : n = Len(moves)
  OBVIOUS
<1>2. /\ DOMAIN moves = 1 .. n /\ DOMAIN moves' = 1 .. (n + 1) /\ moves'[n + 1] = new
      /\ n + 1 \notin DOMAIN moves /\ DOMAIN moves \subseteq DOMAIN moves'
      /\ DOMAIN moves' = DOMAIN moves \cup {n + 1}
      /\ \A j \in DOMAIN moves : moves'[j] = moves[j] /\ moves[j] \in Entry
  BY <1>1
<1>3. IsFiniteSet(DOMAIN moves) /\ IsFiniteSet(DOMAIN moves')
  BY <1>2, FS_Interval
<1> DEFINE S == RefundsOf(i)
           T == RefundsOf(i)'
<1>4. /\ S \subseteq DOMAIN moves /\ T \subseteq DOMAIN moves' /\ n + 1 \notin S
      /\ T = IF new.source = i THEN S \cup {n + 1} ELSE S
  BY <1>2 DEF RefundsOf
<1>5. Refunded(i) = Left(Credits, S) /\ Refunded(i)' = Left(Credits', T)
  BY <1>3, RefundedIsLeft, RefundedIsLeftThen
<1> HIDE DEF S, T
<1>6. IsFiniteSet(S) /\ IsFiniteSet(T)
  BY <1>3, <1>4, FS_Subset
<1>7. PICK c, e : c = Credits /\ e = Credits'
  OBVIOUS
<1>8. /\ \A j \in S : c[j] = e[j] /\ c[j] \in Int /\ e[j] \in Int
      /\ e[n + 1] = new.credits /\ new.credits \in Int
  BY <1>2, <1>4, <1>7 DEF Credits, Entry
<1>9. Left(c, S) = Left(e, S) /\ Left(c, S) \in Int
  BY <1>6, <1>8, LeftSame, LeftIsInt
<1>10. CASE new.source = i
  <2>1. n + 1 \in T /\ T \ {n + 1} = S /\ \A j \in T : e[j] \in Int
    BY <1>4, <1>8, <1>10
  <2>2. Left(e, T) = Left(e, T \ {n + 1}) - e[n + 1]
    BY <1>6, <2>1, LeftTakeOut
  <2>3. PICK r \in Int, x \in Int : r = Left(c, S) /\ x = new.credits
    BY <1>8, <1>9
  <2>4. Refunded(i) = r /\ Refunded(i)' = r - x
    BY <1>5, <1>7, <1>8, <1>9, <2>1, <2>2, <2>3
  <2> QED
    BY <1>10, <2>3, <2>4
<1>11. CASE new.source # i
  BY <1>4, <1>5, <1>7, <1>9, <1>11
<1> QED
  BY <1>10, <1>11

-----------------------------------------------------------------------------
(* What a step of one desk keeps. *)

\* Of desk e: the form and what was remembered for it, and all that holds a form.
SameForm(e) ==
    form'[e] = form[e] /\ picker'[e] = picker[e] /\ intent'[e] = intent[e] /\ memory'[e].slot = memory[e].slot
NewForm(e) == intent'[e] = intent[e] + 1
SameDesk(e) == SameForm(e) /\ sources'[e] = sources[e] /\ dialog'[e] = dialog[e] /\ ops'[e] = ops[e]

\* Movements and claims stay, and what is added is booked for one who holds its form.
Grows(H, m, c, m2, c2) ==
    /\ \A j \in DOMAIN m : j \in DOMAIN m2 /\ m2[j] = m[j]
    /\ \A i \in Ids : c[i] # None => c2[i] # None
    /\ \A j \in DOMAIN m2 : j \in DOMAIN m \/ \E h \in H : m2[j].intent = h.intent /\ c2[h.id] # None

\* Whoever holds a form held it before.
Carried(H, H2) == \A h \in H2 : \E g \in H : h.id = g.id /\ h.intent = g.intent /\ h.sig = g.sig

\* The desk that takes a step: what it books is held by one who held it, and the form in hand
\* is either the one it was or a new one, which nobody holds yet.
LEMMA TiedKept ==
  ASSUME NEW H, NEW m, NEW c, NEW d, NEW n \in Nat, NEW slot, NEW signed,
         NEW H2, NEW m2, NEW c2, NEW n2 \in Nat, NEW slot2, NEW signed2,
         Tied(H, m, c, d, n, slot, signed), Grows(H, m, c, m2, c2), Carried(H, H2),
         \A h \in H : h.id \in Ids /\ h.intent \in Intents,
         \A j \in DOMAIN m : m[j].intent \in Intents \cup {None},
         n2 = n + 1 \/ (n2 = n /\ slot2 = slot /\ signed2 = signed)
  PROVE  Tied(H2, m2, c2, d, n2, slot2, signed2)
<1>1. ASSUME NEW h \in H
      PROVE  /\ h.intent[1] = d /\ h.intent[2] <= n /\ h.intent[2] \in Nat /\ h.id \in Ids
             /\ \A g \in H : g.intent = h.intent => g.id = h.id
             /\ \A j \in DOMAIN m2 : m2[j].intent # None /\ m2[j].intent = h.intent => c2[h.id] # None
             /\ h.intent[2] = n2 => slot2.sig = signed2 /\ slot2.id = h.id
  <2>1. h.intent[1] = d /\ h.intent[2] <= n /\ h.intent[2] \in Nat /\ h.id \in Ids
    BY DEF Tied, Intents
  <2>2. \A g \in H : g.intent = h.intent => g.id = h.id
    BY DEF Tied
  <2>3. ASSUME NEW j \in DOMAIN m2, m2[j].intent # None, m2[j].intent = h.intent
        PROVE  c2[h.id] # None
    <3>1. CASE j \in DOMAIN m
      BY <2>1, <2>3, <3>1 DEF Tied, Grows
    <3>2. CASE j \notin DOMAIN m
      <4>1. PICK g \in H : m2[j].intent = g.intent /\ c2[g.id] # None
        BY <3>2 DEF Grows
      <4> QED
        BY <2>2, <2>3, <4>1
    <3> QED
      BY <3>1, <3>2
  <2>4. ASSUME h.intent[2] = n2
        PROVE  slot2.sig = signed2 /\ slot2.id = h.id
    <3>1. n2 = n /\ slot2 = slot /\ signed2 = signed
      BY <2>1, <2>4
    <3> QED
      BY <2>4, <3>1 DEF Tied
  <2> QED
    BY <2>1, <2>2, <2>3, <2>4
<1>2. ASSUME NEW j \in DOMAIN m2, m2[j].intent # None, m2[j].intent[1] = d
      PROVE  /\ m2[j].intent[2] <= n2
             /\ m2[j].intent[2] = n2 => slot2.sig = signed2 /\ slot2.id \in Ids /\ c2[slot2.id] # None
  <2>1. CASE j \in DOMAIN m
    <3>1. m2[j] = m[j]
      BY <2>1 DEF Grows
    <3>2. /\ m[j].intent[2] <= n /\ m[j].intent[2] \in Nat
          /\ m[j].intent[2] = n => slot.sig = signed /\ slot.id \in Ids /\ c[slot.id] # None
      BY <1>2, <2>1, <3>1 DEF Tied, Intents
    <3>3. m[j].intent[2] = n2 => n2 = n /\ slot2 = slot /\ signed2 = signed
      BY <3>2
    <3>4. slot.id \in Ids /\ c[slot.id] # None => c2[slot.id] # None
      BY DEF Grows
    <3> QED
      BY <3>1, <3>2, <3>3, <3>4
  <2>2. CASE j \notin DOMAIN m
    <3>1. PICK h \in H : m2[j].intent = h.intent /\ c2[h.id] # None
      BY <2>2 DEF Grows
    <3> QED
      BY <1>1, <3>1
  <2> QED
    BY <2>1, <2>2
<1>3. ASSUME NEW h \in H2
      PROVE  /\ h.intent[1] = d /\ h.intent[2] <= n2
             /\ \A g \in H2 : g.intent = h.intent => g.id = h.id
             /\ \A j \in DOMAIN m2 : m2[j].intent # None /\ m2[j].intent = h.intent => c2[h.id] # None
             /\ h.intent[2] = n2 => slot2.sig = signed2 /\ slot2.id = h.id
  <2>1. PICK k \in H : h.id = k.id /\ h.intent = k.intent
    BY DEF Carried
  <2>2. ASSUME NEW g \in H2, g.intent = h.intent
        PROVE  g.id = h.id
    <3>1. PICK l \in H : g.id = l.id /\ g.intent = l.intent
      BY DEF Carried
    <3> QED
      BY <1>1, <2>1, <2>2, <3>1
  <2>3. h.intent[2] <= n2
    BY <1>1, <2>1
  <2> QED
    BY <1>1, <2>1, <2>2, <2>3
<1> QED
  BY <1>2, <1>3 DEF Tied

\* The same seen from another desk: what d books are d's forms.
LEMMA TiedElsewhere ==
  ASSUME NEW H, NEW m, NEW c, NEW e, NEW n, NEW slot, NEW signed, NEW m2, NEW c2, NEW K, NEW d, d # e,
         Tied(H, m, c, e, n, slot, signed), Grows(K, m, c, m2, c2),
         \A h \in K : h.intent[1] = d, \A h \in H : h.id \in Ids
  PROVE  Tied(H, m2, c2, e, n, slot, signed)
<1>1. \A j \in DOMAIN m2 : (j \in DOMAIN m /\ m2[j] = m[j]) \/ m2[j].intent[1] = d
  BY DEF Grows
<1>2. \A i \in Ids : c[i] # None => c2[i] # None
  BY DEF Grows
<1>3. ASSUME NEW h \in H
      PROVE  /\ h.intent[1] = e /\ h.intent[2] <= n
             /\ \A g \in H : g.intent = h.intent => g.id = h.id
             /\ \A j \in DOMAIN m2 : m2[j].intent # None /\ m2[j].intent = h.intent => c2[h.id] # None
             /\ h.intent[2] = n => slot.sig = signed /\ slot.id = h.id
  BY <1>1, <1>2 DEF Tied
<1>4. ASSUME NEW j \in DOMAIN m2, m2[j].intent # None, m2[j].intent[1] = e
      PROVE  /\ m2[j].intent[2] <= n
             /\ m2[j].intent[2] = n => slot.sig = signed /\ slot.id \in Ids /\ c2[slot.id] # None
  BY <1>1, <1>2, <1>4 DEF Tied
<1> QED
  BY <1>3, <1>4 DEF Tied

\* A form that stays as it is signs as it did and has the slot it had.
LEMMA SignedSame == ASSUME NEW d, SameForm(d) PROVE Signed(d)' = Signed(d) /\ Slotted(d)' = Slotted(d)
BY DEF SameForm, Signed, Topping, Slotted

\* What is known of those who hold a form.
LEMMA HoldersTyped ==
  ASSUME DesksTyped, NEW d \in Desks, DeskOK(d), NEW h \in Holders(d)
  PROVE  h.sig \in Signature /\ h.id \in Ids /\ h.intent \in Intents /\ h.intent[1] = d
<1>1. CASE dialog[d] # None /\ h = dialog[d]
  BY <1>1 DEF DesksTyped, Question, DeskOK, Tied
<1>2. CASE h \in ops[d] /\ h.sig # None
  <2>1. h \in Operation
    BY <1>2 DEF DesksTyped
  <2> QED
    BY <1>2, <2>1 DEF Operation, DeskOK, Whole, Tied
<1> QED
  BY <1>1, <1>2 DEF Holders, HoldersOf

\* A step of desk d that gives no form to anybody who did not have it.
Steps(d) ==
    /\ \A e \in Desks \ {d} : SameDesk(e)
    /\ Grows(Holders(d), moves, claims, moves', claims')
    /\ Carried(Holders(d), Holders(d)')
    /\ \A src \in sources'[d] : src.of \in DOMAIN moves'
    /\ Whole(ops'[d], memory'[d].slot)
    /\ SameForm(d) \/ NewForm(d)

\* A step of desk d that gives no form to anybody who did not have it.
LEMMA DeskStep ==
  ASSUME IInv, NEW d \in Desks, Steps(d), LedgerOK', DesksTyped'
  PROVE  IInv'
<1>1. DesksTyped /\ DeskOK(d) /\ intent[d] \in Nat /\ intent'[d] \in Nat
  BY DEF IInv, DesksTyped
<1>2. \A j \in DOMAIN moves : moves[j].intent \in Intents \cup {None}
  <2>1. \A j \in DOMAIN moves : moves[j] \in Entry
    BY DEF IInv, LedgerOK, LedgerTyped
  <2> QED
    BY <2>1 DEF Entry
<1>3. \A h \in Holders(d) : h.id \in Ids /\ h.intent \in Intents /\ h.intent[1] = d
  BY <1>1, HoldersTyped
<1>4. \A j \in DOMAIN moves : j \in DOMAIN moves'
  BY DEF Steps, Grows
<1>5. DeskOK(d)'
  <2>1. Sourced(DOMAIN moves', sources'[d], Holders(d)')
    <3>1. \A h \in Holders(d) : h.sig.source \in DOMAIN moves \cup {None}
      BY <1>1 DEF DeskOK, Sourced
    <3> QED
      BY <1>4, <3>1 DEF Sourced, Steps, Carried
  <2>2. \/ intent'[d] = intent[d] + 1
        \/ intent'[d] = intent[d] /\ Slotted(d)' = Slotted(d) /\ Signed(d)' = Signed(d)
    BY SignedSame DEF Steps, SameForm, NewForm
  <2>3. Tied(Holders(d)', moves', claims', d, intent'[d], Slotted(d)', Signed(d)')
    <3>1. Tied(Holders(d), moves, claims, d, intent[d], Slotted(d), Signed(d))
      BY <1>1 DEF DeskOK
    <3>2. Grows(Holders(d), moves, claims, moves', claims') /\ Carried(Holders(d), Holders(d)')
      BY DEF Steps
    <3> QED
      BY <1>1, <1>2, <1>3, <2>2, <3>1, <3>2, TiedKept
  <2> QED
    BY <2>1, <2>3 DEF DeskOK, Steps
<1>6. ASSUME NEW e \in Desks, e # d
      PROVE  DeskOK(e)'
  <2>1. SameDesk(e) /\ DeskOK(e) /\ DesksTyped
    BY <1>6 DEF Steps, IInv
  <2>2. Holders(e)' = Holders(e) /\ Slotted(e)' = Slotted(e) /\ Signed(e)' = Signed(e)
    BY <2>1, SignedSame DEF SameDesk, Holders
  <2>3. Whole(ops'[e], memory'[e].slot) /\ intent'[e] = intent[e]
    BY <2>1 DEF SameDesk, SameForm, DeskOK
  <2>4. Sourced(DOMAIN moves', sources'[e], Holders(e)')
    BY <1>4, <2>1, <2>2 DEF SameDesk, DeskOK, Sourced
  <2>5. \A h \in Holders(e) : h.id \in Ids
    BY <2>1, HoldersTyped
  <2>6. Tied(Holders(e), moves', claims', e, intent[e], Slotted(e), Signed(e))
    <3>1. Tied(Holders(e), moves, claims, e, intent[e], Slotted(e), Signed(e))
      BY <2>1 DEF DeskOK
    <3>2. Grows(Holders(d), moves, claims, moves', claims')
      BY DEF Steps
    <3>3. PICK H, K, m, c, m2, c2, slot, signed :
             /\ H = Holders(e) /\ K = Holders(d) /\ m = moves /\ c = claims /\ m2 = moves' /\ c2 = claims'
             /\ slot = Slotted(e) /\ signed = Signed(e)
      OBVIOUS
    <3>4. /\ Tied(H, m, c, e, intent[e], slot, signed) /\ Grows(K, m, c, m2, c2) /\ d # e
          /\ (\A h \in K : h.intent[1] = d) /\ (\A h \in H : h.id \in Ids)
      BY <1>3, <1>6, <2>5, <3>1, <3>2, <3>3
    <3>5. Tied(H, m2, c2, e, intent[e], slot, signed)
      BY <3>4, TiedElsewhere
    <3> QED
      BY <3>3, <3>5
  <2> QED
    BY <2>2, <2>3, <2>4, <2>6 DEF DeskOK
<1> QED
  BY <1>5, <1>6 DEF IInv

-----------------------------------------------------------------------------
(* The server, and the form. *)

\* The movements are finitely many, each of its shape.
LEMMA MovesAreListed ==
  ASSUME LedgerTyped
  PROVE  /\ Len(moves) \in Nat /\ DOMAIN moves = 1 .. Len(moves) /\ IsFiniteSet(DOMAIN moves)
         /\ \A j \in DOMAIN moves : moves[j] \in Entry
<1>1. moves \in Seq(Entry)
  BY DEF LedgerTyped
<1>2. Len(moves) \in Nat /\ DOMAIN moves = 1 .. Len(moves)
  BY <1>1
<1> QED
  BY <1>1, <1>2, FS_Interval

\* The indices are 1 up to their number, and there are more than students.
LEMMA IndicesAreListed ==
  /\ Cardinality(Indices) \in Nat /\ Indices = 1 .. Cardinality(Indices)
  /\ Cardinality(Students) \in Nat /\ Cardinality(Students) <= Cardinality(Indices)
<1>1. Cardinality(Students) \in Nat /\ MaxMoves \in Nat
  BY CreditAssumption, FS_CardinalityType
<1>2. Cardinality(Indices) = MaxMoves + Cardinality(Students)
  BY <1>1, FS_Interval DEF Indices
<1> QED
  BY <1>1, <1>2 DEF Indices

\* Every movement has an index.
LEMMA MovesHaveIndices == LedgerTyped => DOMAIN moves \subseteq Indices
BY MovesAreListed, IndicesAreListed DEF LedgerTyped

\* While nothing is booked, the ledger keeps what it promises.
LEMMA LedgerStays ==
  ASSUME LedgerOK, UNCHANGED moves, LedgerTyped'
  PROVE  LedgerOK'
<1>1. OneFormOneMove' /\ \A j \in DOMAIN moves' : moves'[j].source \in DOMAIN moves' \cup {None}
  BY DEF LedgerOK, OneFormOneMove
<1>2. \A i : RefundsOf(i)' = RefundsOf(i) /\ Credits' = Credits
  BY DEF RefundsOf, Credits
<1>3. \A i : Refunded(i)' = Refunded(i)
  BY <1>2, MovesAreListed, RefundedIsLeft, RefundedIsLeftThen DEF LedgerOK
<1>4. RefundsWithinPurchase'
  BY <1>2, <1>3 DEF LedgerOK, RefundsWithinPurchase
<1> QED
  BY <1>1, <1>4 DEF LedgerOK

\* Desk d shows form f and picker p, awaits l, lists s and has resolved account a.
Paints(d, f, p, l, s, a, n) ==
    /\ UNCHANGED <<server, busy, dialog, ops, sent>>
    /\ f \in Form /\ form' = [form EXCEPT ![d] = f]
    /\ p \in Choice /\ picker' = [picker EXCEPT ![d] = p]
    /\ l \in SUBSET Lookup /\ lookups' = [lookups EXCEPT ![d] = l]
    /\ s \in SUBSET Offer /\ sources' = [sources EXCEPT ![d] = s]
    /\ a \in Accounts \cup {None} /\ memory' = [memory EXCEPT ![d].account = a]
    /\ n \in Nat /\ intent' = [intent EXCEPT ![d] = n]
    /\ \A src \in s : src.of \in DOMAIN moves
    /\ n = intent[d] + 1 \/ (n = intent[d] /\ f = form[d] /\ p = picker[d])

\* What a desk paints that hands it a new form, or changes nothing of it, keeps the invariant.
LEMMA PaintKeeps ==
  ASSUME IInv, NEW d \in Desks, NEW f, NEW p, NEW l, NEW s, NEW a, NEW n, Paints(d, f, p, l, s, a, n)
  PROVE  IInv'
<1> USE DEF Paints
<1>1. DesksTyped /\ DeskOK(d) /\ LedgerOK
  BY DEF IInv
<1>2. LedgerOK'
  BY <1>1, LedgerStays DEF server, LedgerOK, LedgerTyped
<1>3. /\ memory' \in [Desks -> Memory]
      /\ \A e \in Desks : memory'[e].slot = memory[e].slot
  BY <1>1 DEF DesksTyped, Memory
<1>4. DesksTyped'
  BY <1>1, <1>3 DEF DesksTyped
<1>5. \A e \in Desks \ {d} : SameDesk(e)
  BY <1>1, <1>3 DEF DesksTyped, SameDesk, SameForm
<1>6. Grows(Holders(d), moves, claims, moves', claims') /\ Carried(Holders(d), Holders(d)')
  BY DEF Grows, Carried, Holders, server
<1>7. SameForm(d) \/ NewForm(d)
  BY <1>1, <1>3 DEF DesksTyped, SameForm, NewForm
<1>8. \A src \in sources'[d] : src.of \in DOMAIN moves'
  BY <1>1 DEF DesksTyped, server
<1>9. Whole(ops'[d], memory'[d].slot)
  BY <1>1, <1>3 DEF DeskOK
<1> QED
  BY <1>2, <1>4, <1>5, <1>6, <1>7, <1>8, <1>9, DeskStep DEF Steps

\* What is kept of one desk has the shape its type says.
LEMMA DeskTyped ==
  ASSUME DesksTyped, NEW d \in Desks
  PROVE  /\ form[d] \in Form /\ form = [form EXCEPT ![d] = form[d]]
         /\ picker[d] \in Choice /\ picker = [picker EXCEPT ![d] = picker[d]]
         /\ lookups[d] \in SUBSET Lookup /\ lookups = [lookups EXCEPT ![d] = lookups[d]]
         /\ sources[d] \in SUBSET Offer /\ sources = [sources EXCEPT ![d] = sources[d]]
         /\ memory[d].account \in Accounts \cup {None}
         /\ memory = [memory EXCEPT ![d].account = memory[d].account]
         /\ intent[d] \in Nat /\ intent = [intent EXCEPT ![d] = intent[d]]
<1>1. memory[d] \in Memory /\ memory = [memory EXCEPT ![d] = memory[d]]
  BY DEF DesksTyped
<1>2. memory[d].account \in Accounts \cup {None} /\ memory[d] = [memory[d] EXCEPT !.account = memory[d].account]
  BY <1>1 DEF Memory
<1> QED
  BY <1>1, <1>2 DEF DesksTyped

\* What a picker says, and what a lookup was asked with.
Payers == Accounts \cup {New, None}
\* A picker reports a payer that it lists, or the one chosen before.
LEMMA ReportedTyped == ASSUME NEW known \in SUBSET Accounts, NEW chosen \in Payers
                       PROVE  Reported(known, chosen) \in Payers
<1>1. Cardinality(known) = 1 => known # {}
  BY FS_EmptySet
<1> QED
  BY <1>1 DEF Reported, Payers

\* A lookup that is no longer wanted is a lookup.
LEMMA WantedTyped == ASSUME NEW l \in Lookup, NEW w \in BOOLEAN PROVE [l EXCEPT !.wanted = w] \in Lookup
BY DEF Lookup

\* Asking anew leaves the old lookups and adds one.
LEMMA AskTyped ==
  ASSUME NEW d, lookups[d] \in SUBSET Lookup, NEW about \in {"payers", "sources"},
         NEW s \in Students \cup {None}, NEW chosen \in Payers \cup Indices
  PROVE  Ask(d, about, s, chosen) \in SUBSET Lookup
<1>1. \A l \in lookups[d] : [l EXCEPT !.wanted = l.wanted /\ l.about # about] \in Lookup
  <2> SUFFICES ASSUME NEW l \in lookups[d]
               PROVE  [l EXCEPT !.wanted = l.wanted /\ l.about # about] \in Lookup
    OBVIOUS
  <2>1. (l.wanted /\ l.about # about) \in BOOLEAN
    OBVIOUS
  <2> QED
    BY <2>1, WantedTyped
<1>2. s # None => [about |-> about, student |-> s, chosen |-> chosen, wanted |-> TRUE] \in Lookup
  BY DEF Lookup, Payers
<1> QED
  BY <1>1, <1>2 DEF Ask

\* What is listed of a student's purchases are purchases.
LEMMA RefundableTyped ==
  ASSUME LedgerTyped, NEW s
  PROVE  Refundable(s) \in SUBSET Offer /\ \A src \in Refundable(s) : src.of \in DOMAIN moves
<1>1. \A i \in DOMAIN moves : i \in Indices /\ moves[i].credits \in Int
  BY MovesAreListed, MovesHaveIndices DEF Entry
<1>2. \A i \in DOMAIN moves : Refunded(i) \in Int
  <2> SUFFICES ASSUME NEW i \in DOMAIN moves
               PROVE  Refunded(i) \in Int
    OBVIOUS
  <2>1. RefundsOf(i) \subseteq DOMAIN moves /\ IsFiniteSet(RefundsOf(i))
    BY MovesAreListed, FS_Subset DEF RefundsOf
  <2>2. PICK c, S : c = Credits /\ S = RefundsOf(i)
    OBVIOUS
  <2>3. IsFiniteSet(S) /\ \A j \in S : c[j] \in Int
    BY <1>1, <2>1, <2>2 DEF Credits
  <2>4. Left(c, S) \in Int
    BY <2>3, LeftIsInt
  <2> QED
    BY <2>2, <2>4, MovesAreListed, RefundedIsLeft
<1> QED
  BY <1>1, <1>2 DEF Refundable, PurchasesOf, Offer

-----------------------------------------------------------------------------

\* Another student: the form is a new one.
LEMMA ChooseStudentKeeps ==
  ASSUME IInv, NEW d \in Desks, NEW s \in Students, ChooseStudent(d, s)
  PROVE  IInv'
<1>1. DesksTyped /\ LedgerTyped /\ DeskOK(d)
  BY DEF IInv, LedgerOK
<1>2. PICK f : f = [form[d] EXCEPT !.student = s]
  OBVIOUS
<1>3. f \in Form
  BY <1>1, <1>2, DeskTyped DEF Form
<1>4. PICK a : a = IF PickerShown(d) THEN Reported(picker[d].known, None) ELSE None
  OBVIOUS
<1>5. a \in Payers
  BY <1>1, <1>4, DeskTyped, ReportedTyped DEF Choice, Payers
<1>6. PICK p : p = [picker[d] EXCEPT !.payer = a]
  OBVIOUS
<1>7. p \in Choice
  BY <1>1, <1>5, <1>6, DeskTyped DEF Choice, Payers
<1>8. PICK l : l = IF ~Topping(d) THEN Ask(d, "sources", s, form[d].source)
                   ELSE IF PickerShown(d) THEN Ask(d, "payers", s, None) ELSE lookups[d]
  OBVIOUS
<1>9. l \in SUBSET Lookup
  BY <1>1, <1>8, DeskTyped, AskTyped DEF Form, Payers
<1>10. \A src \in sources[d] : src.of \in DOMAIN moves
  BY <1>1 DEF DeskOK, Sourced
<1>11. /\ form' = [form EXCEPT ![d] = f] /\ picker' = [picker EXCEPT ![d] = p]
       /\ lookups' = [lookups EXCEPT ![d] = l] /\ sources' = [sources EXCEPT ![d] = sources[d]]
       /\ memory' = [memory EXCEPT ![d].account = None] /\ intent' = [intent EXCEPT ![d] = intent[d] + 1]
       /\ UNCHANGED <<server, busy, dialog, ops, sent>>
  BY <1>1, <1>2, <1>4, <1>6, <1>8, DeskTyped DEF ChooseStudent, Edit
<1>12. Paints(d, f, p, l, sources[d], None, intent[d] + 1)
  BY <1>1, <1>3, <1>7, <1>9, <1>10, <1>11, DeskTyped DEF Paints
<1> QED
  BY <1>12, PaintKeeps

\* What the invariant says of one desk, and that it lists only purchases that are there.
LEMMA Listed == ASSUME IInv, NEW d \in Desks
                PROVE DesksTyped /\ LedgerTyped /\ DeskOK(d) /\ \A src \in sources[d] : src.of \in DOMAIN moves
BY DEF IInv, LedgerOK, DeskOK, Sourced

\* Setting the payer changes the picker and the account that was resolved, of one desk.
LEMMA SetPayerPaints ==
  ASSUME DesksTyped, NEW d \in Desks, NEW known \in SUBSET Accounts, NEW payer \in Payers,
         SetPayer(d, known, payer)
  PROVE  /\ [known |-> known, payer |-> payer] \in Choice
         /\ picker' = [picker EXCEPT ![d] = [known |-> known, payer |-> payer]]
         /\ \E a \in Accounts \cup {None} : memory' = [memory EXCEPT ![d].account = a]
BY DeskTyped DEF SetPayer, Choice, Payers

\* Another pack: the form is a new one.
LEMMA ChoosePackKeeps ==
  ASSUME IInv, NEW d \in Desks, NEW p \in Packs, ChoosePack(d, p)
  PROVE  IInv'
<1>1. PICK f : f = [form[d] EXCEPT !.pack = p]
  OBVIOUS
<1>2. f \in Form
  BY <1>1, Listed, DeskTyped DEF Form
<1>3. form' = [form EXCEPT ![d] = f] /\ intent' = [intent EXCEPT ![d] = intent[d] + 1]
      /\ UNCHANGED <<server, picker, lookups, sources, memory, busy, dialog, ops, sent>>
  BY <1>1, Listed, DeskTyped DEF ChoosePack, Edit
<1>4. Paints(d, f, picker[d], lookups[d], sources[d], memory[d].account, intent[d] + 1)
  BY <1>2, <1>3, Listed, DeskTyped DEF Paints
<1> QED
  BY <1>4, PaintKeeps

\* Another purchase to refund: the form is a new one.
LEMMA ChooseSourceKeeps ==
  ASSUME IInv, NEW d \in Desks, NEW src \in sources[d], NEW p \in Packs, ChooseSource(d, src, p)
  PROVE  IInv'
<1>1. PICK f : f = [form[d] EXCEPT !.source = src.of, !.credits = p]
  OBVIOUS
<1>2. src.of \in Indices
  BY Listed, DeskTyped DEF Offer
<1>3. f \in Form
  BY <1>1, <1>2, Listed, DeskTyped DEF Form
<1>4. form' = [form EXCEPT ![d] = f] /\ intent' = [intent EXCEPT ![d] = intent[d] + 1]
      /\ UNCHANGED <<server, picker, lookups, sources, memory, busy, dialog, ops, sent>>
  BY <1>1, Listed, DeskTyped DEF ChooseSource, Edit
<1>5. Paints(d, f, picker[d], lookups[d], sources[d], memory[d].account, intent[d] + 1)
  BY <1>3, <1>4, Listed, DeskTyped DEF Paints
<1> QED
  BY <1>5, PaintKeeps

\* Another payer: the form is a new one.
LEMMA PickPayerKeeps ==
  ASSUME IInv, NEW d \in Desks, NEW a \in Accounts \cup {New}, PickPayer(d, a)
  PROVE  IInv'
<1>1. SetPayer(d, picker[d].known, a) /\ intent' = [intent EXCEPT ![d] = intent[d] + 1]
      /\ UNCHANGED <<server, form, lookups, sources, busy, dialog, ops, sent>>
  BY DEF PickPayer, Edit
<1>2. picker[d].known \in SUBSET Accounts
  BY Listed, DeskTyped DEF Choice
<1>3. PICK p : p = [known |-> picker[d].known, payer |-> a]
  OBVIOUS
<1>4. PICK b \in Accounts \cup {None} : memory' = [memory EXCEPT ![d].account = b]
  BY <1>1, <1>2, Listed, SetPayerPaints DEF Payers
<1>5. p \in Choice /\ picker' = [picker EXCEPT ![d] = p]
  BY <1>1, <1>2, <1>3, Listed, SetPayerPaints DEF Payers
<1>6. Paints(d, form[d], p, lookups[d], sources[d], b, intent[d] + 1)
  BY <1>1, <1>4, <1>5, Listed, DeskTyped DEF Paints
<1> QED
  BY <1>6, PaintKeeps

\* With or without an invoice: the form is a new one.
LEMMA TickInvoiceKeeps ==
  ASSUME IInv, NEW d \in Desks, TickInvoice(d)
  PROVE  IInv'
<1>1. PICK f : f = [form[d] EXCEPT !.invoice = ~form[d].invoice]
  OBVIOUS
<1>2. f \in Form
  BY <1>1, Listed, DeskTyped DEF Form
<1>3. form' = [form EXCEPT ![d] = f] /\ intent' = [intent EXCEPT ![d] = intent[d] + 1]
      /\ UNCHANGED <<server, sources, busy, dialog, ops, sent>>
  BY <1>1, Listed, DeskTyped DEF TickInvoice, Edit
<1>4. form[d].student \in Students \cup {None} /\ picker[d].payer \in Payers /\ lookups[d] \in SUBSET Lookup
  BY Listed, DeskTyped DEF Form, Choice, Payers
<1>5. CASE form[d].invoice
  <2>1. PICK p : p = [picker[d] EXCEPT !.known = {}]
    OBVIOUS
  <2>2. PICK l : l = Ask(d, "payers", None, None)
    OBVIOUS
  <2>3. p \in Choice /\ l \in SUBSET Lookup
    BY <1>4, <2>1, <2>2, Listed, DeskTyped, AskTyped DEF Choice, Payers
  <2>4. picker' = [picker EXCEPT ![d] = p] /\ lookups' = [lookups EXCEPT ![d] = l] /\ UNCHANGED memory
    BY <1>5, <2>1, <2>2, Listed, DeskTyped DEF TickInvoice
  <2>5. Paints(d, f, p, l, sources[d], memory[d].account, intent[d] + 1)
    BY <1>2, <1>3, <2>3, <2>4, Listed, DeskTyped DEF Paints
  <2> QED
    BY <2>5, PaintKeeps
<1>6. CASE ~form[d].invoice
  <2>1. PICK kept : kept = IF picker[d].payer = New THEN None ELSE picker[d].payer
    OBVIOUS
  <2>2. kept \in Payers
    BY <1>4, <2>1 DEF Payers
  <2>3. SetPayer(d, {}, kept) /\ lookups' = [lookups EXCEPT ![d] = Ask(d, "payers", form[d].student, kept)]
    BY <1>6, <2>1 DEF TickInvoice
  <2>4. PICK l : l = Ask(d, "payers", form[d].student, kept)
    OBVIOUS
  <2>5. l \in SUBSET Lookup
    BY <1>4, <2>2, <2>4, AskTyped
  <2>6. PICK known \in SUBSET Accounts : SetPayer(d, known, kept)
    BY <2>3
  <2>7. PICK p : p = [known |-> known, payer |-> kept]
    OBVIOUS
  <2>8. PICK b \in Accounts \cup {None} : memory' = [memory EXCEPT ![d].account = b]
    BY <2>2, <2>6, Listed, SetPayerPaints
  <2>9. p \in Choice /\ picker' = [picker EXCEPT ![d] = p]
    BY <2>2, <2>6, <2>7, Listed, SetPayerPaints
  <2>10. Paints(d, f, p, l, sources[d], b, intent[d] + 1)
    BY <1>2, <1>3, <2>3, <2>4, <2>5, <2>8, <2>9, Listed, DeskTyped DEF Paints
  <2> QED
    BY <2>10, PaintKeeps
<1> QED
  BY <1>5, <1>6

\* From top-ups to refunds or back: the form is a new one, and so is its slot.
LEMMA ChooseModeKeeps ==
  ASSUME IInv, NEW d \in Desks, NEW mode \in Kinds, ChooseMode(d, mode)
  PROVE  IInv'
<1>1. PICK f : f = [form[d] EXCEPT !.mode = mode, !.source = None]
  OBVIOUS
<1>2. f \in Form
  BY <1>1, Listed, DeskTyped DEF Form
<1>3. PICK p : p = [picker[d] EXCEPT !.known = {}]
  OBVIOUS
<1>4. p \in Choice
  BY <1>3, Listed, DeskTyped DEF Choice
<1>5. PICK l : l =
           {k \in Ask(d, "sources", IF mode = "refund" THEN form[d].student ELSE None, None) : k.about = "sources"}
           \cup {[k EXCEPT !.wanted = FALSE] : k \in {q \in lookups[d] : q.about = "payers"}}
           \cup {[about |-> "payers", student |-> s, chosen |-> picker[d].payer, wanted |-> TRUE] :
                   s \in IF mode = "top-up" /\ form[d].invoice THEN {form[d].student} \ {None} ELSE {}}
  OBVIOUS
<1>6. form[d].student \in Students \cup {None} /\ picker[d].payer \in Payers /\ lookups[d] \in SUBSET Lookup
  BY Listed, DeskTyped DEF Form, Choice, Payers
<1>7. l \in SUBSET Lookup
  <2>1. Ask(d, "sources", IF mode = "refund" THEN form[d].student ELSE None, None) \in SUBSET Lookup
    BY <1>6, AskTyped DEF Payers
  <2>2. \A k \in lookups[d] : [k EXCEPT !.wanted = FALSE] \in Lookup
    BY <1>6, WantedTyped
  <2>3. \A s \in {form[d].student} \ {None} :
           [about |-> "payers", student |-> s, chosen |-> picker[d].payer, wanted |-> TRUE] \in Lookup
    BY <1>6 DEF Lookup, Payers
  <2> QED
    BY <1>5, <2>1, <2>2, <2>3
<1>8. /\ form' = [form EXCEPT ![d] = f] /\ picker' = [picker EXCEPT ![d] = p]
      /\ lookups' = [lookups EXCEPT ![d] = l] /\ sources' = [sources EXCEPT ![d] = {}]
      /\ intent' = [intent EXCEPT ![d] = intent[d] + 1] /\ UNCHANGED <<server, memory, busy, dialog, ops, sent>>
  BY <1>1, <1>3, <1>5, Listed, DeskTyped DEF ChooseMode, Edit
<1>9. Paints(d, f, p, l, {}, memory[d].account, intent[d] + 1)
  BY <1>2, <1>4, <1>7, <1>8, Listed, DeskTyped DEF Paints
<1> QED
  BY <1>9, PaintKeeps

\* A lookup that fails changes nothing that is signed.
LEMMA LookupFailsKeeps ==
  ASSUME IInv, NEW d \in Desks, NEW l \in lookups[d], LookupFails(d, l)
  PROVE  IInv'
<1>1. PICK k : k = lookups[d] \ {l}
  OBVIOUS
<1>2. k \in SUBSET Lookup /\ lookups' = [lookups EXCEPT ![d] = k]
      /\ UNCHANGED <<server, form, picker, sources, intent, memory, busy, dialog, ops, sent>>
  BY <1>1, Listed, DeskTyped DEF LookupFails
<1>3. Paints(d, form[d], picker[d], k, sources[d], memory[d].account, intent[d])
  BY <1>2, Listed, DeskTyped DEF Paints
<1> QED
  BY <1>3, PaintKeeps

\* A lookup that arrives changes the form only as a new one.
LEMMA LookupArrivesKeeps ==
  ASSUME IInv, NEW d \in Desks, NEW l \in lookups[d], LookupArrives(d, l)
  PROVE  IInv'
<1>1. PICK k : k = lookups[d] \ {l}
  OBVIOUS
<1>2. k \in SUBSET Lookup /\ lookups' = [lookups EXCEPT ![d] = k] /\ l \in Lookup
      /\ UNCHANGED <<server, busy, dialog, ops, sent>>
  BY <1>1, Listed, DeskTyped DEF LookupArrives
<1>3. PICK n : n = IF <<form', picker'>> = <<form, picker>> THEN intent[d] ELSE intent[d] + 1
  OBVIOUS
<1>4. n \in Nat /\ intent' = [intent EXCEPT ![d] = n] /\ (n = intent[d] + 1 \/ (n = intent[d] /\ form' = form /\ picker' = picker))
  BY <1>3, Listed, DeskTyped DEF LookupArrives
<1>5. CASE ~l.wanted /\ UNCHANGED <<form, picker, memory, sources>>
  <2>1. Paints(d, form[d], picker[d], k, sources[d], memory[d].account, n)
    BY <1>2, <1>4, <1>5, Listed, DeskTyped DEF Paints
  <2> QED
    BY <2>1, PaintKeeps
<1>6. CASE /\ l.wanted /\ l.about = "payers"
           /\ LET known == links[l.student]
                  kept == IF l.chosen \in known THEN picker[d].payer ELSE None
              IN SetPayer(d, known, Reported(known, kept))
           /\ UNCHANGED <<form, sources>>
  <2>1. PICK known : known = links[l.student]
    OBVIOUS
  <2>2. known \in SUBSET Accounts
    BY <1>2, <2>1, Listed DEF Lookup, LedgerTyped
  <2>3. PICK payer : payer = Reported(known, IF l.chosen \in known THEN picker[d].payer ELSE None)
    OBVIOUS
  <2>4. payer \in Payers
    BY <2>2, <2>3, Listed, DeskTyped, ReportedTyped DEF Choice, Payers
  <2>5. SetPayer(d, known, payer)
    BY <1>6, <2>1, <2>3
  <2>6. PICK p : p = [known |-> known, payer |-> payer]
    OBVIOUS
  <2>7. PICK b \in Accounts \cup {None} : memory' = [memory EXCEPT ![d].account = b]
    BY <2>2, <2>4, <2>5, Listed, SetPayerPaints
  <2>8. p \in Choice /\ picker' = [picker EXCEPT ![d] = p]
    BY <2>2, <2>4, <2>5, <2>6, Listed, SetPayerPaints
  <2>9. picker' = picker => p = picker[d]
    BY <2>8, Listed DEF DesksTyped
  <2>10. Paints(d, form[d], p, k, sources[d], b, n)
    BY <1>2, <1>4, <1>6, <2>7, <2>8, <2>9, Listed, DeskTyped DEF Paints
  <2> QED
    BY <2>10, PaintKeeps
<1>7. CASE /\ l.wanted /\ l.about = "sources"
           /\ sources' = [sources EXCEPT ![d] = Refundable(l.student)]
           /\ form' = [form EXCEPT ![d].source =
                         IF \E src \in Refundable(l.student) : src.of = l.chosen THEN @ ELSE None]
           /\ UNCHANGED <<picker, memory>>
  <2>1. PICK s : s = Refundable(l.student)
    OBVIOUS
  <2>2. s \in SUBSET Offer /\ \A src \in s : src.of \in DOMAIN moves
    BY <2>1, Listed, RefundableTyped
  <2>3. PICK f : f = [form[d] EXCEPT !.source = IF \E src \in s : src.of = l.chosen THEN form[d].source ELSE None]
    OBVIOUS
  <2>4. f \in Form
    BY <2>3, Listed, DeskTyped DEF Form
  <2>5. form' = [form EXCEPT ![d] = f] /\ sources' = [sources EXCEPT ![d] = s]
    BY <1>7, <2>1, <2>3, Listed, DeskTyped
  <2>6. form' = form => f = form[d]
    BY <2>5, Listed DEF DesksTyped
  <2>7. Paints(d, f, picker[d], k, s, memory[d].account, n)
    BY <1>2, <1>4, <1>7, <2>2, <2>4, <2>5, <2>6, Listed, DeskTyped DEF Paints
  <2> QED
    BY <2>7, PaintKeeps
<1> QED
  BY <1>5, <1>6, <1>7 DEF LookupArrives

-----------------------------------------------------------------------------
(* The ledger. *)

\* What is known of a request on its way.
LEMMA OpTyped ==
  ASSUME IInv, NEW d \in Desks, NEW op \in ops[d]
  PROVE  /\ op \in Operation
         /\ op.sig = None => op.at = "loading"
         /\ op.sig # None => /\ op \in Holders(d) /\ op.sig \in Signature /\ op.id \in Ids
                             /\ op.intent \in Intents /\ op.intent[1] = d
                             /\ op.sig.source \in DOMAIN moves \cup {None}
<1>1. DesksTyped /\ DeskOK(d)
  BY DEF IInv
<1>2. op \in Operation
  BY <1>1 DEF DesksTyped
<1>3. op.sig = None => op.at = "loading"
  BY <1>1 DEF DeskOK, Whole
<1>4. op.sig # None => op \in Holders(d)
  BY DEF Holders, HoldersOf
<1>5. \A h \in Holders(d) : h.sig.source \in DOMAIN moves \cup {None}
  BY <1>1 DEF DeskOK, Sourced
<1> QED
  BY <1>1, <1>2, <1>3, <1>4, <1>5, HoldersTyped

\* What is known of a signature.
LEMMA SignatureTyped ==
  ASSUME NEW sig \in Signature
  PROVE  /\ sig.student \in Students /\ sig.credits \in Packs /\ sig.credits \in Nat
         /\ sig.source \in Indices \cup {None}
BY CreditAssumption DEF Signature

\* The movement that an operation books.
Booked(op) == [student |-> op.sig.student,
               credits |-> IF op.sig.source = None THEN op.sig.credits ELSE -op.sig.credits,
               source |-> op.sig.source, account |-> op.account, intent |-> op.intent]

\* What is booked has its shape, the balance stays at zero or above, and the id is claimed.
LEMMA BookKeepsTypes ==
  ASSUME IInv, NEW d \in Desks, NEW op \in ops[d], op.sig # None, Covered(op),
         Len(moves) < Cardinality(Indices), Book(op), UNCHANGED links
  PROVE  /\ Booked(op) \in Entry /\ moves' = Append(moves, Booked(op)) /\ LedgerTyped'
         /\ claims' = [claims EXCEPT ![op.id] = Digest(op)] /\ Digest(op) # None
<1>1. LedgerTyped /\ op \in Operation /\ op.sig \in Signature /\ op.id \in Ids /\ op.intent \in Intents
  BY OpTyped DEF IInv, LedgerOK
<1>2. op.account \in Accounts \cup {None}
  BY <1>1 DEF Operation
<1>3. /\ op.sig.student \in Students /\ op.sig.credits \in Packs /\ op.sig.credits \in Nat
      /\ op.sig.source \in Indices \cup {None}
  BY <1>1, SignatureTyped
<1>4. PICK x : x = IF op.sig.source = None THEN op.sig.credits ELSE -op.sig.credits
  OBVIOUS
<1>5. x \in Int
  BY <1>3, <1>4
<1>6. Booked(op) \in Entry
  BY <1>1, <1>2, <1>3, <1>4, <1>5 DEF Booked, Entry
<1>7. moves' = Append(moves, Booked(op)) /\ balance' = [balance EXCEPT ![op.sig.student] = balance[op.sig.student] + x]
      /\ claims' = [claims EXCEPT ![op.id] = Digest(op)]
  BY <1>4 DEF Book, Booked
<1>8. balance' \in [Students -> Nat]
  <2>1. balance[op.sig.student] \in Nat /\ balance \in [Students -> Nat]
    BY <1>1, <1>3 DEF LedgerTyped
  <2>2. balance[op.sig.student] + x \in Nat
    BY <1>3, <1>4, <2>1 DEF Covered
  <2> QED
    BY <1>7, <2>1, <2>2
<1>9. Digest(op) \in Digests /\ Digest(op) # None
  BY <1>1, <1>2, <1>3, NoneAssumption DEF Digest, Digests
<1>10. claims' \in [Ids -> Digests \cup {None}]
  BY <1>1, <1>7, <1>9 DEF LedgerTyped
<1>11. moves' \in Seq(Entry) /\ Len(moves') <= Cardinality(Indices)
  <2>1. moves \in Seq(Entry) /\ Cardinality(Indices) \in Nat
    BY <1>1, IndicesAreListed DEF LedgerTyped
  <2>2. PICK new : new = Booked(op)
    OBVIOUS
  <2>3. PICK n \in Nat : n = Len(moves)
    BY <2>1
  <2>4. Append(moves, new) \in Seq(Entry) /\ Len(Append(moves, new)) = n + 1
    BY <1>6, <2>1, <2>2, <2>3
  <2>5. n + 1 <= Cardinality(Indices)
    BY <2>1, <2>3
  <2> QED
    BY <1>7, <2>2, <2>4, <2>5
<1>12. links' \in [Students -> SUBSET Accounts]
  BY <1>1 DEF LedgerTyped
<1> QED
  BY <1>6, <1>7, <1>8, <1>9, <1>10, <1>11, <1>12 DEF LedgerTyped

\* One movement more: the others stay as they are.
LEMMA Appended ==
  ASSUME LedgerTyped, NEW new, moves' = Append(moves, new)
  PROVE  \E n \in Nat : /\ n \notin DOMAIN moves /\ DOMAIN moves' = DOMAIN moves \cup {n} /\ moves'[n] = new
                        /\ \A j \in DOMAIN moves : moves'[j] = moves[j]
<1>1. PICK n \in Nat : n = Len(moves)
  BY MovesAreListed
<1>2. moves \in Seq(Entry) /\ DOMAIN moves = 1 .. n
  BY <1>1 DEF LedgerTyped
<1>3. DOMAIN moves' = 1 .. (n + 1) /\ moves'[n + 1] = new /\ \A j \in DOMAIN moves : moves'[j] = moves[j]
  BY <1>1, <1>2
<1>4. n + 1 \in Nat /\ n + 1 \notin DOMAIN moves /\ DOMAIN moves' = DOMAIN moves \cup {n + 1}
  BY <1>2, <1>3
<1> QED
  BY <1>3, <1>4

\* A form is booked by one who holds it, under an id nobody had claimed.
LEMMA BookOnce ==
  ASSUME IInv, NEW d \in Desks, NEW op \in ops[d], op.sig # None, claims[op.id] = None, LedgerTyped,
         moves' = Append(moves, Booked(op))
  PROVE  OneFormOneMove'
<1>1. PICK n \in Nat : /\ n \notin DOMAIN moves /\ DOMAIN moves' = DOMAIN moves \cup {n} /\ moves'[n] = Booked(op)
                       /\ \A j \in DOMAIN moves : moves'[j] = moves[j]
  BY Appended
<1>2. Booked(op).intent = op.intent
  BY DEF Booked
<1>3. \A j \in DOMAIN moves : moves[j].intent # None => moves[j].intent # op.intent
  <2>1. op \in Holders(d)
    BY OpTyped
  <2>2. Tied(Holders(d), moves, claims, d, intent[d], Slotted(d), Signed(d))
    BY DEF IInv, DeskOK
  <2> QED
    BY <2>1, <2>2 DEF Tied
<1>4. OneFormOneMove
  BY DEF IInv, LedgerOK
<1> QED
  BY <1>1, <1>2, <1>3, <1>4 DEF OneFormOneMove

\* And so it has after a step.
LEMMA MovesHaveIndicesThen == (LedgerTyped => DOMAIN moves \subseteq Indices)'
BY MovesHaveIndices, PTL

\* A refund that fits its purchase leaves it within its credits; of a new purchase
\* nothing is refunded yet.
LEMMA BookWithin ==
  ASSUME IInv, NEW d \in Desks, NEW op \in ops[d], op.sig # None, Fits(op),
         Booked(op) \in Entry, moves' = Append(moves, Booked(op)), LedgerTyped, LedgerTyped'
  PROVE  RefundsWithinPurchase' /\ \A j \in DOMAIN moves' : moves'[j].source \in DOMAIN moves' \cup {None}
<1>1. PICK n \in Nat : /\ n \notin DOMAIN moves /\ DOMAIN moves' = DOMAIN moves \cup {n} /\ moves'[n] = Booked(op)
                       /\ \A j \in DOMAIN moves : moves'[j] = moves[j]
  BY Appended
<1>2. /\ Booked(op).source = op.sig.source /\ Booked(op).student = op.sig.student
      /\ Booked(op).credits = IF op.sig.source = None THEN op.sig.credits ELSE -op.sig.credits
  BY DEF Booked
<1>3. op.sig.source \in DOMAIN moves \cup {None} /\ op.sig.credits \in Nat /\ op.sig \in Signature
  BY OpTyped, SignatureTyped
<1>4. /\ \A j \in DOMAIN moves : moves[j].source \in DOMAIN moves \cup {None}
      /\ RefundsWithinPurchase /\ moves \in Seq(Entry)
  BY DEF IInv, LedgerOK, LedgerTyped
<1>5. \A j \in DOMAIN moves' : moves'[j].source \in DOMAIN moves' \cup {None}
  BY <1>1, <1>2, <1>3, <1>4
<1>6. ASSUME NEW i \in DOMAIN moves', moves'[i].source = None
      PROVE  Refunded(i)' <= moves'[i].credits /\ \A j \in RefundsOf(i)' : moves'[j].student = moves'[i].student
  <2>1. /\ Refunded(i) \in Int /\ Refunded(i)' \in Int
        /\ Booked(op).source = i => Refunded(i)' = Refunded(i) - Booked(op).credits
        /\ Booked(op).source # i => Refunded(i)' = Refunded(i)
    BY <1>4, RefundedGrows
  <2>2. CASE i \in DOMAIN moves
    <3>1. moves'[i] = moves[i] /\ Refunded(i) <= moves[i].credits /\ moves[i].credits \in Int
          /\ \A j \in RefundsOf(i) : moves[j].student = moves[i].student
      <4>1. moves'[i] = moves[i] /\ moves[i].credits \in Int
        BY <1>1, <2>2, MovesAreListed DEF Entry
      <4> QED
        BY <1>4, <1>6, <2>2, <4>1 DEF RefundsWithinPurchase
    <3>2. CASE op.sig.source = i /\ i # None
      <4>1. moves[i].student = op.sig.student /\ op.sig.credits <= moves[i].credits - Refunded(i)
        BY <3>2 DEF Fits
      <4>2. Refunded(i)' <= moves[i].credits
        <5>1. PICK r \in Int, x \in Nat, t \in Int : r = Refunded(i) /\ x = op.sig.credits /\ t = moves[i].credits
          BY <1>3, <2>1, <3>1
        <5>2. Refunded(i)' = r - (-x)
          BY <1>2, <2>1, <3>2, <5>1
        <5> QED
          BY <4>1, <5>1, <5>2
      <4>3. \A j \in RefundsOf(i)' : moves'[j].student = moves'[i].student
        <5> SUFFICES ASSUME NEW j \in RefundsOf(i)'
                     PROVE  moves'[j].student = moves'[i].student
          OBVIOUS
        <5>1. j \in DOMAIN moves' /\ moves'[j].source = i
          BY DEF RefundsOf
        <5>2. j \in DOMAIN moves => j \in RefundsOf(i)
          BY <1>1, <5>1 DEF RefundsOf
        <5> QED
          BY <1>1, <1>2, <3>1, <4>1, <5>1, <5>2 DEF RefundsOf
      <4> QED
        BY <3>1, <4>2, <4>3
    <3>3. CASE op.sig.source # i
      <4>1. Refunded(i)' <= moves'[i].credits
        BY <1>2, <2>1, <3>1, <3>3
      <4>2. \A j \in RefundsOf(i)' : j \in RefundsOf(i)
        BY <1>1, <1>2, <3>3 DEF RefundsOf
      <4>3. \A j \in RefundsOf(i) : j \in DOMAIN moves
        BY DEF RefundsOf
      <4> QED
        BY <1>1, <3>1, <4>1, <4>2, <4>3
    <3>4. i # None
      BY <2>2, <1>4, MovesHaveIndices, NoneAssumption
    <3> QED
      BY <3>2, <3>3, <3>4
  <2>3. CASE i \notin DOMAIN moves
    <3>1. i = n /\ op.sig.source = None /\ moves'[i].credits = op.sig.credits
      BY <1>1, <1>2, <1>6, <2>3
    <3>2. n # None
      BY <1>1, MovesHaveIndicesThen, NoneAssumption
    <3>3. RefundsOf(n) = {} /\ RefundsOf(n)' = {}
      BY <1>1, <1>2, <1>4, <3>1, <3>2 DEF RefundsOf
    <3>4. Refunded(n) = 0
      BY <3>3, MovesAreListed, RefundedIsLeft, LeftNothing
    <3>5. Refunded(n)' = 0
      BY <1>2, <2>1, <3>1, <3>2, <3>4
    <3> QED
      BY <1>3, <3>1, <3>3, <3>5
  <2> QED
    BY <2>2, <2>3
<1> QED
  BY <1>5, <1>6 DEF RefundsWithinPurchase

\* Where nothing is booked, nobody need hold anything.
LEMMA StayGrows ==
  ASSUME NEW H, UNCHANGED <<moves, claims>>
  PROVE  Grows(H, moves, claims, moves', claims')
BY DEF Grows

\* One booking keeps what the ledger promises, and is held by one who holds its form.
LEMMA BookKeeps ==
  ASSUME IInv, NEW d \in Desks, NEW op \in ops[d], op.sig # None, claims[op.id] = None, Fits(op), Covered(op),
         Len(moves) < Cardinality(Indices), Book(op), UNCHANGED links
  PROVE  LedgerOK' /\ Grows(Holders(d), moves, claims, moves', claims')
<1>1. /\ Booked(op) \in Entry /\ moves' = Append(moves, Booked(op)) /\ LedgerTyped'
      /\ claims' = [claims EXCEPT ![op.id] = Digest(op)] /\ Digest(op) # None
  BY BookKeepsTypes
<1>2. LedgerTyped
  BY DEF IInv, LedgerOK
<1>3. OneFormOneMove'
  BY <1>1, <1>2, BookOnce
<1>4. RefundsWithinPurchase' /\ \A j \in DOMAIN moves' : moves'[j].source \in DOMAIN moves' \cup {None}
  BY <1>1, <1>2, BookWithin
<1>5. LedgerOK'
  BY <1>1, <1>3, <1>4 DEF LedgerOK
<1>6. Grows(Holders(d), moves, claims, moves', claims')
  <2>1. PICK n \in Nat : /\ n \notin DOMAIN moves /\ DOMAIN moves' = DOMAIN moves \cup {n} /\ moves'[n] = Booked(op)
                         /\ \A j \in DOMAIN moves : moves'[j] = moves[j]
    BY <1>1, <1>2, Appended
  <2>2. op \in Holders(d) /\ op.id \in Ids /\ DOMAIN claims = Ids
    BY <1>2, OpTyped DEF LedgerTyped
  <2>3. claims'[op.id] # None /\ \A i \in Ids : claims[i] # None => claims'[i] # None
    BY <1>1, <2>2
  <2>4. moves'[n].intent = op.intent
    BY <2>1 DEF Booked
  <2> QED
    BY <2>1, <2>2, <2>3, <2>4 DEF Grows
<1> QED
  BY <1>5, <1>6

\* So does settling, which books or leaves everything as it is.
LEMMA SettleKeeps ==
  ASSUME IInv, NEW d \in Desks, NEW op \in ops[d], op.sig # None, NEW ok \in BOOLEAN,
         Settle(op, ok), UNCHANGED links
  PROVE  LedgerOK' /\ Grows(Holders(d), moves, claims, moves', claims')
<1>1. CASE UNCHANGED <<balance, moves, claims>>
  <2>1. LedgerOK /\ LedgerTyped'
    BY <1>1 DEF IInv, LedgerOK, LedgerTyped
  <2> QED
    BY <1>1, <2>1, LedgerStays, StayGrows
<1>2. CASE claims[op.id] = None /\ Fits(op) /\ Covered(op) /\ Len(moves) < Cardinality(Indices) /\ Book(op)
  BY <1>2, BookKeeps
<1> QED
  BY <1>1, <1>2 DEF Settle

-----------------------------------------------------------------------------
(* Questions and requests. *)

\* Desk d has question g and requests os, which hold no form that was not held before.
Calls(d, g, os, a) ==
    /\ UNCHANGED <<form, picker, lookups, sources, intent>>
    /\ g \in Question \cup {None} /\ dialog' = [dialog EXCEPT ![d] = g]
    /\ os \in SUBSET Operation /\ ops' = [ops EXCEPT ![d] = os]
    /\ busy' \in [Desks -> BOOLEAN]
    /\ a \in Accounts \cup {None} /\ memory' = [memory EXCEPT ![d].account = a]
    /\ sent' \in 0 .. Submits
    /\ \A op \in os : IF op.sig = None THEN op.at = "loading" ELSE op.id \in Ids /\ op.intent \in Intents
    /\ Carried(Holders(d), HoldersOf(g, os))

\* Questions and requests that hold no form that was not held before keep the invariant.
LEMMA CallsKeep ==
  ASSUME IInv, NEW d \in Desks, NEW g, NEW os, NEW a, Calls(d, g, os, a), LedgerOK',
         Grows(Holders(d), moves, claims, moves', claims')
  PROVE  IInv'
<1> USE DEF Calls
<1>1. DesksTyped /\ DeskOK(d)
  BY DEF IInv
<1>2. /\ memory' \in [Desks -> Memory]
      /\ \A e \in Desks : memory'[e].slot = memory[e].slot
  BY <1>1 DEF DesksTyped, Memory
<1>3. DesksTyped'
  BY <1>1, <1>2 DEF DesksTyped
<1>4. \A e \in Desks \ {d} : SameDesk(e)
  BY <1>1, <1>2 DEF DesksTyped, SameDesk, SameForm
<1>5. SameForm(d)
  BY <1>2 DEF SameForm
<1>6. dialog'[d] = g /\ ops'[d] = os
  BY <1>1 DEF DesksTyped
<1>7. Carried(Holders(d), Holders(d)')
  BY <1>6 DEF Holders
<1>8. \A src \in sources'[d] : src.of \in DOMAIN moves'
  BY <1>1 DEF DeskOK, Sourced, Grows
<1>9. Whole(ops'[d], memory'[d].slot)
  BY <1>1, <1>2, <1>6 DEF DeskOK, Whole
<1> QED
  BY <1>3, <1>4, <1>5, <1>7, <1>8, <1>9, DeskStep DEF Steps

\* What is known of the question and the requests of one desk.
LEMMA DeskBusy ==
  ASSUME IInv, NEW d \in Desks
  PROVE  /\ dialog[d] \in Question \cup {None} /\ dialog = [dialog EXCEPT ![d] = dialog[d]]
         /\ ops[d] \in SUBSET Operation /\ ops = [ops EXCEPT ![d] = ops[d]]
         /\ busy \in [Desks -> BOOLEAN]
         /\ memory[d].account \in Accounts \cup {None}
         /\ memory = [memory EXCEPT ![d].account = memory[d].account]
         /\ sent \in 0 .. Submits
         /\ \A op \in ops[d] : IF op.sig = None THEN op.at = "loading" ELSE op.id \in Ids /\ op.intent \in Intents
<1>1. DesksTyped /\ DeskOK(d)
  BY DEF IInv
<1> QED
  BY <1>1, DeskTyped DEF DesksTyped, DeskOK, Whole

\* A request that is over, one that goes on, and a new one that holds the form of the question.
LEMMA OneLess ==
  ASSUME NEW g, NEW os, NEW op
  PROVE  Carried(HoldersOf(g, os), HoldersOf(g, os \ {op}))
BY DEF Carried, HoldersOf

\* A request that goes on holds the form it held.
LEMMA OneOn ==
  ASSUME NEW g, NEW os, NEW op \in os, NEW as, as.sig = op.sig, as.id = op.id, as.intent = op.intent
  PROVE  Carried(HoldersOf(g, os), HoldersOf(g, (os \ {op}) \cup {as}))
BY DEF Carried, HoldersOf

\* A question that is closed holds nothing.
LEMMA Cancels ==
  ASSUME NEW g, NEW os
  PROVE  Carried(HoldersOf(g, os), HoldersOf(None, os))
BY DEF Carried, HoldersOf

\* A request that a question becomes holds the form of the question.
LEMMA Confirms ==
  ASSUME NEW g, g # None, NEW os, NEW op, op.sig = None \/ (op.sig = g.sig /\ op.id = g.id /\ op.intent = g.intent)
  PROVE  Carried(HoldersOf(g, os), HoldersOf(None, os \cup {op}))
BY DEF Carried, HoldersOf

\* A mere load holds no form.
LEMMA Loads ==
  ASSUME NEW g, NEW os, NEW op, op.sig = None
  PROVE  Carried(HoldersOf(g, os), HoldersOf(g, os \cup {op}))
BY DEF Carried, HoldersOf

\* An operation with another account, at another place.
LEMMA OpMoved ==
  ASSUME IInv, NEW d \in Desks, NEW op \in ops[d], op.sig # None, NEW as,
         \/ as = [op EXCEPT !.at = "loading"] \/ as = [op EXCEPT !.at = "adrift"]
         \/ \E a \in Accounts : as = [op EXCEPT !.at = "book", !.account = a]
  PROVE  /\ as \in Operation /\ as.sig = op.sig /\ as.id = op.id /\ as.intent = op.intent
<1>1. op \in Operation
  BY OpTyped
<1> QED
  BY <1>1 DEF Operation

-----------------------------------------------------------------------------

\* Cancelling a confirmation gives up a form.
LEMMA CancelKeeps == ASSUME IInv, NEW d \in Desks, Cancel(d) PROVE IInv'
<1>1. LedgerOK' /\ Grows(Holders(d), moves, claims, moves', claims')
  BY LedgerStays, StayGrows DEF Cancel, server, IInv, LedgerOK, LedgerTyped
<1>2. Calls(d, None, ops[d], memory[d].account)
  BY DeskBusy, Cancels DEF Cancel, screen, Calls, Holders
<1> QED
  BY <1>1, <1>2, CallsKeep

\* Confirming sends the form of the question.
LEMMA ConfirmKeeps == ASSUME IInv, NEW d \in Desks, Confirm(d) PROVE IInv'
<1>1. LedgerOK' /\ Grows(Holders(d), moves, claims, moves', claims')
  BY LedgerStays, StayGrows DEF Confirm, server, IInv, LedgerOK, LedgerTyped
<1>2. PICK g : g = dialog[d]
  OBVIOUS
<1>3. g # None /\ g \in Question
  BY <1>2, DeskBusy DEF Confirm
<1>4. PICK first : first = [sig |-> g.sig, id |-> g.id, intent |-> g.intent, account |-> None, at |-> "book"]
  OBVIOUS
<1>5. /\ dialog' = [dialog EXCEPT ![d] = None]
      /\ UNCHANGED <<form, picker, lookups, sources, intent, memory, sent>>
  BY DEF Confirm, screen
<1>6. CASE UNCHANGED <<busy, ops>>
  <2>1. Calls(d, None, ops[d], memory[d].account)
    BY <1>5, <1>6, DeskBusy, Cancels DEF Calls, Holders
  <2> QED
    BY <1>1, <2>1, CallsKeep
<1>7. ASSUME NEW op, Start(d, op),
             op = first \/ op = [first EXCEPT !.at = "account"] \/ \E who \in Accounts : op = [first EXCEPT !.account = who]
      PROVE  IInv'
  <2>1. op \in Operation /\ op.sig = g.sig /\ op.id = g.id /\ op.intent = g.intent
    BY <1>3, <1>4, <1>7 DEF Operation, Question
  <2>2. op.sig # None /\ op.id \in Ids /\ op.intent \in Intents
    BY <1>3, <2>1, NoneAssumption DEF Question
  <2>3. PICK os : os = ops[d] \cup {op}
    OBVIOUS
  <2>4. os \in SUBSET Operation /\ ops' = [ops EXCEPT ![d] = os] /\ busy' \in [Desks -> BOOLEAN]
    BY <1>7, <2>1, <2>3, DeskBusy DEF Start
  <2>5. \A x \in os : IF x.sig = None THEN x.at = "loading" ELSE x.id \in Ids /\ x.intent \in Intents
    BY <2>2, <2>3, DeskBusy
  <2>6. Carried(Holders(d), HoldersOf(None, os))
    BY <1>2, <1>3, <2>1, <2>3, Confirms DEF Holders
  <2>7. Calls(d, None, os, memory[d].account)
    BY <1>5, <2>4, <2>5, <2>6, DeskBusy DEF Calls
  <2> QED
    BY <1>1, <2>7, CallsKeep
<1> QED
  BY <1>2, <1>4, <1>6, <1>7 DEF Confirm

\* A reconnection starts a load and clears nobody's form.
LEMMA ReconnectKeeps == ASSUME IInv, NEW d \in Desks, Reconnect(d) PROVE IInv'
<1>1. LedgerOK' /\ Grows(Holders(d), moves, claims, moves', claims')
  BY LedgerStays, StayGrows DEF Reconnect, server, IInv, LedgerOK, LedgerTyped
<1>2. PICK op : op = [sig |-> None, id |-> None, intent |-> None, account |-> None, at |-> "loading"]
  OBVIOUS
<1>3. op \in Operation /\ op.sig = None /\ op.at = "loading"
  BY <1>2 DEF Operation
<1>4. PICK os : os = ops[d] \cup {op}
  OBVIOUS
<1>5. /\ os \in SUBSET Operation /\ ops' = [ops EXCEPT ![d] = os] /\ busy' \in [Desks -> BOOLEAN]
      /\ UNCHANGED <<form, picker, lookups, sources, intent, memory, dialog>>
  BY <1>2, <1>3, <1>4, DeskBusy DEF Reconnect, Start, screen
<1>6. sent' \in 0 .. Submits
  BY DeskBusy, CreditAssumption DEF Reconnect, Send
<1>7. \A x \in os : IF x.sig = None THEN x.at = "loading" ELSE x.id \in Ids /\ x.intent \in Intents
  BY <1>3, <1>4, DeskBusy
<1>8. Carried(Holders(d), HoldersOf(dialog[d], os))
  BY <1>3, <1>4, Loads DEF Holders
<1>9. Calls(d, dialog[d], os, memory[d].account)
  BY <1>5, <1>6, <1>7, <1>8, DeskBusy DEF Calls
<1> QED
  BY <1>1, <1>9, CallsKeep

\* An operation is over, or goes on elsewhere; the account it resolved is remembered.
LEMMA FinishCalls ==
  ASSUME IInv, NEW d \in Desks, NEW op \in ops[d], busy' \in [Desks -> BOOLEAN],
         ops' = [ops EXCEPT ![d] = ops[d] \ {op}],
         UNCHANGED <<form, picker, lookups, sources, intent, memory, dialog, sent>>
  PROVE  Calls(d, dialog[d], ops[d] \ {op}, memory[d].account)
BY DeskBusy, OneLess DEF Calls, Holders

\* A request that goes on is the same request.
LEMMA MoveCalls ==
  ASSUME IInv, NEW d \in Desks, NEW op \in ops[d], op.sig # None, NEW as, Move(d, op, as),
         NEW a \in Accounts \cup {None},
         \/ as = [op EXCEPT !.at = "loading"] \/ as = [op EXCEPT !.at = "adrift"]
         \/ \E x \in Accounts : as = [op EXCEPT !.at = "book", !.account = x],
         busy' \in [Desks -> BOOLEAN], memory' = [memory EXCEPT ![d].account = a],
         UNCHANGED <<form, picker, lookups, sources, intent, dialog, sent>>
  PROVE  Calls(d, dialog[d], (ops[d] \ {op}) \cup {as}, a)
<1>1. as \in Operation /\ as.sig = op.sig /\ as.id = op.id /\ as.intent = op.intent
  BY OpMoved
<1>2. op.id \in Ids /\ op.intent \in Intents
  BY OpTyped
<1>3. PICK os : os = (ops[d] \ {op}) \cup {as}
  OBVIOUS
<1>4. os \in SUBSET Operation /\ ops' = [ops EXCEPT ![d] = os]
  BY <1>1, <1>3, DeskBusy DEF Move
<1>5. \A x \in os : IF x.sig = None THEN x.at = "loading" ELSE x.id \in Ids /\ x.intent \in Intents
  BY <1>1, <1>2, <1>3, DeskBusy
<1>6. Carried(Holders(d), HoldersOf(dialog[d], os))
  BY <1>1, <1>3, OneOn DEF Holders
<1>7. Calls(d, dialog[d], os, a)
  BY <1>4, <1>5, <1>6, DeskBusy DEF Calls
<1> QED
  BY <1>3, <1>7

\* Creating the payer of a form moves no credits.
LEMMA ServeAccountKeeps ==
  ASSUME IInv, NEW d \in Desks, NEW op \in ops[d], ServeAccount(d, op)
  PROVE  IInv'
<1>1. op.sig # None /\ op.sig.student \in Students
  BY OpTyped, SignatureTyped DEF ServeAccount
<1>2. PICK a \in Accounts :
         /\ links' = [links EXCEPT ![op.sig.student] = @ \cup {a}]
         /\ \E heard \in Heard :
               IF heard THEN /\ Move(d, op, [op EXCEPT !.at = "book", !.account = a])
                             /\ memory' = [memory EXCEPT ![d].account = a] /\ UNCHANGED busy
                        ELSE Finish(d, op) /\ UNCHANGED memory
  BY DEF ServeAccount
<1>3. UNCHANGED <<balance, moves, claims, form, picker, lookups, sources, intent, dialog, told, sent>>
  BY DEF ServeAccount, screen
<1>4. LedgerOK' /\ Grows(Holders(d), moves, claims, moves', claims')
  <2>1. LedgerOK /\ LedgerTyped
    BY DEF IInv, LedgerOK
  <2>2. links' \in [Students -> SUBSET Accounts]
    BY <1>1, <1>2, <2>1 DEF LedgerTyped
  <2>3. LedgerTyped'
    BY <1>3, <2>1, <2>2 DEF LedgerTyped
  <2> QED
    BY <1>3, <2>1, <2>3, LedgerStays, StayGrows
<1>5. CASE /\ Move(d, op, [op EXCEPT !.at = "book", !.account = a])
           /\ memory' = [memory EXCEPT ![d].account = a] /\ UNCHANGED busy
  <2>1. PICK as : as = [op EXCEPT !.at = "book", !.account = a]
    OBVIOUS
  <2>2. Move(d, op, as) /\ busy' \in [Desks -> BOOLEAN]
    BY <1>5, <2>1, DeskBusy
  <2>3. Calls(d, dialog[d], (ops[d] \ {op}) \cup {as}, a)
    BY <1>1, <1>3, <1>5, <2>1, <2>2, MoveCalls
  <2> QED
    BY <1>4, <2>3, CallsKeep
<1>6. CASE Finish(d, op) /\ UNCHANGED memory
  <2>1. Calls(d, dialog[d], ops[d] \ {op}, memory[d].account)
    BY <1>3, <1>6, FinishCalls, DeskBusy DEF Finish
  <2> QED
    BY <1>4, <2>1, CallsKeep
<1> QED
  BY <1>2, <1>5, <1>6

\* The server settles what a desk waits for.
LEMMA ServeBookingKeeps ==
  ASSUME IInv, NEW d \in Desks, NEW op \in ops[d], ServeBooking(d, op)
  PROVE  IInv'
<1>1. op.sig # None
  BY OpTyped DEF ServeBooking
<1>2. PICK ok \in BOOLEAN, heard \in Heard : Settle(op, ok) /\ Proceed(d, op, ok /\ heard)
  BY DEF ServeBooking
<1>3. UNCHANGED <<links, form, picker, lookups, sources, intent, memory, dialog, told, sent>>
  BY DEF ServeBooking, screen
<1>4. LedgerOK' /\ Grows(Holders(d), moves, claims, moves', claims')
  BY <1>1, <1>2, <1>3, SettleKeeps
<1>5. CASE Move(d, op, [op EXCEPT !.at = "loading"]) /\ UNCHANGED busy
  <2>1. PICK as : as = [op EXCEPT !.at = "loading"]
    OBVIOUS
  <2>2. /\ Move(d, op, as) /\ busy' \in [Desks -> BOOLEAN]
        /\ memory' = [memory EXCEPT ![d].account = memory[d].account] /\ memory[d].account \in Accounts \cup {None}
    BY <1>3, <1>5, <2>1, DeskBusy
  <2>3. Calls(d, dialog[d], (ops[d] \ {op}) \cup {as}, memory[d].account)
    BY <1>1, <1>3, <2>1, <2>2, MoveCalls
  <2> QED
    BY <1>4, <2>3, CallsKeep
<1>6. CASE Finish(d, op)
  <2>1. Calls(d, dialog[d], ops[d] \ {op}, memory[d].account)
    BY <1>3, <1>6, FinishCalls, DeskBusy DEF Finish
  <2> QED
    BY <1>4, <2>1, CallsKeep
<1> QED
  BY <1>2, <1>5, <1>6 DEF Proceed

\* A call that is lost, or given up while the server has yet to see it.
LEMMA CallFailsKeeps ==
  ASSUME IInv, NEW d \in Desks, NEW op \in ops[d], CallFails(d, op)
  PROVE  IInv'
<1>1. op.sig # None
  BY OpTyped DEF CallFails
<1>2. UNCHANGED <<server, form, picker, lookups, sources, intent, memory, dialog, told, sent>>
  BY DEF CallFails, screen
<1>3. LedgerOK' /\ Grows(Holders(d), moves, claims, moves', claims')
  BY <1>2, LedgerStays, StayGrows DEF server, IInv, LedgerOK, LedgerTyped
<1>4. CASE Finish(d, op)
  <2>1. Calls(d, dialog[d], ops[d] \ {op}, memory[d].account)
    BY <1>2, <1>4, FinishCalls, DeskBusy DEF Finish
  <2> QED
    BY <1>3, <2>1, CallsKeep
<1>5. CASE Move(d, op, [op EXCEPT !.at = "adrift"]) /\ busy' = [busy EXCEPT ![d] = FALSE]
  <2>1. PICK as : as = [op EXCEPT !.at = "adrift"]
    OBVIOUS
  <2>2. /\ Move(d, op, as) /\ busy' \in [Desks -> BOOLEAN] /\ memory' = [memory EXCEPT ![d].account = memory[d].account]
        /\ memory[d].account \in Accounts \cup {None}
    BY <1>2, <1>5, <2>1, DeskBusy
  <2>3. Calls(d, dialog[d], (ops[d] \ {op}) \cup {as}, memory[d].account)
    BY <1>1, <1>2, <1>5, <2>1, <2>2, MoveCalls
  <2> QED
    BY <1>3, <2>3, CallsKeep
<1> QED
  BY <1>4, <1>5 DEF CallFails

\* The server settles what no desk waits for any more.
LEMMA ServeAdriftKeeps ==
  ASSUME IInv, NEW d \in Desks, NEW op \in ops[d], ServeAdrift(d, op)
  PROVE  IInv'
<1>1. op.sig # None
  BY OpTyped DEF ServeAdrift
<1>2. PICK ok \in BOOLEAN : Settle(op, ok)
  BY DEF ServeAdrift
<1>3. /\ UNCHANGED <<links, form, picker, lookups, sources, intent, memory, busy, dialog, told, sent>>
      /\ ops' = [ops EXCEPT ![d] = ops[d] \ {op}]
  BY DEF ServeAdrift, screen
<1>4. LedgerOK' /\ Grows(Holders(d), moves, claims, moves', claims')
  BY <1>1, <1>2, <1>3, SettleKeeps
<1>5. busy' \in [Desks -> BOOLEAN]
  BY <1>3, DeskBusy
<1>6. Calls(d, dialog[d], ops[d] \ {op}, memory[d].account)
  BY <1>3, <1>5, FinishCalls
<1> QED
  BY <1>4, <1>6, CallsKeep

\* The load after a booking hands the desk a new form.
LEMMA LoadEndsKeeps ==
  ASSUME IInv, NEW d \in Desks, NEW op \in ops[d], LoadEnds(d, op)
  PROVE  IInv'
<1>1. UNCHANGED <<server, dialog, sent>> /\ ops' = [ops EXCEPT ![d] = ops[d] \ {op}] /\ busy' = [busy EXCEPT ![d] = FALSE]
  BY DEF LoadEnds, Finish
<1>2. LedgerOK' /\ Grows(Holders(d), moves, claims, moves', claims')
  BY <1>1, LedgerStays, StayGrows DEF server, IInv, LedgerOK, LedgerTyped
<1>3. CASE op.sig = None
  <2>1. UNCHANGED <<form, picker, lookups, sources, intent, memory>>
    BY <1>3 DEF LoadEnds, screen
  <2>2. Calls(d, dialog[d], ops[d] \ {op}, memory[d].account)
    BY <1>1, <2>1, FinishCalls, DeskBusy
  <2> QED
    BY <1>2, <2>2, CallsKeep
<1>4. CASE op.sig # None
  <2>1. DesksTyped /\ DeskOK(d) /\ form[d] \in Form /\ lookups[d] \in SUBSET Lookup /\ ops[d] \in SUBSET Operation
    BY Listed, DeskTyped, DeskBusy
  <2>2. PICK f : f = IF op.sig.source = None
                     THEN [form[d] EXCEPT !.student = None, !.source = None, !.pack = None, !.invoice = FALSE]
                     ELSE [form[d] EXCEPT !.student = None, !.source = None, !.credits = None]
    OBVIOUS
  <2>3. f \in Form
    BY <2>1, <2>2 DEF Form
  <2>4. PICK l : l = {[k EXCEPT !.wanted = FALSE] : k \in lookups[d]}
    OBVIOUS
  <2>5. l \in SUBSET Lookup
    BY <2>1, <2>4, WantedTyped
  <2>6. NoPicker \in Choice
    BY DEF NoPicker, Choice
  <2>7. /\ form' = [form EXCEPT ![d] = f] /\ picker' = [picker EXCEPT ![d] = NoPicker]
        /\ lookups' = [lookups EXCEPT ![d] = l] /\ sources' = [sources EXCEPT ![d] = {}]
        /\ memory' = [memory EXCEPT ![d].account = None] /\ intent' = [intent EXCEPT ![d] = intent[d] + 1]
    BY <1>4, <2>2, <2>4 DEF LoadEnds
  <2>8. /\ memory' \in [Desks -> Memory]
        /\ \A e \in Desks : memory'[e].slot = memory[e].slot
    BY <2>1, <2>7 DEF DesksTyped, Memory
  <2>9. DesksTyped'
    <3>1. form' \in [Desks -> Form] /\ picker' \in [Desks -> Choice] /\ lookups' \in [Desks -> SUBSET Lookup]
      BY <2>1, <2>3, <2>5, <2>6, <2>7 DEF DesksTyped
    <3>2. sources' \in [Desks -> SUBSET Offer] /\ busy' \in [Desks -> BOOLEAN] /\ intent' \in [Desks -> Nat]
      BY <1>1, <2>1, <2>7 DEF DesksTyped
    <3>3. ops' \in [Desks -> SUBSET Operation] /\ dialog' \in [Desks -> Question \cup {None}] /\ sent' \in 0 .. Submits
      BY <1>1, <2>1 DEF DesksTyped
    <3> QED
      BY <2>8, <3>1, <3>2, <3>3 DEF DesksTyped
  <2>10. \A e \in Desks \ {d} : SameDesk(e)
    BY <1>1, <2>1, <2>7, <2>8 DEF DesksTyped, SameDesk, SameForm
  <2>11. dialog'[d] = dialog[d] /\ ops'[d] = ops[d] \ {op} /\ sources'[d] = {} /\ intent'[d] = intent[d] + 1
    BY <1>1, <2>1, <2>7 DEF DesksTyped
  <2>12. Carried(Holders(d), Holders(d)')
    BY <2>11, OneLess DEF Holders
  <2>13. Whole(ops'[d], memory'[d].slot)
    BY <2>1, <2>8, <2>11 DEF DeskOK, Whole
  <2>14. Steps(d)
    BY <1>2, <2>10, <2>11, <2>12, <2>13 DEF Steps, NewForm
  <2> QED
    BY <1>2, <2>9, <2>14, DeskStep
<1> QED
  BY <1>3, <1>4

\* A check-in takes a credit and leaves the movements as they are.
LEMMA AttendKeeps ==
  ASSUME IInv, NEW s \in Students, Attend(s)
  PROVE  IInv'
<1>1. /\ UNCHANGED <<moves, claims, links, form, picker, lookups, sources, intent, memory, busy, dialog, ops, sent>>
      /\ balance' = [balance EXCEPT ![s] = balance[s] - 1] /\ balance[s] >= 1
  BY DEF Attend, screen
<1>2. LedgerOK /\ LedgerTyped
  BY DEF IInv, LedgerOK
<1>3. LedgerTyped'
  BY <1>1, <1>2 DEF LedgerTyped
<1>4. LedgerOK'
  BY <1>1, <1>2, <1>3, LedgerStays
<1>5. DesksTyped'
  BY <1>1 DEF IInv, DesksTyped
<1>6. ASSUME NEW d \in Desks PROVE DeskOK(d)'
  <2>1. Holders(d)' = Holders(d) /\ Slotted(d)' = Slotted(d) /\ Signed(d)' = Signed(d)
    BY <1>1, SignedSame DEF Holders, SameForm
  <2>2. DeskOK(d)
    BY DEF IInv
  <2> QED
    BY <1>1, <2>1, <2>2 DEF DeskOK
<1> QED
  BY <1>4, <1>5, <1>6 DEF IInv

-----------------------------------------------------------------------------
(* Submitting. *)

\* A question that carries the remembered id when the form is the one remembered.
LEMMA TiedSubmit ==
  ASSUME NEW H, NEW m, NEW c, NEW d, NEW n, NEW slot, NEW signed, NEW q, NEW slot2,
         Tied(H, m, c, d, n, slot, signed), \A h \in H : h.intent \in Intents,
         q.intent = <<d, n>>, slot.sig = signed => q.id = slot.id,
         slot2.sig = signed, slot2.id = q.id, q.id \in Ids, n \in Nat
  PROVE  Tied(H \cup {q}, m, c, d, n, slot2, signed)
<1>1. q.intent[1] = d /\ q.intent[2] = n
  OBVIOUS
<1>2. ASSUME NEW h \in H
      PROVE  /\ h.intent[1] = d /\ h.intent[2] <= n
             /\ h.intent = q.intent <=> h.intent[2] = n
             /\ h.intent[2] = n => slot2.id = h.id
             /\ \A g \in H : g.intent = h.intent => g.id = h.id
             /\ \A j \in DOMAIN m : m[j].intent # None /\ m[j].intent = h.intent => c[h.id] # None
  <2>1. /\ h.intent[1] = d /\ h.intent[2] <= n
        /\ \A g \in H : g.intent = h.intent => g.id = h.id
        /\ \A j \in DOMAIN m : m[j].intent # None /\ m[j].intent = h.intent => c[h.id] # None
        /\ h.intent[2] = n => slot.sig = signed /\ slot.id = h.id
    BY DEF Tied
  <2>2. h.intent = <<h.intent[1], h.intent[2]>>
    BY DEF Intents
  <2> QED
    BY <1>1, <2>1, <2>2
<1>3. ASSUME NEW j \in DOMAIN m, m[j].intent # None, m[j].intent[1] = d
      PROVE  /\ m[j].intent[2] <= n
             /\ m[j].intent[2] = n => slot2.id \in Ids /\ c[slot2.id] # None
  BY <1>3 DEF Tied
<1>4. \A j \in DOMAIN m : m[j].intent # None /\ m[j].intent = q.intent => c[q.id] # None
  BY <1>1, <1>3
<1>5. ASSUME NEW h \in H \cup {q}
      PROVE  /\ h.intent[1] = d /\ h.intent[2] <= n
             /\ \A g \in H \cup {q} : g.intent = h.intent => g.id = h.id
             /\ \A j \in DOMAIN m : m[j].intent # None /\ m[j].intent = h.intent => c[h.id] # None
             /\ h.intent[2] = n => slot2.sig = signed /\ slot2.id = h.id
  <2>1. CASE h = q
    BY <1>1, <1>2, <1>4, <2>1
  <2>2. CASE h \in H
    BY <1>1, <1>2, <2>2
  <2> QED
    BY <2>1, <2>2
<1> QED
  BY <1>3, <1>5 DEF Tied

\* A complete form has a signature.
LEMMA SignedTyped ==
  ASSUME DesksTyped, NEW d \in Desks, Complete(d)
  PROVE  Signed(d) \in Signature
<1>1. form[d] \in Form /\ picker[d] \in Choice
  BY DeskTyped
<1>2. /\ form[d].student \in Students \cup {None} /\ form[d].pack \in Packs \cup {None}
      /\ form[d].credits \in Packs \cup {None} /\ form[d].invoice \in BOOLEAN
      /\ form[d].source \in Indices \cup {None} /\ picker[d].payer \in Accounts \cup {None, New}
  BY <1>1 DEF Form, Choice
<1>3. CASE Topping(d)
  BY <1>2, <1>3 DEF Signed, Complete, Signature
<1>4. CASE ~Topping(d)
  BY <1>2, <1>4 DEF Signed, Complete, Signature
<1> QED
  BY <1>3, <1>4

\* Submitting opens the question with the remembered id, if the form is the one remembered.
LEMMA SubmitKeeps == ASSUME IInv, NEW d \in Desks, Submit(d) PROVE IInv'
<1>1. DesksTyped /\ LedgerOK /\ DeskOK(d)
  BY DEF IInv
<1>2. PICK q : q = [sig |-> Signed(d), id |-> RequestId(d), intent |-> <<d, intent[d]>>]
  OBVIOUS
<1>3. PICK k : k = form[d].mode
  OBVIOUS
<1>4. PICK slot2 : slot2 = [sig |-> Signed(d), id |-> RequestId(d)]
  OBVIOUS
<1>5. /\ memory' = [memory EXCEPT ![d].slot[k] = slot2] /\ dialog' = [dialog EXCEPT ![d] = q]
      /\ UNCHANGED <<balance, moves, claims, links, form, picker, lookups, sources, intent, busy, ops>>
      /\ dialog[d] = None /\ sent < Submits /\ sent' = sent + 1 /\ Complete(d)
  BY <1>2, <1>3, <1>4 DEF Submit, server, screen, Send, Hands
<1>6. Signed(d) \in Signature /\ Signed(d) # None
  BY <1>1, <1>5, SignedTyped, NoneAssumption
<1>7. k \in Kinds /\ memory[d] \in Memory /\ Slotted(d) = memory[d].slot[k] /\ intent[d] \in Nat
  BY <1>1, <1>3, DeskTyped DEF Form, Slotted, DesksTyped
<1>8. RequestId(d) \in Ids /\ (Slotted(d).sig = Signed(d) => RequestId(d) = Slotted(d).id)
  <2>1. SameRequest(d) <=> Slotted(d).sig = Signed(d)
    BY <1>3 DEF SameRequest, Slotted
  <2>2. Slotted(d).sig # None => Slotted(d).id \in Ids
    BY <1>1, <1>7 DEF DeskOK, Whole
  <2>3. sent + 1 \in Ids
    BY <1>1, <1>5, CreditAssumption DEF DesksTyped, Ids
  <2> QED
    BY <1>6, <2>1, <2>2, <2>3 DEF RequestId, Slotted
<1>9. q \in Question /\ q.id = RequestId(d) /\ q.sig = Signed(d) /\ q.intent = <<d, intent[d]>>
  BY <1>2, <1>6, <1>7, <1>8 DEF Question, Intents
<1>10. slot2 \in Slot /\ slot2.sig = Signed(d) /\ slot2.id = RequestId(d)
  BY <1>4, <1>6, <1>8 DEF Slot
<1>11. /\ memory'[d] \in Memory /\ memory'[d].slot = [memory[d].slot EXCEPT ![k] = slot2]
       /\ memory' \in [Desks -> Memory] /\ \A e \in Desks \ {d} : memory'[e] = memory[e]
  <2>1. [memory[d].slot EXCEPT ![k] = slot2] \in [Kinds -> Slot]
    BY <1>7, <1>10 DEF Memory
  <2>2. PICK s : s = [memory[d].slot EXCEPT ![k] = slot2]
    OBVIOUS
  <2>3. PICK x : x = [memory[d] EXCEPT !.slot = s]
    OBVIOUS
  <2>4. x \in Memory /\ x.slot = s
    BY <1>7, <2>1, <2>2, <2>3 DEF Memory
  <2>5. memory' = [memory EXCEPT ![d] = x]
    BY <1>5, <2>2, <2>3
  <2> QED
    BY <1>1, <2>2, <2>4, <2>5 DEF DesksTyped
<1>12. LedgerOK'
  BY <1>1, <1>5, LedgerStays DEF LedgerOK, LedgerTyped
<1>13. DesksTyped'
  BY <1>1, <1>5, <1>9, <1>11, CreditAssumption DEF DesksTyped
<1>14. Signed(d)' = Signed(d) /\ Slotted(d)' = slot2
  BY <1>3, <1>5, <1>7, <1>11 DEF Signed, Topping, Slotted, Memory
<1>15. Holders(d)' \subseteq Holders(d) \cup {q} /\ dialog'[d] = q
  BY <1>1, <1>5, <1>9 DEF DesksTyped, Holders, HoldersOf
<1>16. DeskOK(d)'
  <2>1. Whole(ops'[d], memory'[d].slot)
    <3>1. Whole(ops[d], memory[d].slot)
      BY <1>1 DEF DeskOK
    <3>2. \A x \in Kinds : memory'[d].slot[x] = IF x = k THEN slot2 ELSE memory[d].slot[x]
      BY <1>7, <1>11 DEF Memory
    <3> QED
      BY <1>5, <1>8, <1>10, <3>1, <3>2 DEF Whole
  <2>2. Sourced(DOMAIN moves', sources'[d], Holders(d)')
    <3>1. Signed(d).source \in DOMAIN moves \cup {None}
      BY <1>1, <1>5 DEF Complete, Signed, DeskOK, Sourced
    <3> QED
      BY <1>1, <1>5, <1>9, <1>15, <3>1 DEF DeskOK, Sourced
  <2>3. Tied(Holders(d)', moves', claims', d, intent'[d], Slotted(d)', Signed(d)')
    <3>1. PICK H, m, c, n, slot, signed :
             /\ H = Holders(d) /\ m = moves /\ c = claims /\ n = intent[d]
             /\ slot = Slotted(d) /\ signed = Signed(d)
      OBVIOUS
    <3>2. /\ Tied(H, m, c, d, n, slot, signed) /\ (\A h \in H : h.intent \in Intents) /\ n \in Nat
          /\ q.intent = <<d, n>> /\ (slot.sig = signed => q.id = slot.id)
          /\ slot2.sig = signed /\ slot2.id = q.id /\ q.id \in Ids
      BY <1>1, <1>7, <1>8, <1>9, <1>10, <3>1, HoldersTyped DEF DeskOK
    <3>3. Tied(H \cup {q}, m, c, d, n, slot2, signed)
      BY <3>2, TiedSubmit
    <3>4. PICK G : G = Holders(d)' /\ G \subseteq H \cup {q}
      BY <1>15, <3>1
    <3>5. Tied(G, m, c, d, n, slot2, signed)
      BY <3>3, <3>4 DEF Tied
    <3> QED
      BY <1>5, <1>14, <3>1, <3>4, <3>5
  <2> QED
    BY <2>1, <2>2, <2>3 DEF DeskOK
<1>17. ASSUME NEW e \in Desks, e # d PROVE DeskOK(e)'
  <2>1. DeskOK(e) /\ memory'[e] = memory[e] /\ dialog'[e] = dialog[e]
    BY <1>1, <1>5, <1>11, <1>17 DEF IInv, DesksTyped
  <2>2. Holders(e)' = Holders(e) /\ Slotted(e)' = Slotted(e) /\ Signed(e)' = Signed(e)
    BY <1>5, <2>1, SignedSame DEF Holders, SameForm
  <2> QED
    BY <1>5, <2>1, <2>2 DEF DeskOK
<1> QED
  BY <1>12, <1>13, <1>16, <1>17 DEF IInv

-----------------------------------------------------------------------------
(* The initial state. *)

\* The earlier purchases are one of each buyer.
LEMMA BuyersInOrder ==
  /\ SetToSeq(Buyers) \in [1 .. Cardinality(Buyers) -> Buyers]
  /\ Cardinality(Buyers) \in Nat /\ Cardinality(Buyers) <= Cardinality(Indices)
<1>1. IsFiniteSet(Buyers) /\ Cardinality(Buyers) \in Nat /\ Cardinality(Buyers) <= Cardinality(Students)
  BY CreditAssumption, FS_Subset, FS_CardinalityType DEF Buyers
<1>2. \E f \in [1 .. Cardinality(Buyers) -> Buyers] : IsInjective(f)
  <2>1. ExistsBijection(1 .. Cardinality(Buyers), Buyers)
    BY <1>1, FS_CardinalityType
  <2>2. PICK f : f \in Bijection(1 .. Cardinality(Buyers), Buyers)
    BY <2>1 DEF ExistsBijection
  <2> QED
    BY <2>2 DEF Bijection, Injection, IsInjective
<1>3. SetToSeq(Buyers) \in [1 .. Cardinality(Buyers) -> Buyers]
  BY <1>2 DEF SetToSeq
<1> QED
  BY <1>1, <1>3, IndicesAreListed

\* At first nothing is held and nothing was refunded.
LEMMA InitInv == Init => IInv
<1> SUFFICES ASSUME Init PROVE IInv
  OBVIOUS
<1> USE DEF Init
<1>1. PICK n \in Nat : n = Cardinality(Buyers) /\ n <= Cardinality(Indices)
  BY BuyersInOrder
<1>2. DOMAIN moves = 1 .. n /\ moves = [i \in 1 .. n |-> Earlier(SetToSeq(Buyers)[i])]
  BY <1>1, BuyersInOrder
<1>3. \A i \in 1 .. n : SetToSeq(Buyers)[i] \in Students
  BY <1>1, BuyersInOrder DEF Buyers
<1>4. \A s \in Students : Earlier(s) \in Entry /\ Earlier(s).credits \in Nat
                          /\ Earlier(s).source = None /\ Earlier(s).intent = None
  BY CreditAssumption DEF Earlier, Entry
<1>5. \A i \in DOMAIN moves : moves[i] \in Entry /\ moves[i].credits \in Nat
                              /\ moves[i].source = None /\ moves[i].intent = None
  BY <1>2, <1>3, <1>4
<1>6. LedgerTyped
  <2>1. moves \in Seq(Entry) /\ Len(moves) = n
    <3>1. moves \in [1 .. n -> Entry]
      BY <1>2, <1>5
    <3> QED
      BY <3>1
  <2>2. balance \in [Students -> Nat] /\ links \in [Students -> SUBSET Accounts] /\ claims \in [Ids -> Digests \cup {None}]
    BY CreditAssumption
  <2> QED
    BY <1>1, <2>1, <2>2 DEF LedgerTyped
<1>7. LedgerOK
  <2>1. OneFormOneMove
    BY <1>5 DEF OneFormOneMove
  <2>2. RefundsWithinPurchase
    <3>1. ASSUME NEW i \in DOMAIN moves
          PROVE  Refunded(i) <= moves[i].credits /\ RefundsOf(i) = {}
      <4>1. i # None
        BY <1>6, MovesHaveIndices, NoneAssumption
      <4>2. RefundsOf(i) = {}
        BY <1>5, <4>1 DEF RefundsOf
      <4>3. Refunded(i) = 0
        BY <1>6, <4>2, MovesAreListed, RefundedIsLeft, LeftNothing
      <4> QED
        BY <1>5, <4>2, <4>3
    <3> QED
      BY <3>1 DEF RefundsWithinPurchase
  <2> QED
    BY <1>5, <1>6, <2>1, <2>2 DEF LedgerOK
<1>8. DesksTyped
  <2>1. Blank \in Form /\ NoPicker \in Choice
    BY DEF Blank, Form, NoPicker, Choice, Kinds
  <2>2. [slot |-> [k \in Kinds |-> [sig |-> None, id |-> None]], account |-> None] \in Memory
    BY DEF Memory, Slot
  <2> QED
    BY <2>1, <2>2, CreditAssumption DEF DesksTyped
<1>9. ASSUME NEW d \in Desks PROVE DeskOK(d)
  <2>1. Holders(d) = {} /\ ops[d] = {} /\ sources[d] = {}
    BY DEF Holders, HoldersOf
  <2>2. \A k \in Kinds : memory[d].slot[k].sig = None
    OBVIOUS
  <2> QED
    BY <1>5, <2>1, <2>2 DEF DeskOK, Whole, Sourced, Tied
<1> QED
  BY <1>7, <1>8, <1>9 DEF IInv

-----------------------------------------------------------------------------
(* The theorems about bought credits. *)

\* A step that changes nothing.
LEMMA StutterKeeps == ASSUME IInv, UNCHANGED vars PROVE IInv'
<1>1. UNCHANGED <<balance, moves, claims, links, form, picker, lookups, sources, intent, memory, busy, dialog, ops, sent>>
  BY DEF vars, server, screen
<1>2. LedgerOK'
  BY <1>1, LedgerStays DEF IInv, LedgerOK, LedgerTyped
<1>3. DesksTyped'
  BY <1>1 DEF IInv, DesksTyped
<1>4. ASSUME NEW d \in Desks PROVE DeskOK(d)'
  <2>1. Holders(d)' = Holders(d) /\ Slotted(d)' = Slotted(d) /\ Signed(d)' = Signed(d)
    BY <1>1, SignedSame DEF Holders, SameForm
  <2>2. DeskOK(d)
    BY DEF IInv
  <2> QED
    BY <1>1, <2>1, <2>2 DEF DeskOK
<1> QED
  BY <1>2, <1>3, <1>4 DEF IInv

\* Every step keeps the invariant.
LEMMA NextKeeps == IInv /\ [Next]_vars => IInv'
<1> SUFFICES ASSUME IInv, [Next]_vars PROVE IInv'
  OBVIOUS
<1>1. ASSUME NEW d \in Desks, Answer(d) PROVE IInv'
  <2>1. ASSUME NEW l \in lookups[d], LookupArrives(d, l) \/ LookupFails(d, l) PROVE IInv'
    BY <2>1, LookupArrivesKeeps, LookupFailsKeeps
  <2>2. ASSUME NEW op \in ops[d],
               \/ ServeAccount(d, op) \/ ServeBooking(d, op) \/ LoadEnds(d, op)
               \/ CallFails(d, op) \/ ServeAdrift(d, op)
        PROVE  IInv'
    BY <2>2, ServeAccountKeeps, ServeBookingKeeps, LoadEndsKeeps, CallFailsKeeps, ServeAdriftKeeps
  <2> QED
    BY <1>1, <2>1, <2>2 DEF Answer
<1>2. ASSUME NEW d \in Desks, Person(d) PROVE IInv'
  <2>1. ASSUME NEW s \in Students, ChooseStudent(d, s) PROVE IInv'
    BY <2>1, ChooseStudentKeeps
  <2>2. ASSUME NEW p \in Packs, ChoosePack(d, p) PROVE IInv'
    BY <2>2, ChoosePackKeeps
  <2>3. ASSUME NEW p \in Packs, NEW src \in sources[d], ChooseSource(d, src, p) PROVE IInv'
    BY <2>3, ChooseSourceKeeps
  <2>4. ASSUME NEW mode \in Kinds, ChooseMode(d, mode) PROVE IInv'
    BY <2>4, ChooseModeKeeps
  <2>5. ASSUME NEW a \in Accounts \cup {New}, PickPayer(d, a) PROVE IInv'
    BY <2>5, PickPayerKeeps
  <2>6. ASSUME TickInvoice(d) \/ Submit(d) \/ Cancel(d) \/ Confirm(d) PROVE IInv'
    BY <2>6, TickInvoiceKeeps, SubmitKeeps, CancelKeeps, ConfirmKeeps
  <2> QED
    BY <1>2, <2>1, <2>2, <2>3, <2>4, <2>5, <2>6 DEF Person
<1>3. ASSUME NEW d \in Desks, Reconnect(d) PROVE IInv'
  BY <1>3, ReconnectKeeps
<1>4. ASSUME NEW s \in Students, Attend(s) PROVE IInv'
  BY <1>4, AttendKeeps
<1> QED
  BY <1>1, <1>2, <1>3, <1>4, StutterKeeps DEF Next

\* The invariant holds in every state that the desks and the two routes can reach.
THEOREM Invariance == Spec => []IInv
  BY InitInv, NextKeeps, PTL DEF Spec

\* The form, its requests and the ledger keep their shape, and no refund or check-in takes an
\* account below zero credits.
THEOREM TypeCorrect == Spec => []TypeOK
<1>1. IInv => TypeOK
  <2> SUFFICES ASSUME IInv PROVE TypeOK
    OBVIOUS
  <2>1. LedgerTyped /\ DesksTyped
    BY DEF IInv, LedgerOK
  <2>2. ASSUME NEW d \in Desks
        PROVE  /\ form[d].student \in Students \cup {None} /\ form[d].pack \in Packs \cup {None}
               /\ picker[d] \in [known : SUBSET Accounts, payer : Accounts \cup {New, None}]
               /\ dialog[d] # None => dialog[d].sig \in Signature
               /\ \A op \in ops[d] : op.sig \in Signature \cup {None} /\ op.id \in Ids \cup {None}
               /\ busy[d] \in BOOLEAN
    <3>1. form[d] \in Form /\ picker[d] \in Choice /\ busy[d] \in BOOLEAN
      BY <2>1 DEF DesksTyped
    <3>2. dialog[d] # None => dialog[d] \in Question
      BY <2>1 DEF DesksTyped
    <3>3. \A op \in ops[d] : op \in Operation
      BY <2>1 DEF DesksTyped
    <3> QED
      BY <3>1, <3>2, <3>3 DEF Form, Choice, Question, Operation
  <2> QED
    BY <2>1, <2>2 DEF TypeOK, LedgerTyped
<1> QED
  BY <1>1, Invariance, PTL

\* One form of a desk moves credits once, however often it is sent under its request id.
THEOREM FormsAreBookedOnce == Spec => []OneFormOneMove
<1>1. IInv => OneFormOneMove
  BY DEF IInv, LedgerOK
<1> QED
  BY <1>1, Invariance, PTL

\* No purchase is refunded beyond its credits, nor to another student than the one who bought.
THEOREM RefundsStayWithin == Spec => []RefundsWithinPurchase
<1>1. IInv => RefundsWithinPurchase
  BY DEF IInv, LedgerOK
<1> QED
  BY <1>1, Invariance, PTL

-----------------------------------------------------------------------------
(* The inductive invariant of the lessons. *)

Call == [n : Nat, by : Desks \cup {Nothing}, op : {"cancel", "undo", "use"}, day : Days \cup {Nothing},
         id : Nat \cup {Nothing}, at : {"sent", "read", "done"}, grants : BOOLEAN]

\* What a request is about exists, and a credit, once granted, is there for good.
CallsOK ==
    /\ pressed \in Nat
    /\ \A c \in calls : /\ c \in Call
                        /\ c.op # "undo" => c.day \in Days
                        /\ c.op = "use" => c.id \in DOMAIN credit

Apart == \A x, y \in Days : Recorded(x) /\ Recorded(y) /\ change[x].id = change[y].id => x = y

PaidWithACredit == \A day \in Days : IsMakeup(day) => change[day].credit \in DOMAIN credit

UnspentIsUnused == \A c \in DOMAIN credit :
    credit[c].booked <= 1 /\ (credit[c].status = "available" => credit[c].booked = 0)

ServerOK ==
    /\ RecordsOK /\ Apart /\ PaidWithACredit /\ UnspentIsUnused
    /\ MakeupsArePaidFor /\ CreditsGoWithAbsences

LessonInv == ServerOK /\ CallsOK

\* At first nothing is recorded.
LEMMA LessonInit == Lesson!Init => LessonInv
  BY RecordsAssumption
     DEF Lesson!Init, LessonInv, ServerOK, CallsOK, RecordsOK, Apart, PaidWithACredit, UnspentIsUnused,
     MakeupsArePaidFor, CreditsGoWithAbsences, Recorded, IsMakeup, There

-----------------------------------------------------------------------------
(* What a request does to the records. *)

\* The requests see what is recorded here.
LEMMA SameRecords == \A day : Lesson!Recorded(day) <=> Recorded(day)
  BY DEF Lesson!Recorded, Recorded

\* The invariant of the server says nothing of anything else.
LEMMA ServerAlone == ServerOK /\ UNCHANGED Lesson!server => ServerOK'
<1> SUFFICES ASSUME ServerOK, UNCHANGED Lesson!server PROVE ServerOK'
  OBVIOUS
<1>1. change' = change /\ recorded' = recorded /\ credit' = credit
  BY DEF Lesson!server
<1>2. /\ \A day \in Days : (Recorded(day)' <=> Recorded(day)) /\ (IsMakeup(day)' <=> IsMakeup(day))
      /\ \A id : There(id)' <=> There(id)
  BY <1>1 DEF Recorded, IsMakeup, There
<1>3. RecordsOK'
  BY <1>1, <1>2 DEF ServerOK, RecordsOK
<1>4. (Apart /\ PaidWithACredit /\ UnspentIsUnused)'
  BY <1>1, <1>2 DEF ServerOK, Apart, PaidWithACredit, UnspentIsUnused
<1>5. (MakeupsArePaidFor /\ CreditsGoWithAbsences)'
  BY <1>1, <1>2 DEF ServerOK, MakeupsArePaidFor, CreditsGoWithAbsences
<1> QED BY <1>3, <1>4, <1>5 DEF ServerOK

\* A new absence has an id that no other change has, and a credit that no other has.
LEMMA AbsenceKeeps ==
    ASSUME NEW c \in calls, LessonInv, Lesson!RecordAbsence(c)
    PROVE  ServerOK' /\ DOMAIN credit \subseteq DOMAIN credit'
<1>1. CASE UNCHANGED Lesson!server
  BY <1>1, ServerAlone DEF LessonInv, Lesson!server
<1>2. CASE /\ ~Recorded(c.day) /\ recorded < MaxChanges
           /\ recorded' = recorded + 1
           /\ change' = [change EXCEPT ![c.day] = [id |-> recorded + 1, kind |-> "absence",
                  credit |-> IF c.grants THEN Len(credit) + 1 ELSE Nothing]]
           /\ credit' = IF c.grants THEN Lesson!Granted(recorded + 1) ELSE credit
  <2> DEFINE new == [id |-> recorded + 1, kind |-> "absence",
                     credit |-> IF c.grants THEN Len(credit) + 1 ELSE Nothing]
  <2> DEFINE owed == [from |-> recorded + 1, status |-> "available", lesson |-> Nothing,
                      expired |-> FALSE, booked |-> 0]
  <2>1. recorded' = recorded + 1
    BY <1>2
  <2>2. /\ c.day \in Days /\ recorded \in Nat /\ MaxChanges \in Nat /\ recorded + 1 \in ChangeIds
        /\ change \in [Days -> {Nothing} \cup Change] /\ credit \in Seq(Credit) /\ Nothing \notin Change
    BY <1>2, RecordsAssumption DEF LessonInv, ServerOK, RecordsOK, CallsOK, Lesson!RecordAbsence, ChangeIds
  <2>3. new \in Change /\ new # Nothing /\ owed \in Credit
    BY <2>2 DEF Change, Credit
  <2>4. change' = [change EXCEPT ![c.day] = new]
    BY <1>2
  <2>5. /\ change'[c.day] = new /\ change' \in [Days -> {Nothing} \cup Change]
        /\ \A day \in Days : day # c.day => change'[day] = change[day]
    BY <2>2, <2>3, <2>4
  <2> HIDE DEF new, owed
  <2>6. /\ credit' \in Seq(Credit) /\ DOMAIN credit \subseteq DOMAIN credit'
        /\ \A k \in DOMAIN credit : credit'[k] = credit[k]
        /\ \A k \in DOMAIN credit' \ DOMAIN credit : c.grants /\ k = Len(credit) + 1 /\ credit'[k] = owed
        /\ c.grants => Len(credit) + 1 \in DOMAIN credit' \ DOMAIN credit
    BY <1>2, <2>2, <2>3 DEF Lesson!Granted, owed
  <2>7. \A day \in Days : Recorded(day) => Recorded(day)' /\ change'[day] = change[day] /\ day # c.day
    BY <1>2, <2>5 DEF Recorded
  <2>8. \A day \in Days : Recorded(day)' => day = c.day \/ (Recorded(day) /\ change'[day] = change[day])
    BY <2>5 DEF Recorded
  <2>9. \A id : There(id) => There(id)'
    BY <2>7 DEF There
  <2>10. \E day \in Days : Recorded(day)' /\ change'[day].id = recorded + 1
    BY <2>2, <2>3, <2>5 DEF Recorded, new
  <2>11. RecordsOK'
    <3>1. recorded' \in 0 .. MaxChanges
      BY <1>2, <2>2
    <3>2. ASSUME NEW day \in Days, Recorded(day)'
          PROVE change'[day].id <= recorded' /\ change'[day].credit \in {Nothing} \cup DOMAIN credit'
      <4>1. CASE day = c.day
        BY <4>1, <2>1, <2>2, <2>5, <2>6 DEF new
      <4>2. CASE Recorded(day) /\ change'[day] = change[day]
        <5>1. change[day] \in Change
          BY <4>2, <2>2 DEF Recorded
        <5> QED BY <4>2, <5>1, <2>1, <2>2, <2>6 DEF LessonInv, ServerOK, RecordsOK, Change, ChangeIds
      <4> QED BY <3>2, <2>8, <4>1, <4>2
    <3>3. ASSUME NEW k \in DOMAIN credit', NEW id \in {credit'[k].from, credit'[k].lesson}, id # Nothing
          PROVE There(id)'
      <4>1. CASE k \in DOMAIN credit
        BY <3>3, <4>1, <2>6, <2>9 DEF LessonInv, ServerOK, RecordsOK
      <4>2. CASE k \notin DOMAIN credit
        BY <3>3, <4>2, <2>6, <2>10 DEF owed, There
      <4> QED BY <4>1, <4>2
    <3> QED BY <2>5, <2>6, <3>1, <3>2, <3>3 DEF RecordsOK
  <2>12. Apart'
    <3> SUFFICES ASSUME NEW x \in Days, NEW y \in Days, Recorded(x)', Recorded(y)',
                        change'[x].id = change'[y].id
                 PROVE x = y
      BY DEF Apart
    <3>1. \A day \in Days : Recorded(day) => change[day].id # recorded + 1
      BY <2>2 DEF LessonInv, ServerOK, RecordsOK, Change, ChangeIds
    <3>2. change'[c.day].id = recorded + 1
      BY <2>5 DEF new
    <3> QED BY <2>8, <3>1, <3>2 DEF LessonInv, ServerOK, Apart
  <2>13. UnspentIsUnused'
    BY <2>6 DEF LessonInv, ServerOK, UnspentIsUnused, owed
  <2>14. PaidWithACredit' /\ MakeupsArePaidFor'
    <3> SUFFICES ASSUME NEW day \in Days, IsMakeup(day)'
                 PROVE /\ change'[day].credit \in DOMAIN credit'
                       /\ credit'[change'[day].credit].status = "consumed"
                       /\ credit'[change'[day].credit].lesson = change'[day].id
      BY DEF MakeupsArePaidFor, PaidWithACredit
    <3>1. IsMakeup(day) /\ change'[day] = change[day]
      BY <2>5, <2>8 DEF IsMakeup, Recorded, new
    <3>2. change[day].credit \in DOMAIN credit
      BY <3>1 DEF LessonInv, ServerOK, PaidWithACredit
    <3> QED BY <3>1, <3>2, <2>6 DEF LessonInv, ServerOK, MakeupsArePaidFor
  <2>15. CreditsGoWithAbsences'
    <3>1. ASSUME NEW k \in DOMAIN credit', credit'[k].status = "available"
          PROVE \E day \in Days : change'[day] = [id |-> credit'[k].from, kind |-> "absence", credit |-> k]
                                  /\ Recorded(day)'
      <4>1. CASE k \in DOMAIN credit
        <5>1. PICK day \in Days :
                  Recorded(day) /\ change[day] = [id |-> credit[k].from, kind |-> "absence", credit |-> k]
          BY <3>1, <4>1, <2>6 DEF LessonInv, ServerOK, CreditsGoWithAbsences
        <5> QED BY <4>1, <5>1, <2>6, <2>7
      <4>2. CASE k \notin DOMAIN credit
        BY <3>1, <4>2, <2>2, <2>3, <2>5, <2>6 DEF new, owed, Recorded
      <4> QED BY <4>1, <4>2
    <3>2. ASSUME NEW day \in Days, Recorded(day)', change'[day].kind = "absence", change'[day].credit # Nothing
          PROVE /\ credit'[change'[day].credit].status \in {"available", "consumed"}
                /\ credit'[change'[day].credit].from = change'[day].id
      <4>1. CASE day = c.day
        BY <3>2, <4>1, <2>5, <2>6 DEF new, owed
      <4>2. CASE Recorded(day) /\ change'[day] = change[day]
        <5>1. change[day].credit \in DOMAIN credit
          BY <3>2, <4>2 DEF LessonInv, ServerOK, RecordsOK
        <5> QED BY <3>2, <4>2, <5>1, <2>6 DEF LessonInv, ServerOK, CreditsGoWithAbsences
      <4> QED BY <3>2, <2>8, <4>1, <4>2
    <3> QED BY <3>1, <3>2 DEF CreditsGoWithAbsences
  <2> QED BY <2>6, <2>11, <2>12, <2>13, <2>14, <2>15 DEF ServerOK
<1> QED BY <1>1, <1>2, SameRecords DEF Lesson!RecordAbsence, Lesson!Refuse

\* What becomes of the credits when a change is undone.
LEMMA UndoneCredits ==
    ASSUME NEW id, credit \in Seq(Credit)
    PROVE  LET cs == Lesson!Unlinked(Lesson!Withdrawn(id), id)
           IN /\ cs \in Seq(Credit) /\ DOMAIN cs = DOMAIN credit
              /\ \A k \in DOMAIN credit :
                    /\ cs[k].from = IF credit[k].from = id THEN Nothing ELSE credit[k].from
                    /\ cs[k].lesson = IF credit[k].lesson = id THEN Nothing ELSE credit[k].lesson
                    /\ cs[k].status = IF credit[k].from = id /\ credit[k].status = "available"
                                      THEN "cancelled" ELSE credit[k].status
                    /\ cs[k].booked = credit[k].booked
<1> DEFINE ws == Lesson!Withdrawn(id)
<1> DEFINE cs == Lesson!Unlinked(ws, id)
<1>1. \A k \in DOMAIN credit : credit[k] \in Credit
  OBVIOUS
<1>2. DOMAIN credit = 1 .. Len(credit) /\ Len(credit) \in Nat
  OBVIOUS
<1>3. /\ DOMAIN ws = DOMAIN credit
      /\ \A k \in DOMAIN credit :
            /\ ws[k] \in Credit
            /\ ws[k].from = credit[k].from /\ ws[k].lesson = credit[k].lesson
            /\ ws[k].booked = credit[k].booked
            /\ ws[k].status = IF credit[k].from = id /\ credit[k].status = "available"
                              THEN "cancelled" ELSE credit[k].status
  BY <1>1 DEF Lesson!Withdrawn, Credit
<1> HIDE DEF ws
<1>4. /\ DOMAIN cs = DOMAIN credit
      /\ \A k \in DOMAIN credit :
            /\ cs[k] \in Credit
            /\ cs[k].from = IF ws[k].from = id THEN Nothing ELSE ws[k].from
            /\ cs[k].lesson = IF ws[k].lesson = id THEN Nothing ELSE ws[k].lesson
            /\ cs[k].booked = ws[k].booked /\ cs[k].status = ws[k].status
  BY <1>3 DEF Lesson!Unlinked, Credit
<1>5. cs = [k \in 1 .. Len(credit) |-> cs[k]]
  BY <1>2, <1>3 DEF Lesson!Unlinked
<1> HIDE DEF cs
<1>6. cs \in Seq(Credit)
  BY <1>2, <1>4, <1>5
<1> QED BY <1>3, <1>4, <1>6 DEF cs, ws

\* An undone change was the only one with its id, so nothing else is unlinked from its credit.
LEMMA UndoKeeps ==
    ASSUME NEW c \in calls, LessonInv, Lesson!UndoChange(c)
    PROVE  ServerOK' /\ DOMAIN credit \subseteq DOMAIN credit'
<1>1. CASE UNCHANGED Lesson!server
  BY <1>1, ServerAlone DEF LessonInv, Lesson!server
<1>2. ASSUME NEW gone \in Days, Recorded(gone), change[gone].id = c.id,
             change' = [change EXCEPT ![gone] = Nothing],
             credit' = Lesson!Unlinked(Lesson!Withdrawn(c.id), c.id), recorded' = recorded
      PROVE  ServerOK' /\ DOMAIN credit \subseteq DOMAIN credit'
  <2>1. /\ change \in [Days -> {Nothing} \cup Change] /\ credit \in Seq(Credit) /\ Nothing \notin Change
        /\ Nothing \notin ChangeIds
    BY RecordsAssumption DEF LessonInv, ServerOK, RecordsOK, ChangeIds
  <2>2. change[gone] \in Change /\ c.id \in ChangeIds
    BY <1>2, <2>1 DEF Recorded, Change
  <2>3. /\ credit' \in Seq(Credit) /\ DOMAIN credit' = DOMAIN credit
        /\ \A k \in DOMAIN credit :
              /\ credit'[k].from = IF credit[k].from = c.id THEN Nothing ELSE credit[k].from
              /\ credit'[k].lesson = IF credit[k].lesson = c.id THEN Nothing ELSE credit[k].lesson
              /\ credit'[k].status = IF credit[k].from = c.id /\ credit[k].status = "available"
                                     THEN "cancelled" ELSE credit[k].status
              /\ credit'[k].booked = credit[k].booked
    BY <1>2, <2>1, UndoneCredits
  <2>4. /\ change' \in [Days -> {Nothing} \cup Change] /\ change'[gone] = Nothing
        /\ \A day \in Days : day # gone => change'[day] = change[day]
    BY <1>2, <2>1
  <2>5. \A day \in Days : Recorded(day)' => /\ day # gone /\ Recorded(day) /\ change'[day] = change[day]
                                           /\ change[day].id # c.id /\ change[day] \in Change
    BY <1>2, <2>1, <2>4 DEF LessonInv, ServerOK, Apart, Recorded
  <2>6. \A day \in Days : Recorded(day) /\ change[day].id # c.id => Recorded(day)' /\ change'[day] = change[day]
    BY <1>2, <2>4 DEF Recorded
  <2>7. RecordsOK'
    <3>1. \A day \in Days : Recorded(day)' =>
              change'[day].id <= recorded' /\ change'[day].credit \in {Nothing} \cup DOMAIN credit'
      BY <1>2, <2>3, <2>5 DEF LessonInv, ServerOK, RecordsOK
    <3>2. ASSUME NEW k \in DOMAIN credit', NEW id \in {credit'[k].from, credit'[k].lesson}, id # Nothing
          PROVE There(id)'
      <4>1. id \in {credit[k].from, credit[k].lesson} /\ id # c.id
        BY <3>2, <2>3
      <4>2. There(id)
        BY <3>2, <4>1, <2>3 DEF LessonInv, ServerOK, RecordsOK
      <4> QED BY <4>1, <4>2, <2>6 DEF There
    <3> QED BY <1>2, <2>3, <2>4, <3>1, <3>2 DEF LessonInv, ServerOK, RecordsOK
  <2>8. Apart' /\ PaidWithACredit'
    BY <2>3, <2>5 DEF LessonInv, ServerOK, Apart, PaidWithACredit, IsMakeup
  <2>9. UnspentIsUnused'
    BY <2>3 DEF LessonInv, ServerOK, UnspentIsUnused
  <2>10. MakeupsArePaidFor'
    <3> SUFFICES ASSUME NEW day \in Days, IsMakeup(day)'
                 PROVE /\ credit'[change'[day].credit].status = "consumed"
                       /\ credit'[change'[day].credit].lesson = change'[day].id
      BY DEF MakeupsArePaidFor
    <3>1. IsMakeup(day) /\ change'[day] = change[day] /\ change[day].id # c.id
      BY <2>5 DEF IsMakeup
    <3>2. change[day].credit \in DOMAIN credit
      BY <3>1 DEF LessonInv, ServerOK, PaidWithACredit
    <3> QED BY <3>1, <3>2, <2>3 DEF LessonInv, ServerOK, MakeupsArePaidFor
  <2>11. CreditsGoWithAbsences'
    <3>1. ASSUME NEW k \in DOMAIN credit', credit'[k].status = "available"
          PROVE \E day \in Days : /\ Recorded(day)'
                                  /\ change'[day] = [id |-> credit'[k].from, kind |-> "absence", credit |-> k]
      <4>1. k \in DOMAIN credit /\ credit[k].status = "available" /\ credit[k].from # c.id
        BY <3>1, <2>3
      <4>2. PICK day \in Days :
                Recorded(day) /\ change[day] = [id |-> credit[k].from, kind |-> "absence", credit |-> k]
        BY <4>1 DEF LessonInv, ServerOK, CreditsGoWithAbsences
      <4> QED BY <4>1, <4>2, <2>3, <2>6
    <3>2. ASSUME NEW day \in Days, Recorded(day)', change'[day].kind = "absence", change'[day].credit # Nothing
          PROVE /\ credit'[change'[day].credit].status \in {"available", "consumed"}
                /\ credit'[change'[day].credit].from = change'[day].id
      <4>1. Recorded(day) /\ change'[day] = change[day] /\ change[day].id # c.id
        BY <3>2, <2>5
      <4>2. change[day].credit \in DOMAIN credit
        BY <3>2, <4>1 DEF LessonInv, ServerOK, RecordsOK
      <4> QED BY <3>2, <4>1, <4>2, <2>3 DEF LessonInv, ServerOK, CreditsGoWithAbsences
    <3> QED BY <3>1, <3>2 DEF CreditsGoWithAbsences
  <2> QED BY <2>3, <2>7, <2>8, <2>9, <2>10, <2>11 DEF ServerOK
<1> QED BY <1>1, <1>2, SameRecords DEF Lesson!UndoChange, Lesson!Refuse

\* A booking spends a credit that no lesson was paid with, on a change with a new id.
LEMMA BookingKeeps ==
    ASSUME NEW c \in calls, LessonInv, Lesson!BookMakeup(c)
    PROVE  ServerOK' /\ DOMAIN credit \subseteq DOMAIN credit'
<1>1. CASE UNCHANGED Lesson!server
  BY <1>1, ServerAlone DEF LessonInv, Lesson!server
<1>2. CASE /\ Lesson!Spendable(c.id) /\ ~Recorded(c.day) /\ recorded < MaxChanges
           /\ recorded' = recorded + 1
           /\ change' = [change EXCEPT ![c.day] = [id |-> recorded + 1, kind |-> "makeup", credit |-> c.id]]
           /\ credit' = [credit EXCEPT ![c.id].status = "consumed",
                  ![c.id].lesson = recorded + 1, ![c.id].booked = @ + 1]
  <2> DEFINE new == [id |-> recorded + 1, kind |-> "makeup", credit |-> c.id]
  <2>1. /\ c.day \in Days /\ c.id \in DOMAIN credit /\ recorded \in Nat /\ recorded + 1 \in ChangeIds
        /\ change \in [Days -> {Nothing} \cup Change] /\ credit \in Seq(Credit) /\ Nothing \notin Change
        /\ recorded' = recorded + 1 /\ recorded' \in 0 .. MaxChanges
    BY <1>2, RecordsAssumption DEF LessonInv, ServerOK, RecordsOK, CallsOK, Lesson!BookMakeup, ChangeIds
  <2>2. new \in Change /\ new # Nothing
    BY <2>1 DEF Change
  <2>3. /\ change'[c.day] = new /\ change' \in [Days -> {Nothing} \cup Change]
        /\ \A day \in Days : day # c.day => change'[day] = change[day]
    BY <1>2, <2>1, <2>2
  <2> HIDE DEF new
  <2>4. /\ credit[c.id] \in Credit /\ credit[c.id].status = "available" /\ credit[c.id].booked = 0
    BY <1>2, <2>1 DEF Lesson!Spendable, LessonInv, ServerOK, UnspentIsUnused
  <2>5. /\ DOMAIN credit' = DOMAIN credit
        /\ \A k \in DOMAIN credit : k # c.id => credit'[k] = credit[k]
        /\ credit'[c.id] = [credit[c.id] EXCEPT !.status = "consumed", !.lesson = recorded + 1,
                                                !.booked = credit[c.id].booked + 1]
    BY <1>2, <2>1
  <2>6. /\ credit'[c.id] \in Credit /\ credit'[c.id].status = "consumed"
        /\ credit'[c.id].lesson = recorded + 1 /\ credit'[c.id].from = credit[c.id].from
        /\ credit'[c.id].booked = 1
    <3>1. credit'[c.id] = [credit[c.id] EXCEPT !.status = "consumed", !.lesson = recorded + 1, !.booked = 1]
      BY <2>4, <2>5
    <3>2. credit'[c.id] = [from |-> credit[c.id].from, status |-> "consumed", lesson |-> recorded + 1,
                           expired |-> credit[c.id].expired, booked |-> 1]
      BY <3>1, <2>4 DEF Credit
    <3>3. credit[c.id].from \in {Nothing} \cup ChangeIds /\ credit[c.id].expired \in BOOLEAN
      BY <2>4 DEF Credit
    <3>4. credit'[c.id] \in Credit
      BY <3>2, <3>3, <2>1 DEF Credit
    <3> QED BY <3>2, <3>4
  <2>7. credit' \in Seq(Credit)
    BY <1>2, <2>1, <2>5, <2>6
  <2>8. \A day \in Days : Recorded(day) => Recorded(day)' /\ change'[day] = change[day] /\ day # c.day
    BY <1>2, <2>3 DEF Recorded
  <2>9. \A day \in Days : Recorded(day)' =>
            day = c.day \/ (Recorded(day) /\ change'[day] = change[day] /\ change[day] \in Change)
    BY <2>1, <2>3 DEF Recorded
  <2>10. new.id = recorded + 1 /\ new.credit = c.id /\ new.kind = "makeup"
    BY DEF new
  <2>11. RecordsOK'
    <3>1. ASSUME NEW day \in Days, Recorded(day)'
          PROVE change'[day].id <= recorded' /\ change'[day].credit \in {Nothing} \cup DOMAIN credit'
      <4>1. CASE day = c.day
        BY <4>1, <2>1, <2>3, <2>5, <2>10
      <4>2. CASE Recorded(day) /\ change'[day] = change[day] /\ change[day] \in Change
        BY <4>2, <2>1, <2>5 DEF LessonInv, ServerOK, RecordsOK, Change, ChangeIds
      <4> QED BY <3>1, <2>9, <4>1, <4>2
    <3>2. ASSUME NEW k \in DOMAIN credit', NEW id \in {credit'[k].from, credit'[k].lesson}, id # Nothing
          PROVE There(id)'
      <4>1. CASE id \in {credit[k].from, credit[k].lesson}
        <5>1. There(id)
          BY <3>2, <4>1, <2>5 DEF LessonInv, ServerOK, RecordsOK
        <5> QED BY <5>1, <2>8 DEF There
      <4>2. CASE id = recorded + 1
        <5>1. Recorded(c.day)' /\ change'[c.day].id = id
          BY <4>2, <2>1, <2>2, <2>3, <2>10 DEF Recorded
        <5> QED BY <5>1, <2>1 DEF There
      <4> QED BY <3>2, <4>1, <4>2, <2>5, <2>6
    <3> QED BY <2>1, <2>3, <2>7, <3>1, <3>2 DEF RecordsOK
  <2>12. Apart'
    <3>1. \A day \in Days : Recorded(day) => change[day].id # recorded + 1
      BY <2>1 DEF LessonInv, ServerOK, RecordsOK, Recorded, Change, ChangeIds
    <3> QED BY <2>3, <2>9, <2>10, <3>1 DEF LessonInv, ServerOK, Apart
  <2>13. UnspentIsUnused'
    <3> SUFFICES ASSUME NEW k \in DOMAIN credit
                 PROVE  credit'[k].booked <= 1 /\ (credit'[k].status = "available" => credit'[k].booked = 0)
      BY <2>5 DEF UnspentIsUnused
    <3>1. CASE k = c.id
      BY <3>1, <2>6
    <3>2. CASE k # c.id
      BY <3>2, <2>5 DEF LessonInv, ServerOK, UnspentIsUnused
    <3> QED BY <3>1, <3>2
  <2>14. PaidWithACredit' /\ MakeupsArePaidFor'
    <3> SUFFICES ASSUME NEW day \in Days, IsMakeup(day)'
                 PROVE /\ change'[day].credit \in DOMAIN credit'
                       /\ credit'[change'[day].credit].status = "consumed"
                       /\ credit'[change'[day].credit].lesson = change'[day].id
      BY DEF MakeupsArePaidFor, PaidWithACredit
    <3>1. CASE day = c.day
      BY <3>1, <2>1, <2>3, <2>5, <2>6, <2>10
    <3>2. CASE Recorded(day) /\ change'[day] = change[day]
      <4>1. IsMakeup(day)
        BY <3>2 DEF IsMakeup
      <4>2. /\ change[day].credit \in DOMAIN credit /\ credit[change[day].credit].status = "consumed"
            /\ credit[change[day].credit].lesson = change[day].id
        BY <4>1 DEF LessonInv, ServerOK, PaidWithACredit, MakeupsArePaidFor
      <4>3. change[day].credit # c.id
        BY <4>2, <2>4
      <4> QED BY <3>2, <4>2, <4>3, <2>5
    <3> QED BY <2>9, <3>1, <3>2 DEF IsMakeup
  <2>15. CreditsGoWithAbsences'
    <3>1. ASSUME NEW k \in DOMAIN credit', credit'[k].status = "available"
          PROVE \E day \in Days : /\ Recorded(day)'
                                  /\ change'[day] = [id |-> credit'[k].from, kind |-> "absence", credit |-> k]
      <4>1. k \in DOMAIN credit /\ credit'[k] = credit[k]
        BY <3>1, <2>5, <2>6
      <4>2. PICK day \in Days :
                Recorded(day) /\ change[day] = [id |-> credit[k].from, kind |-> "absence", credit |-> k]
        BY <3>1, <4>1 DEF LessonInv, ServerOK, CreditsGoWithAbsences
      <4> QED BY <4>1, <4>2, <2>8
    <3>2. ASSUME NEW day \in Days, Recorded(day)', change'[day].kind = "absence", change'[day].credit # Nothing
          PROVE /\ credit'[change'[day].credit].status \in {"available", "consumed"}
                /\ credit'[change'[day].credit].from = change'[day].id
      <4>1. Recorded(day) /\ change'[day] = change[day]
        BY <3>2, <2>3, <2>9, <2>10
      <4>2. change[day].credit \in DOMAIN credit
        BY <3>2, <4>1 DEF LessonInv, ServerOK, RecordsOK
      <4>3. credit[change[day].credit].status \in {"available", "consumed"}
            /\ credit[change[day].credit].from = change[day].id
        BY <3>2, <4>1 DEF LessonInv, ServerOK, CreditsGoWithAbsences
      <4> QED BY <4>1, <4>2, <4>3, <2>5, <2>6
    <3> QED BY <3>1, <3>2 DEF CreditsGoWithAbsences
  <2> QED BY <2>5, <2>11, <2>12, <2>13, <2>14, <2>15 DEF ServerOK
<1> QED BY <1>1, <1>2, SameRecords DEF Lesson!BookMakeup, Lesson!Refuse

\* Expiring tells on nothing but what can be booked.
LEMMA ExpiryKeeps == LessonInv /\ Lesson!Expire => ServerOK' /\ DOMAIN credit \subseteq DOMAIN credit'
<1> SUFFICES ASSUME LessonInv, NEW c \in DOMAIN credit, credit' = [credit EXCEPT ![c].expired = TRUE],
                    UNCHANGED <<change, recorded>>
             PROVE  ServerOK' /\ DOMAIN credit \subseteq DOMAIN credit'
  BY DEF Lesson!Expire
<1>1. credit \in Seq(Credit) /\ credit[c] \in Credit
  BY DEF LessonInv, ServerOK, RecordsOK
<1>2. /\ DOMAIN credit' = DOMAIN credit
      /\ credit'[c] = [credit[c] EXCEPT !.expired = TRUE]
      /\ \A k \in DOMAIN credit : k # c => credit'[k] = credit[k]
  BY <1>1
<1>3. /\ credit'[c] \in Credit
      /\ \A k \in DOMAIN credit :
            /\ credit'[k].from = credit[k].from /\ credit'[k].lesson = credit[k].lesson
            /\ credit'[k].status = credit[k].status /\ credit'[k].booked = credit[k].booked
  BY <1>1, <1>2 DEF Credit
<1>4. credit' \in Seq(Credit)
  BY <1>1, <1>2, <1>3
<1>5. /\ \A day \in Days : (Recorded(day)' <=> Recorded(day)) /\ (IsMakeup(day)' <=> IsMakeup(day))
      /\ \A id : There(id)' <=> There(id)
  BY DEF Recorded, IsMakeup, There
<1>6. RecordsOK'
  BY <1>2, <1>3, <1>4, <1>5 DEF LessonInv, ServerOK, RecordsOK
<1>7. (Apart /\ PaidWithACredit /\ UnspentIsUnused)'
  BY <1>2, <1>3, <1>5 DEF LessonInv, ServerOK, Apart, PaidWithACredit, UnspentIsUnused
<1>8. MakeupsArePaidFor'
  BY <1>2, <1>3, <1>5 DEF LessonInv, ServerOK, MakeupsArePaidFor, PaidWithACredit
<1>9. CreditsGoWithAbsences'
  <2>1. \A day \in Days : Recorded(day) => change[day].credit \in {Nothing} \cup DOMAIN credit
    BY DEF LessonInv, ServerOK, RecordsOK
  <2> QED BY <2>1, <1>2, <1>3, <1>5 DEF LessonInv, ServerOK, CreditsGoWithAbsences
<1> QED BY <1>2, <1>6, <1>7, <1>8, <1>9 DEF ServerOK

-----------------------------------------------------------------------------
(* What happens to the requests. *)

\* A request stays about the same thing.
LEMMA CallsStay ==
    ASSUME CallsOK, DOMAIN credit \subseteq DOMAIN credit', pressed' = pressed,
           \A x \in calls' : x \in Call /\ \E y \in calls : x.op = y.op /\ x.day = y.day /\ x.id = y.id
    PROVE  CallsOK'
  BY DEF CallsOK

\* Nobody waits for it any more.
LEMMA AdriftCalls ==
    ASSUME CallsOK, NEW d, NEW x \in Lesson!Adrift(d)
    PROVE  x \in Call /\ \E y \in calls : x.op = y.op /\ x.day = y.day /\ x.id = y.id
<1>1. PICK y \in calls : x = [y EXCEPT !.by = Nothing]
  BY DEF Lesson!Adrift, Lesson!Mine
<1>2. y \in Call
  BY DEF CallsOK
<1> QED BY <1>1, <1>2 DEF Call

\* A request that the server moves on is the same request.
LEMMA MovedCalls ==
    ASSUME CallsOK, DOMAIN credit \subseteq DOMAIN credit', pressed' = pressed, NEW c \in calls,
           NEW at \in {"read", "done"}, NEW grants \in BOOLEAN,
           calls' \subseteq calls \cup {[c EXCEPT !.at = at, !.grants = grants]}
    PROVE  CallsOK'
<1>1. c \in Call
  BY DEF CallsOK
<1>2. [c EXCEPT !.at = at, !.grants = grants] \in Call
  BY <1>1 DEF Call
<1>3. LET x == [c EXCEPT !.at = at, !.grants = grants]
      IN x.op = c.op /\ x.day = c.day /\ x.id = c.id
  BY <1>1 DEF Call
<1>4. \A x \in calls' : x \in Call /\ \E y \in calls : x.op = y.op /\ x.day = y.day /\ x.id = y.id
  BY <1>2, <1>3 DEF CallsOK
<1> QED BY <1>4, CallsStay

\* What a button asks for is about something that is there.
LEMMA SendKeeps ==
    ASSUME CallsOK, NEW d \in Desks, NEW op, NEW day, NEW id, Lesson!Send(d, op, day, id),
           op \in {"cancel", "undo", "use"}, day \in Days \cup {Nothing}, id \in Nat \cup {Nothing},
           op # "undo" => day \in Days, op = "use" => id \in DOMAIN credit
    PROVE  CallsOK'
<1>1. credit' = credit /\ pressed' = pressed + 1
  BY DEF Lesson!Send, Lesson!server
<1>2. PICK x : /\ calls' = calls \cup {x}
               /\ x = [n |-> pressed, by |-> d, op |-> op, day |-> day, id |-> id,
                       at |-> "sent", grants |-> FALSE]
  BY DEF Lesson!Send
<1>3. x \in Call /\ x.op = op /\ x.day = day /\ x.id = id
  BY <1>2 DEF Call, CallsOK
<1>4. pressed' \in Nat
  BY <1>1 DEF CallsOK
<1>5. ASSUME NEW z \in calls'
      PROVE  /\ z \in Call
             /\ z.op # "undo" => z.day \in Days
             /\ z.op = "use" => z.id \in DOMAIN credit
  <2>1. CASE z \in calls
    BY <2>1 DEF CallsOK
  <2>2. CASE z = x
    BY <2>2, <1>3
  <2> QED BY <1>2, <2>1, <2>2
<1> QED BY <1>1, <1>4, <1>5 DEF CallsOK

\* A desk changes no record.
LEMMA DeskKeeps == ASSUME LessonInv, NEW d \in Desks, Lesson!Desk(d) PROVE LessonInv'
<1> USE DEF LessonInv
<1>1. ServerOK' /\ credit' = credit
  <2>1. UNCHANGED Lesson!server
    BY DEF Lesson!Desk, Lesson!Open, Lesson!LoadLessons, Lesson!LoadCredits, Lesson!PressCancel,
           Lesson!PressUndo, Lesson!PressUse, Lesson!Send, Lesson!Answer, Lesson!CallFails
  <2> QED BY <2>1, ServerAlone DEF Lesson!server
<1>2. CASE Lesson!Open(d) \/ Lesson!CallFails(d)
  <2>1. calls' = (calls \ Lesson!Mine(d)) \cup Lesson!Adrift(d) /\ pressed' = pressed
    BY <1>2 DEF Lesson!Open, Lesson!CallFails
  <2>2. \A x \in calls' : x \in Call /\ \E y \in calls : x.op = y.op /\ x.day = y.day /\ x.id = y.id
    BY <2>1, AdriftCalls DEF CallsOK
  <2> QED BY <1>1, <2>1, <2>2, CallsStay
<1>3. CASE Lesson!LoadLessons(d) \/ Lesson!LoadCredits(d) \/ Lesson!Answer(d)
  <2>1. calls' \subseteq calls /\ pressed' = pressed
    BY <1>3 DEF Lesson!LoadLessons, Lesson!LoadCredits, Lesson!Answer
  <2>2. \A x \in calls' : x \in Call /\ \E y \in calls : x.op = y.op /\ x.day = y.day /\ x.id = y.id
    BY <2>1 DEF CallsOK
  <2> QED BY <1>1, <2>1, <2>2, CallsStay
<1>4. CASE Lesson!PressCancel(d)
  <2>1. PICK day \in Days : Lesson!Send(d, "cancel", day, Nothing)
    BY <1>4 DEF Lesson!PressCancel
  <2> QED BY <1>1, <2>1, SendKeeps
<1>5. CASE Lesson!PressUndo(d)
  <2>1. PICK id \in ChangeIds : Lesson!Send(d, "undo", Nothing, id)
    BY <1>5 DEF Lesson!PressUndo, Lesson!ChangeIds, ChangeIds
  <2>2. id \in Nat
    BY RecordsAssumption DEF ChangeIds
  <2> QED BY <1>1, <2>1, <2>2, SendKeeps
<1>6. CASE Lesson!PressUse(d)
  <2>1. PICK c \in DOMAIN credit, day \in Days : Lesson!Send(d, "use", day, c)
    BY <1>6 DEF Lesson!PressUse
  <2>2. c \in Nat
    BY DEF ServerOK, RecordsOK
  <2> QED BY <1>1, <2>1, <2>2, SendKeeps
<1> QED BY <1>2, <1>3, <1>4, <1>5, <1>6 DEF Lesson!Desk

\* A request that is served keeps the invariant.
LEMMA ServeKeeps == ASSUME LessonInv, NEW c \in calls, Lesson!Serve(c) PROVE LessonInv'
<1>1. ServerOK' /\ DOMAIN credit \subseteq DOMAIN credit'
  <2>1. CASE Lesson!ReadForCancel(c) \/ Lesson!ReadForUse(c)
    <3>1. UNCHANGED Lesson!server
      BY <2>1 DEF Lesson!ReadForCancel, Lesson!ReadForUse, Lesson!Refuse
    <3> QED BY <3>1, ServerAlone DEF Lesson!server, LessonInv
  <2> QED BY <2>1, AbsenceKeeps, UndoKeeps, BookingKeeps DEF Lesson!Serve
<1>2. pressed' = pressed
  BY DEF Lesson!Serve, Lesson!ReadForCancel, Lesson!RecordAbsence, Lesson!UndoChange, Lesson!ReadForUse,
         Lesson!BookMakeup
<1>3. c \in Call
  BY DEF LessonInv, CallsOK
<1>4. \E at \in {"read", "done"}, grants \in BOOLEAN :
          calls' \subseteq calls \cup {[c EXCEPT !.at = at, !.grants = grants]}
  <2>1. \A at : [c EXCEPT !.at = at] = [c EXCEPT !.at = at, !.grants = c.grants] /\ c.grants \in BOOLEAN
    BY <1>3 DEF Call
  <2>2. CASE calls' = calls \ {c}
    BY <2>2
  <2>3. CASE \E at \in {"read", "done"} : Lesson!Goes(c, at)
    BY <2>1, <2>3 DEF Lesson!Goes, Lesson!To
  <2>4. CASE \E grants \in BOOLEAN : calls' = Lesson!To(c, [c EXCEPT !.at = "read", !.grants = grants])
    BY <2>4 DEF Lesson!To
  <2> QED BY <2>2, <2>3, <2>4
          DEF Lesson!Serve, Lesson!ReadForCancel, Lesson!RecordAbsence, Lesson!UndoChange,
              Lesson!ReadForUse, Lesson!BookMakeup, Lesson!Refuse
<1>5. PICK at \in {"read", "done"}, grants \in BOOLEAN :
          calls' \subseteq calls \cup {[c EXCEPT !.at = at, !.grants = grants]}
  BY <1>4
<1>6. CallsOK'
  BY <1>1, <1>2, <1>5, MovedCalls DEF LessonInv
<1> QED BY <1>1, <1>6 DEF LessonInv

\* Every step keeps the invariant.
LEMMA LessonNext == LessonInv /\ [Lesson!Next]_Lesson!vars => LessonInv'
<1> SUFFICES ASSUME LessonInv, [Lesson!Next]_Lesson!vars PROVE LessonInv'
  OBVIOUS
<1>1. CASE \E d \in Desks : Lesson!Desk(d)
  BY <1>1, DeskKeeps
<1>2. CASE \E c \in calls : Lesson!Serve(c)
  BY <1>2, ServeKeeps
<1>3. CASE Lesson!SetSeriesStatus \/ Lesson!SetClosure \/ Lesson!ClearClosure \/ UNCHANGED Lesson!vars
  <2>1. UNCHANGED Lesson!server /\ calls' = calls /\ pressed' = pressed
    BY <1>3 DEF Lesson!SetSeriesStatus, Lesson!SetClosure, Lesson!ClearClosure, Lesson!Turn, Lesson!vars
  <2> QED BY <2>1, ServerAlone DEF LessonInv, CallsOK, Lesson!server
<1>4. CASE Lesson!Expire
  <2>1. calls' = calls /\ pressed' = pressed
    BY <1>4 DEF Lesson!Expire
  <2> QED BY <1>4, <2>1, ExpiryKeeps, CallsStay DEF LessonInv, CallsOK
<1> QED BY <1>1, <1>2, <1>3, <1>4 DEF Lesson!Next

-----------------------------------------------------------------------------
(* The theorems about the lessons. *)

\* The invariant holds of every state a studio can reach.
THEOREM LessonInvariance == Lesson!Spec => []LessonInv
  BY LessonInit, LessonNext, PTL DEF Lesson!Spec

\* Changes and credits keep their shape, and no credit names a change that is gone.
THEOREM RecordsCorrect == Lesson!Spec => []RecordsOK
<1>1. LessonInv => RecordsOK
  BY DEF LessonInv, ServerOK
<1> QED BY <1>1, LessonInvariance, PTL

\* No credit is spent on two lessons.
THEOREM CreditsAreSpentOnce == Lesson!Spec => []SpentOnce
<1>1. LessonInv => SpentOnce
  BY DEF LessonInv, ServerOK, UnspentIsUnused, SpentOnce
<1> QED BY <1>1, LessonInvariance, PTL

\* Every make-up lesson was paid with a credit that is gone for it.
THEOREM NoFreeMakeup == Lesson!Spec => []MakeupsArePaidFor
<1>1. LessonInv => MakeupsArePaidFor
  BY DEF LessonInv, ServerOK
<1> QED BY <1>1, LessonInvariance, PTL

\* A credit and the absence that granted it are recorded, and taken back, together.
THEOREM CreditsAreExplained == Lesson!Spec => []CreditsGoWithAbsences
<1>1. LessonInv => CreditsGoWithAbsences
  BY DEF LessonInv, ServerOK
<1> QED BY <1>1, LessonInvariance, PTL
=============================================================================
