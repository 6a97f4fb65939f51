------------------------- MODULE TeachingPay_proofs -------------------------
(***************************************************************************)
(* Proofs about TeachingPay, for any workers, sessions, periods (whatever  *)
(* they cover, overlapping or not) and amounts.                            *)
(*                                                                         *)
(* IndInv is inductive: a lemma for the statement that begins a            *)
(* transaction, one for the end of a transaction, one for a visited row,   *)
(* then one for each action.  The four theorems at the end follow.         *)
(***************************************************************************)
EXTENDS TeachingPay, TLAPS

-----------------------------------------------------------------------------
(* Beginning, ending and visiting.                                         *)

LEMMA BeginKeeps ==
  ASSUME IndInv, NEW w \in Workers, NEW label \in {"upsert", "read", "confirmed"},
         NEW p \in Periods \cup {None}, NEW s \in Sessions \cup {None}, NEW n \in Nat,
         Begin(w, label, p, s, n),
         label = "upsert" <=> s \in Sessions,
         label # "upsert" <=> p \in Periods,
         p \in Periods => PeriodFree(w, p),
         label = "confirmed" => status[p] = "open"
  PROVE  IndInv'
<1>1. /\ pc[w] = "idle"
      /\ pc' = [pc EXCEPT ![w] = label]
      /\ target' = [target EXCEPT ![w] = p]
      /\ key' = [key EXCEPT ![w] = s]
      /\ price' = [price EXCEPT ![w] = n]
      /\ UNCHANGED <<taught, amount, period, locked, status, total, sum, todo, touched>>
  BY DEF Begin, At, Goto, sessions, periods
<1>2. RowsTyped' /\ TransactionsTyped'
  BY <1>1 DEF IndInv, TypeOK, RowsTyped, TransactionsTyped, Labels
<1>3. AboutSomething'
  BY <1>1 DEF IndInv, TypeOK, TransactionsTyped, AboutSomething, OnPeriod, OnSession
<1>4. PeriodsExclude'
  BY <1>1 DEF IndInv, TypeOK, TransactionsTyped, PeriodsExclude, PeriodFree
<1>5. RowsExclude' /\ WrittenAreUnlocked'
  BY <1>1 DEF IndInv, RowsExclude, WrittenAreUnlocked
<1>6. WriterHasItsSession'
  BY <1>1 DEF IndInv, TypeOK, TransactionsTyped, WriterHasItsSession, At
<1>7. StatusIsCurrent'
  BY <1>1 DEF IndInv, TypeOK, TransactionsTyped, StatusIsCurrent
<1>8. RowsVisitedExist'
  BY <1>1 DEF IndInv, TypeOK, TransactionsTyped, RowsVisitedExist
<1>9. NewSessionsAreNowhere' /\ ConfirmedSessionsAreLocked'
  BY <1>1 DEF IndInv, NewSessionsAreNowhere, ConfirmedSessionsAreLocked
<1>10. FreezerMissesNothing'
  BY <1>1 DEF IndInv, TypeOK, TransactionsTyped, FreezerMissesNothing, InPeriod, At
<1> QED
  BY <1>2, <1>3, <1>4, <1>5, <1>6, <1>7, <1>8, <1>9, <1>10 DEF IndInv, TypeOK

LEMMA EndWrites ==
  ASSUME NEW w \in Workers, End(w)
  PROVE  /\ pc' = [pc EXCEPT ![w] = "idle"]
         /\ target' = [target EXCEPT ![w] = None]
         /\ key' = [key EXCEPT ![w] = None]
         /\ price' = [price EXCEPT ![w] = 0]
         /\ sum' = [sum EXCEPT ![w] = Nothing]
         /\ todo' = [todo EXCEPT ![w] = {}]
         /\ touched' = [touched EXCEPT ![w] = {}]
BY DEF End, Goto

LEMMA EndKeeps ==
  ASSUME IndInv, NEW w \in Workers, End(w), taught \subseteq taught'
  PROVE  /\ TransactionsTyped' /\ AboutSomething' /\ PeriodsExclude' /\ RowsExclude'
         /\ WriterHasItsSession' /\ RowsVisitedExist'
<1>1. /\ pc' = [pc EXCEPT ![w] = "idle"]
      /\ target' = [target EXCEPT ![w] = None]
      /\ key' = [key EXCEPT ![w] = None]
      /\ price' = [price EXCEPT ![w] = 0]
      /\ sum' = [sum EXCEPT ![w] = Nothing]
      /\ todo' = [todo EXCEPT ![w] = {}]
      /\ touched' = [touched EXCEPT ![w] = {}]
  BY EndWrites
<1>2. Nothing \in [Sessions -> Nat]
  BY DEF Nothing
<1>3. TransactionsTyped'
  BY <1>1, <1>2 DEF IndInv, TypeOK, TransactionsTyped, Labels
<1>4. AboutSomething'
  BY <1>1, NoneIsNothing DEF IndInv, TypeOK, TransactionsTyped, AboutSomething, OnPeriod, OnSession
<1>5. PeriodsExclude'
  BY <1>1, NoneIsNothing DEF IndInv, TypeOK, TransactionsTyped, PeriodsExclude
<1>6. RowsExclude'
  BY <1>1 DEF IndInv, TypeOK, TransactionsTyped, RowsExclude
<1>7. WriterHasItsSession'
  BY <1>1 DEF IndInv, TypeOK, TransactionsTyped, WriterHasItsSession, At
<1>8. RowsVisitedExist'
  BY <1>1 DEF IndInv, TypeOK, TransactionsTyped, RowsVisitedExist
<1> QED
  BY <1>3, <1>4, <1>5, <1>6, <1>7, <1>8

LEMMA GiveUpKeeps ==
  ASSUME IndInv, NEW w \in Workers, End(w), UNCHANGED <<sessions, periods>>
  PROVE  IndInv'
<1>1. /\ pc' = [pc EXCEPT ![w] = "idle"]
      /\ target' = [target EXCEPT ![w] = None]
      /\ todo' = [todo EXCEPT ![w] = {}]
      /\ touched' = [touched EXCEPT ![w] = {}]
  BY EndWrites
<1>2. UNCHANGED <<taught, amount, period, locked, status, total>>
  BY DEF sessions, periods
<1>3. /\ TransactionsTyped' /\ AboutSomething' /\ PeriodsExclude' /\ RowsExclude'
      /\ WriterHasItsSession' /\ RowsVisitedExist'
  BY <1>2, EndKeeps
<1>4. RowsTyped' /\ NewSessionsAreNowhere' /\ ConfirmedSessionsAreLocked'
  BY <1>2 DEF IndInv, TypeOK, RowsTyped, NewSessionsAreNowhere, ConfirmedSessionsAreLocked
<1>5. WrittenAreUnlocked'
  BY <1>1, <1>2 DEF IndInv, TypeOK, TransactionsTyped, WrittenAreUnlocked
<1>6. StatusIsCurrent'
  BY <1>1, <1>2 DEF IndInv, TypeOK, TransactionsTyped, StatusIsCurrent
<1>7. FreezerMissesNothing'
  BY <1>1, <1>2 DEF IndInv, TypeOK, TransactionsTyped, FreezerMissesNothing, InPeriod, At
<1> QED
  BY <1>3, <1>4, <1>5, <1>6, <1>7 DEF IndInv, TypeOK

LEMMA ListKeeps ==
  ASSUME IndInv, NEW w \in Workers, NEW rows \in SUBSET taught, NEW label \in {"attach", "freeze"},
         List(w, rows, label),
         label = "attach" => pc[w] = "read" /\ status[target[w]] # "confirmed",
         label = "freeze" => pc[w] = "confirmed" /\ rows = InPeriod(target[w], {}) \ locked
  PROVE  IndInv'
<1>1. /\ todo' = [todo EXCEPT ![w] = rows]
      /\ pc' = [pc EXCEPT ![w] = label]
      /\ UNCHANGED <<taught, amount, period, locked, status, total, target, key, price, sum, touched>>
  BY DEF List, Goto, sessions, periods
<1>2. rows \in SUBSET Sessions
  BY DEF IndInv, TypeOK, RowsTyped
<1>3. RowsTyped' /\ TransactionsTyped'
  BY <1>1, <1>2 DEF IndInv, TypeOK, RowsTyped, TransactionsTyped, Labels
<1>4. AboutSomething'
  BY <1>1 DEF IndInv, TypeOK, TransactionsTyped, AboutSomething, OnPeriod, OnSession
<1>5. PeriodsExclude' /\ RowsExclude' /\ WrittenAreUnlocked'
  BY <1>1 DEF IndInv, PeriodsExclude, RowsExclude, WrittenAreUnlocked
<1>6. WriterHasItsSession'
  BY <1>1 DEF IndInv, TypeOK, TransactionsTyped, WriterHasItsSession, At
<1>7. StatusIsCurrent'
  BY <1>1 DEF IndInv, TypeOK, TransactionsTyped, StatusIsCurrent
<1>8. RowsVisitedExist'
  BY <1>1 DEF IndInv, TypeOK, TransactionsTyped, RowsVisitedExist
<1>9. NewSessionsAreNowhere' /\ ConfirmedSessionsAreLocked'
  BY <1>1 DEF IndInv, NewSessionsAreNowhere, ConfirmedSessionsAreLocked
<1>10. FreezerMissesNothing'
  BY <1>1 DEF IndInv, TypeOK, TransactionsTyped, FreezerMissesNothing, InPeriod, At
<1> QED
  BY <1>3, <1>4, <1>5, <1>6, <1>7, <1>8, <1>9, <1>10 DEF IndInv, TypeOK

LEMMA VisitKeeps ==
  ASSUME IndInv, NEW w \in Workers, NEW s \in Sessions, NEW qualifies \in BOOLEAN,
         Visit(w, s, qualifies), pc[w] \in {"attach", "freeze"},
         qualifies => s \notin locked,
         pc[w] = "freeze" => (qualifies <=> period[s] = target[w] /\ s \notin locked)
  PROVE  IndInv'
<1> DEFINE written == IF qualifies THEN touched[w] \cup {s} ELSE touched[w]
<1>1. /\ s \in todo[w]
      /\ todo' = [todo EXCEPT ![w] = todo[w] \ {s}]
      /\ touched' = [touched EXCEPT ![w] = written]
      /\ UNCHANGED <<taught, amount, period, locked, status, total, pc, target, key, price, sum>>
  BY DEF IndInv, TypeOK, TransactionsTyped, Visit, sessions, periods
<1>2. written \in SUBSET Sessions /\ written \subseteq touched[w] \cup {s}
  BY DEF IndInv, TypeOK, TransactionsTyped
<1>3. written \cap locked = {}
  BY DEF IndInv, WrittenAreUnlocked
<1>4. \A v \in Workers \ {w} : touched[v] \cap written = {}
  <2>1. \A v \in Workers \ {w} : s \notin touched[v]
    BY DEF Visit, RowFree
  <2> QED
    BY <1>2, <2>1 DEF IndInv, RowsExclude
<1>5. pc[w] = "freeze" => InPeriod(target[w], {}) \ locked \subseteq (todo[w] \ {s}) \cup written
  BY DEF IndInv, FreezerMissesNothing, InPeriod, At
<1> HIDE DEF written
<1>6. RowsTyped' /\ TransactionsTyped'
  BY <1>1, <1>2 DEF IndInv, TypeOK, RowsTyped, TransactionsTyped
<1>7. AboutSomething' /\ PeriodsExclude' /\ StatusIsCurrent'
  BY <1>1 DEF IndInv, TypeOK, AboutSomething, PeriodsExclude, StatusIsCurrent
<1>8. RowsExclude'
  BY <1>1, <1>4 DEF IndInv, TypeOK, TransactionsTyped, RowsExclude
<1>9. WrittenAreUnlocked'
  BY <1>1, <1>3 DEF IndInv, TypeOK, TransactionsTyped, WrittenAreUnlocked
<1>10. WriterHasItsSession'
  BY <1>1 DEF IndInv, TypeOK, TransactionsTyped, WriterHasItsSession, At
<1>11. RowsVisitedExist'
  BY <1>1, <1>2 DEF IndInv, TypeOK, TransactionsTyped, RowsVisitedExist
<1>12. NewSessionsAreNowhere' /\ ConfirmedSessionsAreLocked'
  BY <1>1 DEF IndInv, NewSessionsAreNowhere, ConfirmedSessionsAreLocked
<1>13. FreezerMissesNothing'
  BY <1>1, <1>5 DEF IndInv, TypeOK, TransactionsTyped, FreezerMissesNothing, InPeriod, At
<1> QED
  BY <1>6, <1>7, <1>8, <1>9, <1>10, <1>11, <1>12, <1>13 DEF IndInv, TypeOK

-----------------------------------------------------------------------------
(* upsert_session.                                                         *)

LEMMA UpsertKeeps ==
  ASSUME IndInv, NEW w \in Workers, NEW s \in Sessions, NEW n \in Amounts, Upsert(w, s, n)
  PROVE  IndInv'
BY BeginKeeps, AmountsAreCents, NoneIsNothing DEF Upsert

LEMMA WriteSessionKeeps ==
  ASSUME IndInv, NEW w \in Workers, WriteSession(w)
  PROVE  IndInv'
<1>1. /\ pc[w] = "upsert"
      /\ pc' = [pc EXCEPT ![w] = "written"]
      /\ touched' = [touched EXCEPT ![w] = {key[w]}]
      /\ UNCHANGED <<taught, amount, period, locked, status, total, target, key, price, sum, todo>>
  BY DEF WriteSession, At, Goto, sessions, periods
<1>2. /\ key[w] \in Sessions
      /\ key[w] \notin locked
      /\ \A v \in Workers \ {w} : key[w] \notin touched[v]
  BY <1>1 DEF WriteSession, RowFree, IndInv, TypeOK, AboutSomething, OnSession
<1>3. RowsTyped' /\ TransactionsTyped'
  BY <1>1, <1>2 DEF IndInv, TypeOK, RowsTyped, TransactionsTyped, Labels
<1>4. AboutSomething'
  BY <1>1 DEF IndInv, TypeOK, TransactionsTyped, AboutSomething, OnPeriod, OnSession
<1>5. RowsExclude' /\ WrittenAreUnlocked'
  BY <1>1, <1>2 DEF IndInv, TypeOK, TransactionsTyped, RowsExclude, WrittenAreUnlocked
<1>6. WriterHasItsSession'
  BY <1>1 DEF IndInv, TypeOK, TransactionsTyped, WriterHasItsSession, At
<1>7. StatusIsCurrent'
  BY <1>1 DEF IndInv, TypeOK, TransactionsTyped, StatusIsCurrent
<1>8. RowsVisitedExist'
  BY <1>1 DEF IndInv, TypeOK, TransactionsTyped, RowsVisitedExist
<1>9. PeriodsExclude' /\ NewSessionsAreNowhere' /\ ConfirmedSessionsAreLocked'
  BY <1>1 DEF IndInv, PeriodsExclude, NewSessionsAreNowhere, ConfirmedSessionsAreLocked
<1>10. FreezerMissesNothing'
  BY <1>1 DEF IndInv, TypeOK, TransactionsTyped, FreezerMissesNothing, InPeriod, At
<1> QED
  BY <1>3, <1>4, <1>5, <1>6, <1>7, <1>8, <1>9, <1>10 DEF IndInv, TypeOK

LEMMA RefuseLockedKeeps ==
  ASSUME IndInv, NEW w \in Workers, RefuseLocked(w)
  PROVE  IndInv'
BY GiveUpKeeps DEF RefuseLocked

\* A session that was not there yet is in no period.
LEMMA SameRowsInPeriod ==
  ASSUME IndInv, NEW s \in Sessions, NEW p \in Periods
  PROVE  {t \in taught \cup {s} : period[t] = p} = {t \in taught : period[t] = p}
BY NoneIsNothing DEF IndInv, NewSessionsAreNowhere

LEMMA CommitSessionKeeps ==
  ASSUME IndInv, NEW w \in Workers, CommitSession(w)
  PROVE  IndInv'
<1>1. /\ taught' = taught \cup {key[w]}
      /\ amount' = [amount EXCEPT ![key[w]] = price[w]]
      /\ UNCHANGED <<period, locked, status, total>>
      /\ End(w)
  BY DEF CommitSession, periods
<1>2. /\ pc' = [pc EXCEPT ![w] = "idle"]
      /\ target' = [target EXCEPT ![w] = None]
      /\ todo' = [todo EXCEPT ![w] = {}]
      /\ touched' = [touched EXCEPT ![w] = {}]
  BY <1>1, EndWrites
<1>3. key[w] \in Sessions
  BY DEF CommitSession, At, IndInv, TypeOK, AboutSomething, OnSession
<1>4. /\ TransactionsTyped' /\ AboutSomething' /\ PeriodsExclude' /\ RowsExclude'
      /\ WriterHasItsSession' /\ RowsVisitedExist'
  BY <1>1, EndKeeps
<1>5. RowsTyped'
  BY <1>1, <1>3 DEF IndInv, TypeOK, RowsTyped, TransactionsTyped
<1>6. WrittenAreUnlocked'
  BY <1>1, <1>2 DEF IndInv, TypeOK, TransactionsTyped, WrittenAreUnlocked
<1>7. StatusIsCurrent'
  BY <1>1, <1>2 DEF IndInv, TypeOK, TransactionsTyped, StatusIsCurrent
<1>8. NewSessionsAreNowhere'
  BY <1>1 DEF IndInv, NewSessionsAreNowhere
<1>9. ConfirmedSessionsAreLocked'
  BY <1>1, <1>3, NoneIsNothing
     DEF IndInv, NewSessionsAreNowhere, ConfirmedSessionsAreLocked
<1>10. FreezerMissesNothing'
  <2> SUFFICES ASSUME NEW v \in Workers, pc'[v] = "freeze"
               PROVE  InPeriod(target[v], {})' \ locked' \subseteq todo'[v] \cup touched'[v]
    BY <1>1, <1>2 DEF FreezerMissesNothing, At, IndInv, TypeOK, TransactionsTyped, InPeriod
  <2>1. v # w /\ pc[v] = "freeze" /\ todo'[v] = todo[v] /\ touched'[v] = touched[v] /\ target'[v] = target[v]
    BY <1>2 DEF IndInv, TypeOK, TransactionsTyped
  <2>2. target[v] \in Periods
    BY <2>1 DEF IndInv, TypeOK, AboutSomething, OnPeriod
  <2>3. InPeriod(target[v], {})' = InPeriod(target[v], {})
    BY <1>1, <1>3, <2>1, <2>2, SameRowsInPeriod DEF InPeriod
  <2> QED
    BY <1>1, <2>1, <2>3 DEF IndInv, FreezerMissesNothing, At
<1> QED
  BY <1>4, <1>5, <1>6, <1>7, <1>8, <1>9, <1>10 DEF IndInv, TypeOK

-----------------------------------------------------------------------------
(* open_period and recalculate_period.                                     *)

LEMMA OpenPeriodKeeps ==
  ASSUME IndInv, NEW w \in Workers, NEW p \in Periods, OpenPeriod(w, p)
  PROVE  IndInv'
BY BeginKeeps, NoneIsNothing DEF OpenPeriod

LEMMA ReadPeriodKeeps ==
  ASSUME IndInv, NEW w \in Workers, ReadPeriod(w)
  PROVE  IndInv'
<1>1. (Covers[target[w]] \cap taught) \ locked \in SUBSET taught
  OBVIOUS
<1> QED
  BY <1>1, ListKeeps DEF ReadPeriod, At

LEMMA RefuseConfirmedKeeps ==
  ASSUME IndInv, NEW w \in Workers, RefuseConfirmed(w)
  PROVE  IndInv'
BY GiveUpKeeps DEF RefuseConfirmed

LEMMA AttachKeeps ==
  ASSUME IndInv, NEW w \in Workers, NEW s \in Sessions, Attach(w, s)
  PROVE  IndInv'
<1>1. Visit(w, s, s \notin locked) /\ pc[w] = "attach"
  BY DEF Attach, At
<1> QED
  BY <1>1, VisitKeeps

LEMMA AddUpKeeps ==
  ASSUME IndInv, NEW w \in Workers, AddUp(w)
  PROVE  IndInv'
<1> DEFINE added == [s \in Sessions |-> IF s \in InPeriod(target[w], touched[w]) THEN amount[s] ELSE 0]
<1>1. /\ pc[w] = "attach"
      /\ pc' = [pc EXCEPT ![w] = "totalled"]
      /\ sum' = [sum EXCEPT ![w] = added]
      /\ UNCHANGED <<taught, amount, period, locked, status, total, target, key, price, todo, touched>>
  BY DEF AddUp, At, Goto, sessions, periods
<1>2. added \in [Sessions -> Nat]
  BY DEF IndInv, TypeOK, RowsTyped
<1> HIDE DEF added
<1>3. RowsTyped' /\ TransactionsTyped'
  BY <1>1, <1>2 DEF IndInv, TypeOK, RowsTyped, TransactionsTyped, Labels
<1>4. AboutSomething'
  BY <1>1 DEF IndInv, TypeOK, TransactionsTyped, AboutSomething, OnPeriod, OnSession
<1>5. PeriodsExclude' /\ RowsExclude' /\ WrittenAreUnlocked'
  BY <1>1 DEF IndInv, PeriodsExclude, RowsExclude, WrittenAreUnlocked
<1>6. WriterHasItsSession'
  BY <1>1 DEF IndInv, TypeOK, TransactionsTyped, WriterHasItsSession, At
<1>7. StatusIsCurrent'
  BY <1>1 DEF IndInv, TypeOK, TransactionsTyped, StatusIsCurrent
<1>8. RowsVisitedExist'
  BY <1>1 DEF IndInv, TypeOK, TransactionsTyped, RowsVisitedExist
<1>9. NewSessionsAreNowhere' /\ ConfirmedSessionsAreLocked'
  BY <1>1 DEF IndInv, NewSessionsAreNowhere, ConfirmedSessionsAreLocked
<1>10. FreezerMissesNothing'
  BY <1>1 DEF IndInv, TypeOK, TransactionsTyped, FreezerMissesNothing, InPeriod, At
<1> QED
  BY <1>3, <1>4, <1>5, <1>6, <1>7, <1>8, <1>9, <1>10 DEF IndInv, TypeOK

LEMMA CommitPeriodKeeps ==
  ASSUME IndInv, NEW w \in Workers, CommitPeriod(w)
  PROVE  IndInv'
<1>1. /\ pc[w] = "totalled"
      /\ period' = [s \in Sessions |-> IF s \in touched[w] THEN target[w] ELSE period[s]]
      /\ status' = [status EXCEPT ![target[w]] = "open"]
      /\ total' = [total EXCEPT ![target[w]] = sum[w]]
      /\ UNCHANGED <<taught, amount, locked>>
      /\ End(w)
  BY DEF CommitPeriod, At
<1>2. /\ pc' = [pc EXCEPT ![w] = "idle"]
      /\ target' = [target EXCEPT ![w] = None]
      /\ todo' = [todo EXCEPT ![w] = {}]
      /\ touched' = [touched EXCEPT ![w] = {}]
  BY <1>1, EndWrites
<1>3. target[w] \in Periods /\ status[target[w]] # "confirmed" /\ touched[w] \subseteq taught
  BY <1>1 DEF IndInv, TypeOK, AboutSomething, OnPeriod, StatusIsCurrent, RowsVisitedExist
<1>4. /\ TransactionsTyped' /\ AboutSomething' /\ PeriodsExclude' /\ RowsExclude'
      /\ WriterHasItsSession' /\ RowsVisitedExist'
  BY <1>1, EndKeeps
<1>5. RowsTyped'
  BY <1>1, <1>3 DEF IndInv, TypeOK, RowsTyped, TransactionsTyped
<1>6. WrittenAreUnlocked'
  BY <1>1, <1>2 DEF IndInv, TypeOK, TransactionsTyped, WrittenAreUnlocked
<1>7. ASSUME NEW v \in Workers \ {w}, pc[v] \in OnPeriod
      PROVE  target[v] \in Periods /\ target[v] # target[w] /\ status'[target[v]] = status[target[v]]
  <2>1. target[v] \in Periods
    BY <1>7 DEF IndInv, TypeOK, AboutSomething
  <2>2. target[v] # target[w]
    BY <1>3, <2>1 DEF IndInv, PeriodsExclude
  <2> QED
    BY <1>1, <2>1, <2>2 DEF IndInv, TypeOK, RowsTyped
<1>8. StatusIsCurrent'
  BY <1>1, <1>2, <1>7 DEF IndInv, TypeOK, TransactionsTyped, StatusIsCurrent, OnPeriod
<1>9. NewSessionsAreNowhere'
  BY <1>1, <1>3 DEF IndInv, NewSessionsAreNowhere
<1>10. ConfirmedSessionsAreLocked'
  <2> SUFFICES ASSUME NEW s \in taught, period'[s] \in Periods, status'[period'[s]] = "confirmed"
               PROVE  s \in locked
    BY <1>1 DEF ConfirmedSessionsAreLocked
  <2>1. period'[s] # target[w]
    BY <1>1, <1>3 DEF IndInv, TypeOK, RowsTyped
  <2>2. period'[s] = period[s]
    BY <1>1, <2>1 DEF IndInv, TypeOK, RowsTyped
  <2>3. status[period[s]] = "confirmed"
    BY <1>1, <2>1, <2>2 DEF IndInv, TypeOK, RowsTyped
  <2> QED
    BY <2>2, <2>3 DEF IndInv, ConfirmedSessionsAreLocked
<1>11. FreezerMissesNothing'
  <2> SUFFICES ASSUME NEW v \in Workers, pc'[v] = "freeze"
               PROVE  InPeriod(target[v], {})' \ locked' \subseteq todo'[v] \cup touched'[v]
    BY DEF FreezerMissesNothing, At, InPeriod
  <2>1. v # w /\ pc[v] = "freeze" /\ todo'[v] = todo[v] /\ touched'[v] = touched[v] /\ target'[v] = target[v]
    BY <1>2 DEF IndInv, TypeOK, TransactionsTyped
  <2>2. target[v] # target[w]
    BY <1>7, <2>1 DEF OnPeriod
  <2>3. InPeriod(target[v], {})' \subseteq InPeriod(target[v], {})
    BY <1>1, <2>1, <2>2 DEF InPeriod, IndInv, TypeOK, RowsTyped
  <2> QED
    BY <1>1, <2>1, <2>3 DEF IndInv, FreezerMissesNothing, At
<1> QED
  BY <1>4, <1>5, <1>6, <1>8, <1>9, <1>10, <1>11 DEF IndInv, TypeOK

-----------------------------------------------------------------------------
(* confirm_period.                                                         *)

LEMMA ConfirmKeeps ==
  ASSUME IndInv, NEW w \in Workers, NEW p \in Periods, Confirm(w, p)
  PROVE  IndInv'
<1>1. p \in Periods \cup {None} /\ None \in Sessions \cup {None} /\ None \notin Sessions
  BY NoneIsNothing
<1>2. 0 \in Nat
  OBVIOUS
<1>3. Begin(w, "confirmed", p, None, 0) /\ PeriodFree(w, p) /\ status[p] = "open"
  BY DEF Confirm
<1> QED
  BY <1>1, <1>2, <1>3, BeginKeeps

LEMMA ListSessionsKeeps ==
  ASSUME IndInv, NEW w \in Workers, ListSessions(w)
  PROVE  IndInv'
<1>1. InPeriod(target[w], {}) \ locked \in SUBSET taught
  BY DEF InPeriod
<1> QED
  BY <1>1, ListKeeps DEF ListSessions, At

LEMMA FreezeKeeps ==
  ASSUME IndInv, NEW w \in Workers, NEW s \in Sessions, Freeze(w, s)
  PROVE  IndInv'
<1>1. Visit(w, s, period[s] = target[w] /\ s \notin locked) /\ pc[w] = "freeze"
  BY DEF Freeze, At
<1> QED
  BY <1>1, VisitKeeps

LEMMA CommitConfirmKeeps ==
  ASSUME IndInv, NEW w \in Workers, CommitConfirm(w)
  PROVE  IndInv'
<1>1. /\ pc[w] = "freeze"
      /\ todo[w] = {}
      /\ status' = [status EXCEPT ![target[w]] = "confirmed"]
      /\ locked' = locked \cup touched[w]
      /\ UNCHANGED <<taught, amount, period, total>>
      /\ End(w)
  BY DEF CommitConfirm, At
<1>2. /\ pc' = [pc EXCEPT ![w] = "idle"]
      /\ target' = [target EXCEPT ![w] = None]
      /\ todo' = [todo EXCEPT ![w] = {}]
      /\ touched' = [touched EXCEPT ![w] = {}]
  BY <1>1, EndWrites
<1>3. target[w] \in Periods
  BY <1>1 DEF IndInv, TypeOK, AboutSomething, OnPeriod
<1>4. /\ TransactionsTyped' /\ AboutSomething' /\ PeriodsExclude' /\ RowsExclude'
      /\ WriterHasItsSession' /\ RowsVisitedExist'
  BY <1>1, EndKeeps
<1>5. RowsTyped'
  BY <1>1, <1>3 DEF IndInv, TypeOK, RowsTyped, TransactionsTyped
<1>6. WrittenAreUnlocked'
  BY <1>1, <1>2 DEF IndInv, TypeOK, TransactionsTyped, WrittenAreUnlocked, RowsExclude
<1>7. ASSUME NEW v \in Workers \ {w}, pc[v] \in OnPeriod
      PROVE  target[v] \in Periods /\ status'[target[v]] = status[target[v]]
  <2>1. target[v] \in Periods
    BY <1>7 DEF IndInv, TypeOK, AboutSomething
  <2>2. target[v] # target[w]
    BY <1>3, <2>1 DEF IndInv, PeriodsExclude
  <2> QED
    BY <1>1, <2>1, <2>2 DEF IndInv, TypeOK, RowsTyped
<1>8. StatusIsCurrent'
  BY <1>1, <1>2, <1>7 DEF IndInv, TypeOK, TransactionsTyped, StatusIsCurrent, OnPeriod
<1>9. NewSessionsAreNowhere'
  BY <1>1 DEF IndInv, NewSessionsAreNowhere
<1>10. ConfirmedSessionsAreLocked'
  <2> SUFFICES ASSUME NEW s \in taught, period[s] \in Periods, status'[period[s]] = "confirmed"
               PROVE  s \in locked'
    BY <1>1 DEF ConfirmedSessionsAreLocked
  <2>1. CASE period[s] = target[w]
    BY <1>1, <2>1 DEF IndInv, FreezerMissesNothing, InPeriod, At
  <2>2. CASE period[s] # target[w]
    BY <1>1, <2>2 DEF IndInv, TypeOK, RowsTyped, ConfirmedSessionsAreLocked
  <2> QED
    BY <2>1, <2>2
<1>11. FreezerMissesNothing'
  BY <1>1, <1>2 DEF IndInv, TypeOK, TransactionsTyped, FreezerMissesNothing, InPeriod, At
<1> QED
  BY <1>4, <1>5, <1>6, <1>8, <1>9, <1>10, <1>11 DEF IndInv, TypeOK

LEMMA RollbackKeeps ==
  ASSUME IndInv, NEW w \in Workers, Rollback(w)
  PROVE  IndInv'
BY GiveUpKeeps DEF Rollback

-----------------------------------------------------------------------------
(* The theorems.                                                           *)

LEMMA IndInvInit == Init => IndInv
<1> SUFFICES ASSUME Init
             PROVE  IndInv
  OBVIOUS
<1>1. Nothing \in [Sessions -> Nat]
  BY DEF Nothing
<1>2. TypeOK
  BY <1>1, NoneIsNothing
     DEF Init, TypeOK, RowsTyped, TransactionsTyped, AboutSomething, Labels, OnPeriod, OnSession
<1>3. /\ PeriodsExclude /\ RowsExclude /\ WrittenAreUnlocked /\ WriterHasItsSession
      /\ StatusIsCurrent /\ RowsVisitedExist
  BY NoneIsNothing
     DEF Init, PeriodsExclude, RowsExclude, WrittenAreUnlocked, WriterHasItsSession,
         StatusIsCurrent, RowsVisitedExist, At
<1>4. NewSessionsAreNowhere /\ FreezerMissesNothing /\ ConfirmedSessionsAreLocked
  BY DEF Init, NewSessionsAreNowhere, FreezerMissesNothing, ConfirmedSessionsAreLocked, At
<1> QED
  BY <1>2, <1>3, <1>4 DEF IndInv

LEMMA IndInvStep == IndInv /\ [Next]_vars => IndInv'
<1> SUFFICES ASSUME IndInv, [Next]_vars
             PROVE  IndInv'
  OBVIOUS
<1>1. CASE UNCHANGED vars
  BY <1>1
     DEF vars, sessions, periods, locals, IndInv, TypeOK, RowsTyped, TransactionsTyped,
         AboutSomething, PeriodsExclude, RowsExclude, WrittenAreUnlocked, WriterHasItsSession,
         StatusIsCurrent, RowsVisitedExist, NewSessionsAreNowhere, FreezerMissesNothing,
         ConfirmedSessionsAreLocked, InPeriod, At
<1>2. CASE Next
  BY <1>2, UpsertKeeps, WriteSessionKeeps, RefuseLockedKeeps, CommitSessionKeeps,
     OpenPeriodKeeps, ReadPeriodKeeps, RefuseConfirmedKeeps, AttachKeeps, AddUpKeeps,
     CommitPeriodKeeps, ConfirmKeeps, ListSessionsKeeps, FreezeKeeps, CommitConfirmKeeps,
     RollbackKeeps
     DEF Next
<1> QED
  BY <1>1, <1>2

\* IndInv, the invariant the other theorems rest on, holds in every reachable
\* state of upsert_session, recalculate_period and confirm_period.
THEOREM Invariance == Spec => []IndInv
BY IndInvInit, IndInvStep, PTL DEF Spec

\* Rows and transactions keep their shape.
THEOREM TypeCorrect == Spec => []TypeOK
<1>1. IndInv => TypeOK
  BY DEF IndInv
<1> QED
  BY <1>1, Invariance, PTL

\* confirm_period leaves none of the sessions of the period open to change,
\* whichever sessions other transactions were attaching or repricing meanwhile.
THEOREM ConfirmationLocks == Spec => []ConfirmedSessionsAreLocked
<1>1. IndInv => ConfirmedSessionsAreLocked
  BY DEF IndInv
<1> QED
  BY <1>1, Invariance, PTL

LEMMA LockedStep ==
  ASSUME IndInv, Next, NEW s \in locked
  PROVE  s \in locked' /\ amount'[s] = amount[s] /\ period'[s] = period[s]
<1> s \in Sessions
  BY DEF IndInv, TypeOK, RowsTyped
<1>1. CASE UNCHANGED sessions
  BY <1>1 DEF sessions
<1>2. ASSUME NEW w \in Workers, CommitSession(w)
      PROVE  s \in locked' /\ amount'[s] = amount[s] /\ period'[s] = period[s]
  <2>1. key[w] # s
    BY <1>2 DEF CommitSession, IndInv, WriterHasItsSession, WrittenAreUnlocked
  <2> QED
    BY <1>2, <2>1 DEF CommitSession, IndInv, TypeOK, RowsTyped
<1>3. ASSUME NEW w \in Workers, CommitPeriod(w)
      PROVE  s \in locked' /\ amount'[s] = amount[s] /\ period'[s] = period[s]
  BY <1>3 DEF CommitPeriod, IndInv, WrittenAreUnlocked
<1>4. ASSUME NEW w \in Workers, CommitConfirm(w)
      PROVE  s \in locked' /\ amount'[s] = amount[s] /\ period'[s] = period[s]
  BY <1>4 DEF CommitConfirm
<1> QED
  BY <1>1, <1>2, <1>3, <1>4
     DEF Next, Upsert, Begin, WriteSession, RefuseLocked, OpenPeriod, ReadPeriod, List,
         RefuseConfirmed, Attach, Visit, AddUp, Confirm, ListSessions, Freeze, Rollback

\* A session of a confirmed period keeps its amount and its period: no
\* collector, overlapping period or second confirmation changes it.
THEOREM LockedSessionsStay == Spec => LockedSessionsAreFrozen
<1>1. IndInv /\ [Next]_vars =>
        [\A s \in locked : s \in locked' /\ amount'[s] = amount[s] /\ period'[s] = period[s]]_vars
  BY LockedStep
<1> QED
  BY <1>1, Invariance, PTL DEF Spec, LockedSessionsAreFrozen

LEMMA ConfirmedStep ==
  ASSUME IndInv, Next, NEW p \in Periods, status[p] = "confirmed"
  PROVE  status'[p] = "confirmed" /\ total'[p] = total[p]
<1>1. CASE UNCHANGED periods
  BY <1>1 DEF periods
<1>2. ASSUME NEW w \in Workers, CommitPeriod(w)
      PROVE  status'[p] = "confirmed" /\ total'[p] = total[p]
  <2>1. target[w] # p
    BY <1>2 DEF CommitPeriod, At, IndInv, StatusIsCurrent
  <2> QED
    BY <1>2, <2>1 DEF CommitPeriod, IndInv, TypeOK, RowsTyped
<1>3. ASSUME NEW w \in Workers, CommitConfirm(w)
      PROVE  status'[p] = "confirmed" /\ total'[p] = total[p]
  BY <1>3 DEF CommitConfirm, IndInv, TypeOK, RowsTyped
<1> QED
  BY <1>1, <1>2, <1>3
     DEF Next, Upsert, Begin, WriteSession, RefuseLocked, CommitSession, OpenPeriod, ReadPeriod,
         List, RefuseConfirmed, Attach, Visit, AddUp, Confirm, ListSessions, Freeze, Rollback

\* A confirmed period stays confirmed and keeps its total, also when a
\* recalculation of it had begun before the confirmation.
THEOREM ConfirmedTotalsStay == Spec => ConfirmedTotalsAreFrozen
<1>1. IndInv /\ [Next]_vars =>
        [\A p \in Periods : status[p] = "confirmed" =>
           status'[p] = "confirmed" /\ total'[p] = total[p]]_vars
  BY ConfirmedStep
<1> QED
  BY <1>1, Invariance, PTL DEF Spec, ConfirmedTotalsAreFrozen
=============================================================================
