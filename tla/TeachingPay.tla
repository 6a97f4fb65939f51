----------------------------- MODULE TeachingPay -----------------------------
(***************************************************************************)
(* What teachers are paid (services/teaching_pay.py): taught sessions, the *)
(* pay periods they are rolled up into, and the confirmation of a period,  *)
(* which freezes its sessions and its total.                               *)
(*                                                                         *)
(* Each operation is one READ COMMITTED transaction.  An UPDATE of several *)
(* sessions lists them, then takes their rows one by one, waits for a row  *)
(* another transaction has written, and checks its WHERE again when it has *)
(* it.  What a transaction writes others see when it commits.              *)
(***************************************************************************)
EXTENDS Integers, FiniteSets

CONSTANTS
    Workers,    \* threads of the web server, and the collector of sessions
    Sessions,   \* natural keys of teaching_sessions, of one teacher
    Periods,    \* (period_start, period_end) of that teacher; may overlap
    Covers,     \* the sessions whose day lies in each period
    Amounts,    \* what a session may be worth at the rates of the time, in
                \* cents; 0 is one that does not count for pay
    None        \* no session, no period

ASSUME CoversAreSessions == Covers \in [Periods -> SUBSET Sessions]
ASSUME AmountsAreCents == Amounts \subseteq Nat
ASSUME NoneIsNothing == None \notin Sessions \cup Periods

VARIABLES
    taught,     \* committed teaching_sessions rows
    amount,     \* their amount_cents
    period,     \* their period_id
    locked,     \* those whose locked_at is set
    status,     \* of each teacher_pay_periods row
    total,      \* its sessions_cents, as the amounts it adds up
    \* Of each worker: where its transaction stands, the period or the session
    \* it is about, the amount it priced or the amounts it added up, the rows
    \* its statement has yet to visit, and those it has written.
    pc, target, key, price, sum, todo, touched

sessions == <<taught, amount, period, locked>>
periods == <<status, total>>
locals == <<target, key, price, sum, todo, touched>>
vars == <<sessions, periods, pc, locals>>

-----------------------------------------------------------------------------
(* Rows and their locks.                                                   *)

Nothing == [s \in Sessions |-> 0]

At(w, label) == pc[w] = label
Goto(w, label) == pc' = [pc EXCEPT ![w] = label]

\* The rows that belong to period p, for a transaction that has written own.
InPeriod(p, own) == {s \in taught : period[s] = p} \cup own

RowFree(w, s) == \A v \in Workers \ {w} : s \notin touched[v]
PeriodFree(w, p) == \A v \in Workers \ {w} : target[v] # p

Begin(w, label, p, s, n) ==
    /\ At(w, "idle")
    /\ Goto(w, label)
    /\ target' = [target EXCEPT ![w] = p]
    /\ key' = [key EXCEPT ![w] = s]
    /\ price' = [price EXCEPT ![w] = n]
    /\ UNCHANGED <<sessions, periods, sum, todo, touched>>

End(w) ==
    /\ Goto(w, "idle")
    /\ target' = [target EXCEPT ![w] = None]
    /\ key' = [key EXCEPT ![w] = None]
    /\ price' = [price EXCEPT ![w] = 0]
    /\ sum' = [sum EXCEPT ![w] = Nothing]
    /\ todo' = [todo EXCEPT ![w] = {}]
    /\ touched' = [touched EXCEPT ![w] = {}]

\* PayError, lock_timeout, or a crash.
Rollback(w) == ~ At(w, "idle") /\ End(w) /\ UNCHANGED <<sessions, periods>>

\* The statement of w starts and finds these rows.
List(w, rows, label) ==
    /\ todo' = [todo EXCEPT ![w] = rows]
    /\ Goto(w, label)
    /\ UNCHANGED <<sessions, periods, target, key, price, sum, touched>>

\* It comes to the row of s, and writes it if it still qualifies.
Visit(w, s, qualifies) ==
    /\ s \in todo[w]
    /\ RowFree(w, s)
    /\ todo' = [todo EXCEPT ![w] = @ \ {s}]
    /\ touched' = [touched EXCEPT ![w] = IF qualifies THEN @ \cup {s} ELSE @]
    /\ UNCHANGED <<sessions, periods, pc, target, key, price, sum>>

-----------------------------------------------------------------------------
(* upsert_session: resolves the rate, then INSERT ... ON CONFLICT DO       *)
(* UPDATE WHERE locked_at IS NULL.  The trigger that refuses to reprice a   *)
(* locked row stands behind that WHERE and never has cause to fire.         *)

Upsert(w, s, n) == Begin(w, "upsert", None, s, n)

WriteSession(w) ==
    /\ At(w, "upsert")
    /\ RowFree(w, key[w])
    /\ key[w] \notin locked
    /\ touched' = [touched EXCEPT ![w] = {key[w]}]
    /\ Goto(w, "written")
    /\ UNCHANGED <<sessions, periods, target, key, price, sum, todo>>

\* "belongs to a pay period that has already been confirmed".
RefuseLocked(w) ==
    /\ At(w, "upsert")
    /\ RowFree(w, key[w])
    /\ key[w] \in locked
    /\ End(w)
    /\ UNCHANGED <<sessions, periods>>

CommitSession_Unpriced(w) ==                    \* mutant: NULL without a rate
    /\ At(w, "written")
    /\ taught' = taught \cup {key[w]}
    /\ amount' = [amount EXCEPT ![key[w]] = IF price[w] = 0 THEN None ELSE price[w]]
    /\ End(w)
    /\ UNCHANGED <<period, locked, periods>>
CommitSession(w) ==
    /\ At(w, "written")
    /\ taught' = taught \cup {key[w]}
    /\ amount' = [amount EXCEPT ![key[w]] = price[w]]
    /\ End(w)
    /\ UNCHANGED <<period, locked, periods>>

-----------------------------------------------------------------------------
(* POST /teaching/periods: open_period, an upsert that takes the row of    *)
(* the period, then recalculate_period.                                    *)

OpenPeriod_NoLock(w, p) ==                      \* mutant: DO NOTHING
    /\ Begin(w, "read", p, None, 0)
OpenPeriod(w, p) ==
    /\ PeriodFree(w, p)
    /\ Begin(w, "read", p, None, 0)

ReadPeriod(w) ==
    /\ At(w, "read")
    /\ status[target[w]] # "confirmed"
    /\ List(w, (Covers[target[w]] \cap taught) \ locked, "attach")

RefuseConfirmed(w) ==
    /\ At(w, "read")
    /\ status[target[w]] = "confirmed"
    /\ End(w)
    /\ UNCHANGED <<sessions, periods>>

Attach_Blindly(w, s) ==                         \* mutant: no second check
    At(w, "attach") /\ Visit(w, s, TRUE)
Attach(w, s) == At(w, "attach") /\ Visit(w, s, s \notin locked)

AddUp(w) ==
    /\ At(w, "attach")
    /\ todo[w] = {}
    /\ sum' = [sum EXCEPT ![w] =
                 [s \in Sessions |-> IF s \in InPeriod(target[w], touched[w]) THEN amount[s] ELSE 0]]
    /\ Goto(w, "totalled")
    /\ UNCHANGED <<sessions, periods, target, key, price, todo, touched>>

CommitPeriod(w) ==
    /\ At(w, "totalled")
    /\ period' = [s \in Sessions |-> IF s \in touched[w] THEN target[w] ELSE period[s]]
    /\ status' = [status EXCEPT ![target[w]] = "open"]
    /\ total' = [total EXCEPT ![target[w]] = sum[w]]
    /\ End(w)
    /\ UNCHANGED <<taught, amount, locked>>

-----------------------------------------------------------------------------
(* POST /teaching/periods/<id>/confirm.                                    *)

\* UPDATE ... SET status = 'confirmed' WHERE status = 'open'.
Confirm(w, p) ==
    /\ status[p] = "open"
    /\ PeriodFree(w, p)
    /\ Begin(w, "confirmed", p, None, 0)

ListSessions(w) ==
    /\ At(w, "confirmed")
    /\ List(w, InPeriod(target[w], {}) \ locked, "freeze")

Freeze_Blindly(w, s) ==                         \* mutant: no second check
    At(w, "freeze") /\ Visit(w, s, TRUE)
Freeze(w, s) ==
    At(w, "freeze") /\ Visit(w, s, period[s] = target[w] /\ s \notin locked)

CommitConfirm(w) ==
    /\ At(w, "freeze")
    /\ todo[w] = {}
    /\ status' = [status EXCEPT ![target[w]] = "confirmed"]
    /\ locked' = locked \cup touched[w]
    /\ End(w)
    /\ UNCHANGED <<taught, amount, period, total>>

-----------------------------------------------------------------------------
Init ==
    /\ taught = {}
    /\ amount = [s \in Sessions |-> 0]
    /\ period = [s \in Sessions |-> None]
    /\ locked = {}
    /\ status = [p \in Periods |-> "absent"]
    /\ total = [p \in Periods |-> Nothing]
    /\ pc = [w \in Workers |-> "idle"]
    /\ target = [w \in Workers |-> None]
    /\ key = [w \in Workers |-> None]
    /\ price = [w \in Workers |-> 0]
    /\ sum = [w \in Workers |-> Nothing]
    /\ todo = [w \in Workers |-> {}]
    /\ touched = [w \in Workers |-> {}]

Next ==
    \E w \in Workers :
      \/ \E s \in Sessions, n \in Amounts : Upsert(w, s, n)
      \/ WriteSession(w)
      \/ RefuseLocked(w)
      \/ CommitSession(w)
      \/ \E p \in Periods : OpenPeriod(w, p)
      \/ ReadPeriod(w)
      \/ RefuseConfirmed(w)
      \/ \E s \in Sessions : Attach(w, s)
      \/ AddUp(w)
      \/ CommitPeriod(w)
      \/ \E p \in Periods : Confirm(w, p)
      \/ ListSessions(w)
      \/ \E s \in Sessions : Freeze(w, s)
      \/ CommitConfirm(w)
      \/ Rollback(w)

Spec == Init /\ [][Next]_vars

-----------------------------------------------------------------------------
(* Properties.                                                             *)

Labels == {"idle", "upsert", "written", "read", "attach", "totalled", "confirmed", "freeze"}
OnPeriod == {"read", "attach", "totalled", "confirmed", "freeze"}
OnSession == {"upsert", "written"}

RowsTyped ==
    /\ taught \in SUBSET Sessions
    /\ amount \in [Sessions -> Nat]
    /\ period \in [Sessions -> Periods \cup {None}]
    /\ locked \in SUBSET Sessions
    /\ status \in [Periods -> {"absent", "open", "confirmed"}]
    /\ total \in [Periods -> [Sessions -> Nat]]

TransactionsTyped ==
    /\ pc \in [Workers -> Labels]
    /\ target \in [Workers -> Periods \cup {None}]
    /\ key \in [Workers -> Sessions \cup {None}]
    /\ price \in [Workers -> Nat]
    /\ sum \in [Workers -> [Sessions -> Nat]]
    /\ todo \in [Workers -> SUBSET Sessions]
    /\ touched \in [Workers -> SUBSET Sessions]

AboutSomething ==
    \A w \in Workers :
      /\ pc[w] \in OnPeriod <=> target[w] \in Periods
      /\ pc[w] \in OnSession <=> key[w] \in Sessions

\* Rows and transactions keep their shape; a transaction about a period has
\* one, and one about a session has that.
TypeOK == RowsTyped /\ TransactionsTyped /\ AboutSomething

\* A session of a confirmed period is frozen: whatever the collector, another
\* period that covers its day, or a second confirmation do, it keeps its
\* amount and its period.
LockedSessionsAreFrozen ==
    [][\A s \in locked : s \in locked' /\ amount'[s] = amount[s] /\ period'[s] = period[s]]_vars

\* "Once a teacher has signed off, the total they signed off on is the total",
\* also when a recalculation of the period had begun before.
ConfirmedTotalsAreFrozen ==
    [][\A p \in Periods : status[p] = "confirmed" =>
         status'[p] = "confirmed" /\ total'[p] = total[p]]_vars

\* Confirming a period leaves none of its sessions open to change.
ConfirmedSessionsAreLocked ==
    \A s \in taught : period[s] \in Periods /\ status[period[s]] = "confirmed" => s \in locked

\* A confirmed total is what the sessions of the period add up to ("the
\* sessions a teacher taught in a period ... and what they add up to").  No run
\* checks it: a session may be repriced between the sum and the confirmation
\* (README, "Where the code and its words differ").
ConfirmedTotalIsItsSessions ==
    \A p \in Periods : status[p] = "confirmed" =>
      total[p] = [s \in Sessions |-> IF s \in InPeriod(p, {}) THEN amount[s] ELSE 0]

\* "A session may only be counted into one period once."
CountedOnce ==
    \A p, q \in Periods : \A s \in Sessions :
      /\ status[p] = "confirmed" /\ status[q] = "confirmed"
      /\ total[p][s] > 0 /\ total[q][s] > 0
      => p = q

-----------------------------------------------------------------------------
(* The invariant behind the properties that hold.  The row of a period     *)
(* keeps the transactions about it apart, the rows of the sessions those   *)
(* that write them; so what a transaction has read of its period, and the  *)
(* sessions a confirmation has found, stay what they are until it commits. *)

PeriodsExclude ==
    \A v, w \in Workers : target[v] \in Periods /\ target[v] = target[w] => v = w

RowsExclude == \A v, w \in Workers : v # w => touched[v] \cap touched[w] = {}

WrittenAreUnlocked == \A w \in Workers : touched[w] \cap locked = {}

WriterHasItsSession == \A w \in Workers : At(w, "written") => key[w] \in touched[w]

StatusIsCurrent ==
    \A w \in Workers :
      /\ pc[w] \in {"attach", "totalled"} => status[target[w]] # "confirmed"
      /\ pc[w] \in {"confirmed", "freeze"} => status[target[w]] = "open"

RowsVisitedExist ==
    \A w \in Workers :
      /\ pc[w] \in {"idle", "upsert", "read", "confirmed"} => touched[w] = {}
      /\ pc[w] \in {"attach", "totalled", "freeze"} => todo[w] \cup touched[w] \subseteq taught

NewSessionsAreNowhere == \A s \in Sessions \ taught : period[s] = None

FreezerMissesNothing ==
    \A w \in Workers : At(w, "freeze") =>
      InPeriod(target[w], {}) \ locked \subseteq todo[w] \cup touched[w]

\* Confirmed means frozen: of a confirmed period every session is locked, and
\* while the confirmation runs every session not yet locked is on its list.
IndInv ==
    /\ TypeOK
    /\ PeriodsExclude
    /\ RowsExclude
    /\ WrittenAreUnlocked
    /\ WriterHasItsSession
    /\ StatusIsCurrent
    /\ RowsVisitedExist
    /\ NewSessionsAreNowhere
    /\ FreezerMissesNothing
    /\ ConfirmedSessionsAreLocked
=============================================================================
