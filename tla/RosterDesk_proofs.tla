------------------------- MODULE RosterDesk_proofs -------------------------
(***************************************************************************)
(* The safety invariants of RosterDesk for any number of desks, students,  *)
(* days, check-ins and presses: the credits add up, and the marks are of   *)
(* the day shown.                                                          *)
(*                                                                         *)
(* The two need different things.  CreditsAddUp needs what the server's    *)
(* transactions do and that a desk sends only sessions that were recorded, *)
(* which is why loads, logs and confirmations are followed (DeskOK).       *)
(* MarksAreOfTheDay needs only that a request still wanted is of the day   *)
(* shown (PageOK).                                                         *)
(***************************************************************************)
EXTENDS RosterDesk, TLAPS, FiniteSetTheorems

-----------------------------------------------------------------------------
(* The inductive invariant. *)

Recorded == 1 .. Len(sessions)

ServerOK ==
    /\ balance \in [Students -> Nat]
    /\ sessions \in Seq(Session) /\ Len(sessions) <= MaxSessions
    /\ listed \subseteq Days \X Students

\* A request that is still wanted is of the day shown.
PageOK ==
    /\ day \in [Desks -> Days]
    /\ marks \in [Desks -> Marks \cup {None}]
    /\ fetches \in [Desks -> SUBSET Fetch]
    /\ \A d \in Desks : \A f \in fetches[d] : f.wanted => f.day = day[d]
    /\ MarksAreOfTheDay

CopyOK(c) == c \in Copy /\ c.log \subseteq Recorded

\* Who or what an operation is about exists.
OpOK(op) ==
    /\ op \in Op
    /\ op.at = "asked" => /\ op.kind # "undo" => op.cur \in Students
                          /\ op.kind = "undo" => op.cur \in Recorded /\ op.rest = {}
    /\ op.got # None => CopyOK(op.got)

DialogOK(g) == g \in Dialog /\ (g.kind = "undo" => g.session \in Recorded)

DeskOK ==
    /\ db \in [Desks -> Copy] /\ ops \in [Desks -> SUBSET Op]
    /\ busy \in [Desks -> BOOLEAN] /\ dialog \in [Desks -> Dialog \cup {None}]
    /\ pressed \in 0 .. Presses
    /\ \A d \in Desks : /\ CopyOK(db[d])
                        /\ \A op \in ops[d] : OpOK(op)
                        /\ dialog[d] # None => DialogOK(dialog[d])

IInv == ServerOK /\ CreditsAddUp /\ PageOK /\ DeskOK

LEMMA InitInv == Init => IInv
<1> SUFFICES ASSUME Init PROVE IInv
  OBVIOUS
<1> USE RosterAssumption DEF Init
<1>1. ServerOK
  BY DEF ServerOK
<1>2. ASSUME NEW s \in Students PROVE balance[s] + Cardinality(LiveSessions(s)) = Opening[s]
  <2>1. LiveSessions(s) = {}
    BY DEF LiveSessions
  <2>2. Cardinality(LiveSessions(s)) = 0
    BY <2>1, FS_EmptySet
  <2> QED
    BY <2>2
<1>3. CreditsAddUp
  BY <1>2 DEF CreditsAddUp
<1>4. PageOK
  BY DEF PageOK, MarksAreOfTheDay, Marks, Fetch
<1>5. DeskOK
  BY DEF DeskOK, CopyOK, Copy, Recorded, Op, Dialog
<1> QED
  BY <1>1, <1>3, <1>4, <1>5 DEF IInv

-----------------------------------------------------------------------------
(* The page: the day and its attendance. *)

LEMMA PageKeeps ==
  ASSUME PageOK, NEW d \in Desks,
         day' \in [Desks -> Days], marks' \in [Desks -> Marks \cup {None}], fetches' \in [Desks -> SUBSET Fetch],
         \A u \in Desks \ {d} : day'[u] = day[u] /\ marks'[u] = marks[u] /\ fetches'[u] = fetches[u],
         \A f \in fetches'[d] : f.wanted => f.day = day'[d],
         marks'[d] = None \/ marks'[d].day = day'[d] \/ \E f \in fetches'[d] : f.wanted
  PROVE  PageOK'
<1>1. MarksAreOfTheDay'
  BY DEF PageOK, MarksAreOfTheDay
<1>2. \A u \in Desks : \A f \in fetches'[u] : f.wanted => f.day = day'[u]
  BY DEF PageOK
<1> QED
  BY <1>1, <1>2 DEF PageOK

LEMMA PageSame ==
  ASSUME PageOK, UNCHANGED page
  PROVE  PageOK'
BY DEF PageOK, MarksAreOfTheDay, page

LEMMA PageActions ==
  ASSUME PageOK, NEW d \in Desks,
         \/ \E dy \in Days : ChooseDay(d, dy)
         \/ \E f \in fetches[d] : ServeAttendance(d, f) \/ AttendanceArrives(d, f) \/ AttendanceFails(d, f)
  PROVE  PageOK'
<1>0. /\ fetches[d] \in SUBSET Fetch /\ marks[d] \in Marks \cup {None} /\ day[d] \in Days
      /\ \A f \in fetches[d] : f.wanted => f.day = day[d]
      /\ marks[d] = None \/ marks[d].day = day[d] \/ \E f \in fetches[d] : f.wanted
      /\ day \in [Desks -> Days] /\ marks \in [Desks -> Marks \cup {None}]
      /\ fetches \in [Desks -> SUBSET Fetch]
  BY DEF PageOK, MarksAreOfTheDay
<1>1. ASSUME NEW dy \in Days, ChooseDay(d, dy) PROVE PageOK'
  <2> DEFINE new == [day |-> dy, wanted |-> TRUE, got |-> None]
             fs == {[f EXCEPT !.wanted = FALSE] : f \in fetches[d]} \cup {new}
  <2>1. ASSUME NEW f \in fetches[d]
        PROVE  [f EXCEPT !.wanted = FALSE] \in Fetch /\ ~[f EXCEPT !.wanted = FALSE].wanted
    BY <1>0 DEF Fetch
  <2>2. new \in Fetch /\ new.day = dy /\ new.wanted
    BY DEF Fetch
  <2> HIDE DEF new
  <2>3. fs \in SUBSET Fetch /\ (\A f \in fs : f.wanted => f.day = dy) /\ \E f \in fs : f.wanted
    BY <2>1, <2>2
  <2>4. /\ day' = [day EXCEPT ![d] = dy] /\ fetches' = [fetches EXCEPT ![d] = fs]
        /\ UNCHANGED marks
    BY <1>1 DEF ChooseDay, new
  <2> HIDE DEF fs
  <2>5. day'[d] = dy /\ fetches'[d] = fs
    BY <1>0, <2>4
  <2> QED
    BY <1>0, <2>3, <2>4, <2>5, PageKeeps
<1>2. ASSUME NEW f \in fetches[d], ServeAttendance(d, f) PROVE PageOK'
  <2> DEFINE g == [f EXCEPT !.got = Attended(f.day)]
             fs == (fetches[d] \ {f}) \cup {g}
  <2>1. g \in Fetch /\ g.wanted = f.wanted /\ g.day = f.day
    BY <1>0 DEF Fetch, Attended
  <2> HIDE DEF g
  <2>2. fs \in SUBSET Fetch /\ \A e \in fs : e.wanted => e.day = day[d]
    BY <1>0, <2>1
  <2>3. marks[d] = None \/ marks[d].day = day[d] \/ \E e \in fs : e.wanted
    BY <1>0, <2>1
  <2>4. /\ fetches' = [fetches EXCEPT ![d] = fs]
        /\ UNCHANGED <<day, marks>>
    BY <1>2 DEF ServeAttendance, g
  <2> HIDE DEF fs
  <2>5. fetches'[d] = fs
    BY <1>0, <2>4
  <2> QED
    BY <1>0, <2>2, <2>3, <2>4, <2>5, PageKeeps
<1>3. ASSUME NEW f \in fetches[d], NEW m \in Marks \cup {None}, f.wanted => (m = None \/ m.day = f.day),
             marks' = IF f.wanted THEN [marks EXCEPT ![d] = m] ELSE marks,
             fetches' = [fetches EXCEPT ![d] = fetches[d] \ {f}], UNCHANGED day
      PROVE  PageOK'
  <2>1. /\ fetches'[d] = fetches[d] \ {f} /\ marks'[d] = IF f.wanted THEN m ELSE marks[d]
        /\ \A u \in Desks \ {d} : marks'[u] = marks[u] /\ fetches'[u] = fetches[u]
    BY <1>0, <1>3
  <2>2. \A e \in fetches'[d] : e.wanted => e.day = day'[d]
    BY <1>0, <1>3, <2>1
  <2>3. marks'[d] = None \/ marks'[d].day = day'[d] \/ \E e \in fetches'[d] : e.wanted
    BY <1>0, <1>3, <2>1
  <2>4. marks' \in [Desks -> Marks \cup {None}]
    BY <1>0, <1>3
  <2>5. fetches' \in [Desks -> SUBSET Fetch] /\ day' \in [Desks -> Days]
    BY <1>0, <1>3
  <2> QED
    BY <1>3, <2>1, <2>2, <2>3, <2>4, <2>5, PageKeeps
<1>4. ASSUME NEW f \in fetches[d], AttendanceArrives(d, f) PROVE PageOK'
  <2> DEFINE m == [day |-> f.day, done |-> f.got]
  <2>1. m \in Marks /\ m.day = f.day
    BY <1>0, <1>4 DEF AttendanceArrives, Fetch, Marks
  <2> HIDE DEF m
  <2>2. /\ marks' = IF f.wanted THEN [marks EXCEPT ![d] = m] ELSE marks
        /\ fetches' = [fetches EXCEPT ![d] = fetches[d] \ {f}] /\ UNCHANGED day
    BY <1>4 DEF UsesAnswer, AttendanceArrives, m
  <2> QED
    BY <1>3, <2>1, <2>2
<1>5. ASSUME NEW f \in fetches[d], AttendanceFails(d, f) PROVE PageOK'
  <2>1. /\ marks' = IF f.wanted THEN [marks EXCEPT ![d] = None] ELSE marks
        /\ fetches' = [fetches EXCEPT ![d] = fetches[d] \ {f}] /\ UNCHANGED day
    BY <1>5 DEF UsesAnswer, AttendanceFails
  <2> QED
    BY <1>3, <2>1
<1> QED
  BY <1>1, <1>2, <1>4, <1>5

-----------------------------------------------------------------------------
(* The server: a credit for each session that stands. *)

LEMMA LiveIsFinite ==
  ASSUME ServerOK, NEW s \in Students
  PROVE  IsFiniteSet(LiveSessions(s)) /\ Cardinality(LiveSessions(s)) \in Nat
<1>1. Len(sessions) \in Nat /\ LiveSessions(s) \subseteq 1 .. Len(sessions)
  BY DEF ServerOK, LiveSessions
<1>2. IsFiniteSet(1 .. Len(sessions))
  BY <1>1, FS_Interval
<1>3. IsFiniteSet(LiveSessions(s))
  BY <1>1, <1>2, FS_Subset
<1> QED
  BY <1>3, FS_CardinalityType

LEMMA CheckInAddsUp ==
  ASSUME ServerOK, CreditsAddUp, NEW s \in Students, NEW dy \in Days, NEW by \in {"check-in", "batch"},
         CanPay(s), Len(sessions) < MaxSessions, CheckIn(s, dy, by), UNCHANGED listed
  PROVE  ServerOK' /\ CreditsAddUp' /\ Recorded \subseteq Recorded'
<1> DEFINE new == [student |-> s, day |-> dy, live |-> TRUE, by |-> by]
           n == Len(sessions) + 1
<1>1. new \in Session /\ new.live /\ new.student = s
  BY DEF Session
<1>2. sessions' = Append(sessions, new) /\ sessions \in Seq(Session) /\ Len(sessions) \in Nat
  BY DEF CheckIn, ServerOK
<1> HIDE DEF new
<1>3. /\ sessions' \in Seq(Session) /\ Len(sessions') = n /\ sessions'[n] = new
      /\ \A i \in 1 .. Len(sessions) : sessions'[i] = sessions[i]
      /\ DOMAIN sessions' = 1 .. n /\ DOMAIN sessions = 1 .. Len(sessions)
  BY <1>1, <1>2
<1>4. balance[s] \in Nat /\ balance[s] >= 1 /\ balance' = [balance EXCEPT ![s] = balance[s] - 1]
  BY DEF ServerOK, CanPay, CheckIn
<1>5. balance' \in [Students -> Nat] /\ Len(sessions') <= MaxSessions
  BY <1>2, <1>3, <1>4, RosterAssumption DEF ServerOK
<1>6. ServerOK'
  BY <1>3, <1>5 DEF ServerOK
<1>7. Recorded \subseteq Recorded'
  BY <1>2, <1>3 DEF Recorded
<1>8. ASSUME NEW t \in Students
      PROVE  balance'[t] + Cardinality(LiveSessions(t)') = Opening[t]
  <2>0. /\ balance[t] \in Nat /\ Cardinality(LiveSessions(t)) \in Nat /\ IsFiniteSet(LiveSessions(t))
        /\ balance[t] + Cardinality(LiveSessions(t)) = Opening[t]
    BY LiveIsFinite DEF CreditsAddUp, ServerOK
  <2>1. CASE t = s
    <3>1. LiveSessions(t)' = LiveSessions(t) \cup {n} /\ n \notin LiveSessions(t)
      BY <1>1, <1>2, <1>3, <2>1 DEF LiveSessions
    <3>2. Cardinality(LiveSessions(t)') = Cardinality(LiveSessions(t)) + 1
      BY <2>0, <3>1, FS_AddElement
    <3> QED
      BY <1>4, <2>0, <2>1, <3>2 DEF ServerOK
  <2>2. CASE t # s
    <3>1. LiveSessions(t)' = LiveSessions(t)
      BY <1>1, <1>2, <1>3, <2>2 DEF LiveSessions
    <3> QED
      BY <1>4, <2>0, <2>2, <3>1 DEF ServerOK
  <2> QED
    BY <2>1, <2>2
<1> QED
  BY <1>6, <1>7, <1>8 DEF CreditsAddUp

LEMMA VoidAddsUp ==
  ASSUME ServerOK, CreditsAddUp, NEW i \in Recorded, CanVoid(i), Void(i), UNCHANGED listed
  PROVE  ServerOK' /\ CreditsAddUp' /\ Recorded \subseteq Recorded'
<1> DEFINE s == sessions[i].student
           new == [sessions[i] EXCEPT !.live = FALSE]
<1>1. /\ sessions \in Seq(Session) /\ Len(sessions) \in Nat /\ i \in 1 .. Len(sessions)
      /\ sessions[i] \in Session /\ sessions[i].live /\ s \in Students
  <2>1. sessions \in Seq(Session) /\ i \in 1 .. Len(sessions)
    BY DEF ServerOK, Recorded
  <2>2. sessions[i] \in Session /\ Len(sessions) \in Nat
    BY <2>1
  <2> QED
    BY <2>1, <2>2 DEF CanVoid, Session
<1>2. new \in Session /\ ~new.live /\ new.student = s
  BY <1>1 DEF Session
<1>3. sessions' = [sessions EXCEPT ![i] = new]
  BY DEF Void
<1>4. /\ balance' = [balance EXCEPT ![s] = balance[s] + 1] /\ balance[s] \in Nat
  BY <1>1 DEF Void, ServerOK
<1> HIDE DEF new, s
<1>5. /\ sessions' \in Seq(Session) /\ Len(sessions') = Len(sessions)
      /\ DOMAIN sessions' = DOMAIN sessions /\ DOMAIN sessions = 1 .. Len(sessions)
      /\ sessions'[i] = new /\ \A j \in 1 .. Len(sessions) : j # i => sessions'[j] = sessions[j]
  BY <1>1, <1>2, <1>3
<1>6. balance' \in [Students -> Nat]
  BY <1>1, <1>4 DEF ServerOK
<1>7. ServerOK' /\ Recorded \subseteq Recorded'
  BY <1>5, <1>6 DEF ServerOK, Recorded
<1>8. ASSUME NEW t \in Students
      PROVE  balance'[t] + Cardinality(LiveSessions(t)') = Opening[t]
  <2>0. /\ balance[t] \in Nat /\ Cardinality(LiveSessions(t)) \in Nat /\ IsFiniteSet(LiveSessions(t))
        /\ balance[t] + Cardinality(LiveSessions(t)) = Opening[t]
    BY LiveIsFinite DEF CreditsAddUp, ServerOK
  <2>1. CASE t = s
    <3>1. LiveSessions(t)' = LiveSessions(t) \ {i} /\ i \in LiveSessions(t)
      BY <1>1, <1>2, <1>5, <2>1 DEF LiveSessions, s
    <3>2. Cardinality(LiveSessions(t)') = Cardinality(LiveSessions(t)) - 1
      BY <2>0, <3>1, FS_RemoveElement
    <3> QED
      BY <1>4, <2>0, <2>1, <3>2 DEF ServerOK
  <2>2. CASE t # s
    <3>1. LiveSessions(t)' = LiveSessions(t)
      BY <1>1, <1>2, <1>5, <2>2 DEF LiveSessions, s
    <3> QED
      BY <1>1, <1>4, <2>0, <2>2, <3>1 DEF ServerOK
  <2> QED
    BY <2>1, <2>2
<1> QED
  BY <1>7, <1>8 DEF CreditsAddUp

LEMMA ServerSame ==
  ASSUME ServerOK, CreditsAddUp, UNCHANGED <<balance, sessions>>, listed' \subseteq Days \X Students
  PROVE  ServerOK' /\ CreditsAddUp' /\ Recorded \subseteq Recorded'
BY DEF ServerOK, CreditsAddUp, LiveSessions, Recorded

-----------------------------------------------------------------------------
(* The desks. *)

LEMMA DeskKeeps ==
  ASSUME DeskOK, Recorded \subseteq Recorded', NEW d \in Desks,
         db' \in [Desks -> Copy], ops' \in [Desks -> SUBSET Op], busy' \in [Desks -> BOOLEAN],
         dialog' \in [Desks -> Dialog \cup {None}], pressed' \in 0 .. Presses,
         \A u \in Desks \ {d} : db'[u] = db[u] /\ ops'[u] = ops[u] /\ dialog'[u] = dialog[u],
         db'[d].log \subseteq Recorded', \A op \in ops'[d] : OpOK(op)',
         dialog'[d] # None /\ dialog'[d].kind = "undo" => dialog'[d].session \in Recorded'
  PROVE  DeskOK'
<1>1. ASSUME NEW u \in Desks
      PROVE  /\ CopyOK(db[u])' /\ \A op \in ops'[u] : OpOK(op)'
             /\ (dialog[u] # None => DialogOK(dialog[u]))'
  <2>1. CASE u = d
    BY <2>1 DEF CopyOK, DialogOK
  <2>2. CASE u # d
    BY <2>2 DEF DeskOK, CopyOK, OpOK, DialogOK
  <2> QED
    BY <2>1, <2>2
<1> QED
  BY <1>1 DEF DeskOK

\* An operation begins, goes on as another or ends; the rest of the desk stays.
LEMMA OpsKeep ==
  ASSUME DeskOK, Recorded \subseteq Recorded', NEW d \in Desks,
         NEW old \in SUBSET Op, NEW new \in SUBSET Op, \A op \in new : OpOK(op)',
         ops' = [ops EXCEPT ![d] = (ops[d] \ old) \cup new],
         busy' \in [Desks -> BOOLEAN], pressed' \in 0 .. Presses, UNCHANGED <<db, dialog>>
  PROVE  DeskOK'
<1>1. /\ db \in [Desks -> Copy] /\ ops \in [Desks -> SUBSET Op] /\ dialog \in [Desks -> Dialog \cup {None}]
      /\ CopyOK(db[d]) /\ \A op \in ops[d] : OpOK(op)
      /\ dialog[d] # None => DialogOK(dialog[d])
  BY DEF DeskOK
<1>2. /\ ops' \in [Desks -> SUBSET Op] /\ ops'[d] = (ops[d] \ old) \cup new
      /\ \A u \in Desks \ {d} : ops'[u] = ops[u]
  BY <1>1
<1>3. \A op \in ops[d] : OpOK(op)'
  BY <1>1 DEF OpOK, CopyOK
<1>4. \A op \in ops'[d] : OpOK(op)'
  BY <1>2, <1>3
<1>5. db'[d].log \subseteq Recorded'
  BY <1>1 DEF CopyOK
<1>6. dialog'[d] # None /\ dialog'[d].kind = "undo" => dialog'[d].session \in Recorded'
  BY <1>1 DEF DialogOK
<1> QED
  BY <1>1, <1>2, <1>4, <1>5, <1>6, DeskKeeps

\* The case of one operation that goes on as another.
LEMMA OpMoves ==
  ASSUME DeskOK, Recorded \subseteq Recorded', NEW d \in Desks,
         NEW op \in Op, NEW new \in Op, OpOK(new)',
         ops' = [ops EXCEPT ![d] = (ops[d] \ {op}) \cup {new}],
         busy' \in [Desks -> BOOLEAN], pressed' \in 0 .. Presses, UNCHANGED <<db, dialog>>
  PROVE  DeskOK'
<1>1. {op} \in SUBSET Op /\ {new} \in SUBSET Op
  OBVIOUS
<1>2. \A e \in {new} : OpOK(e)'
  OBVIOUS
<1> QED
  BY <1>1, <1>2, OpsKeep

LEMMA ProceedKeeps ==
  ASSUME DeskOK, NEW d \in Desks, NEW op \in ops[d], op.at = "asked", NEW ok \in BOOLEAN,
         Proceed(d, op, ok), Recorded \subseteq Recorded', UNCHANGED <<db, dialog, pressed>>
  PROVE  DeskOK'
<1>1. /\ op \in Op /\ OpOK(op) /\ busy \in [Desks -> BOOLEAN] /\ pressed' \in 0 .. Presses
      /\ {op} \in SUBSET Op
  BY DEF DeskOK
<1>2. ASSUME NEW s \in op.rest, Move(d, op, [op EXCEPT !.cur = s, !.rest = @ \ {s}]), UNCHANGED busy
      PROVE  DeskOK'
  <2> DEFINE new == [op EXCEPT !.cur = s, !.rest = @ \ {s}]
  <2>1. s \in Students /\ op.kind # "undo"
    BY <1>1 DEF Op, OpOK
  <2>2. new \in Op
    BY <1>1, <2>1 DEF Op
  <2>3. new.cur = s /\ new.kind = op.kind /\ new.got = op.got
    BY <1>1 DEF Op
  <2> HIDE DEF new
  <2>4. OpOK(new)'
    BY <1>1, <2>1, <2>2, <2>3 DEF OpOK, CopyOK
  <2>5. ops' = [ops EXCEPT ![d] = (ops[d] \ {op}) \cup {new}] /\ busy' \in [Desks -> BOOLEAN]
    BY <1>1, <1>2 DEF Move, new
  <2> QED
    BY <1>1, <2>2, <2>4, <2>5, OpMoves
<1>3. ASSUME Move(d, op, [op EXCEPT !.cur = None, !.at = "loading"]), busy' = [busy EXCEPT ![d] = TRUE]
      PROVE  DeskOK'
  <2> DEFINE new == [op EXCEPT !.cur = None, !.at = "loading"]
  <2>1. new \in Op /\ new.at = "loading" /\ new.got = op.got
    BY <1>1 DEF Op
  <2> HIDE DEF new
  <2>2. OpOK(new)'
    BY <1>1, <2>1 DEF OpOK, CopyOK
  <2>3. ops' = [ops EXCEPT ![d] = (ops[d] \ {op}) \cup {new}] /\ busy' \in [Desks -> BOOLEAN]
    BY <1>1, <1>3 DEF Move, new
  <2> QED
    BY <1>1, <2>1, <2>2, <2>3, OpMoves
<1>4. ASSUME Finish(d, op) PROVE DeskOK'
  <2>1. ops' = [ops EXCEPT ![d] = (ops[d] \ {op}) \cup {}] /\ busy' \in [Desks -> BOOLEAN]
    BY <1>1, <1>4 DEF Finish
  <2>2. {} \in SUBSET Op /\ \A e \in {} : OpOK(e)'
    OBVIOUS
  <2> QED
    BY <1>1, <2>1, <2>2, OpsKeep
<1> QED
  BY <1>2, <1>3, <1>4 DEF Proceed

LEMMA StartKeeps ==
  ASSUME DeskOK, NEW d \in Desks, NEW op \in Op, OpOK(op)', Start(d, op),
         Recorded \subseteq Recorded', pressed' \in 0 .. Presses, UNCHANGED <<db, dialog>>
  PROVE  DeskOK'
<1>1. ops' = [ops EXCEPT ![d] = (ops[d] \ {}) \cup {op}] /\ busy' \in [Desks -> BOOLEAN]
  BY DEF Start, DeskOK
<1>2. {op} \in SUBSET Op /\ {} \in SUBSET Op /\ \A e \in {op} : OpOK(e)'
  OBVIOUS
<1> QED
  BY <1>1, <1>2, OpsKeep

LEMMA FinishKeeps ==
  ASSUME DeskOK, NEW d \in Desks, NEW op \in ops[d], Finish(d, op),
         Recorded \subseteq Recorded', UNCHANGED <<dialog, pressed>>,
         db' \in [Desks -> Copy], \A u \in Desks \ {d} : db'[u] = db[u], db'[d].log \subseteq Recorded'
  PROVE  DeskOK'
<1>1. /\ ops \in [Desks -> SUBSET Op] /\ busy \in [Desks -> BOOLEAN] /\ pressed \in 0 .. Presses
      /\ dialog \in [Desks -> Dialog \cup {None}] /\ \A o \in ops[d] : OpOK(o)
      /\ dialog[d] # None => DialogOK(dialog[d])
  BY DEF DeskOK
<1>2. /\ ops' \in [Desks -> SUBSET Op] /\ ops'[d] \subseteq ops[d] /\ busy' \in [Desks -> BOOLEAN]
      /\ \A u \in Desks \ {d} : ops'[u] = ops[u]
  BY <1>1 DEF Finish
<1>3. \A o \in ops'[d] : OpOK(o)'
  BY <1>1, <1>2 DEF OpOK, CopyOK
<1>4. dialog'[d] # None /\ dialog'[d].kind = "undo" => dialog'[d].session \in Recorded'
  BY <1>1 DEF DialogOK
<1> QED
  BY <1>1, <1>2, <1>3, <1>4, DeskKeeps

LEMMA CallIsOK ==
  ASSUME NEW kind \in {"check-in", "batch", "undo", "add", "remove"}, NEW dy \in Days, NEW cur,
         kind # "undo" => cur \in Students, kind = "undo" => cur \in Recorded,
         ServerOK, Recorded \subseteq Recorded', NEW op, op = Call(kind, dy, cur)
  PROVE  op \in Op /\ OpOK(op)'
<1>1. cur \in Students \cup Indices
  <2>1. Recorded \subseteq Indices
    BY RosterAssumption DEF Recorded, Indices, ServerOK
  <2> QED
    BY <2>1
<1>2. op \in Op
  BY <1>1 DEF Call, Op
<1>3. op.kind = kind /\ op.cur = cur /\ op.rest = {} /\ op.got = None
  BY DEF Call
<1>4. kind = "undo" => cur \in Recorded'
  OBVIOUS
<1> QED
  BY <1>2, <1>3, <1>4 DEF OpOK

LEMMA AskKeeps ==
  ASSUME DeskOK, NEW d \in Desks, day[d] \in Days, NEW kind \in {"check-in", "batch", "undo"},
         NEW who \in SUBSET Students, NEW session \in Indices \cup {None},
         kind = "undo" => session \in Recorded, Ask(d, kind, who, session),
         Recorded \subseteq Recorded', pressed' \in 0 .. Presses, UNCHANGED <<db, ops, busy>>
  PROVE  DeskOK'
<1> DEFINE g == [kind |-> kind, day |-> day[d], who |-> who, session |-> session, busy |-> busy[d]]
<1>1. /\ db \in [Desks -> Copy] /\ ops \in [Desks -> SUBSET Op] /\ busy \in [Desks -> BOOLEAN]
      /\ dialog \in [Desks -> Dialog \cup {None}] /\ CopyOK(db[d]) /\ \A o \in ops[d] : OpOK(o)
  BY DEF DeskOK
<1>2. g \in Dialog /\ g.kind = kind /\ g.session = session
  BY <1>1 DEF Dialog
<1>3. dialog' = [dialog EXCEPT ![d] = g]
  BY DEF Ask
<1> HIDE DEF g
<1>4. /\ dialog' \in [Desks -> Dialog \cup {None}] /\ dialog'[d] = g
      /\ \A u \in Desks \ {d} : dialog'[u] = dialog[u]
  BY <1>1, <1>2, <1>3
<1>5. \A o \in ops'[d] : OpOK(o)'
  BY <1>1 DEF OpOK, CopyOK
<1>6. db'[d].log \subseteq Recorded'
  BY <1>1 DEF CopyOK
<1>7. dialog'[d] # None /\ dialog'[d].kind = "undo" => dialog'[d].session \in Recorded'
  BY <1>2, <1>4
<1> QED
  BY <1>1, <1>4, <1>5, <1>6, <1>7, DeskKeeps

\* What the actions of a person leave alone, and what they may use.
LEMMA Nothing ==
  ASSUME IInv, UNCHANGED server
  PROVE  ServerOK' /\ CreditsAddUp' /\ Recorded \subseteq Recorded'
<1>1. UNCHANGED <<balance, sessions, listed>> /\ ServerOK /\ CreditsAddUp
  BY DEF IInv, server
<1>2. listed' \subseteq Days \X Students
  BY <1>1 DEF ServerOK
<1> QED
  BY <1>1, <1>2, ServerSame

LEMMA PersonKeeps ==
  ASSUME IInv, NEW d \in Desks, Person(d) \/ Reconnect(d)
  PROVE  IInv'
<1>0. /\ ServerOK /\ PageOK /\ DeskOK /\ day[d] \in Days /\ CopyOK(db[d])
      /\ pressed \in 0 .. Presses /\ Recorded \subseteq Indices
  BY RosterAssumption DEF IInv, PageOK, DeskOK, ServerOK, Recorded, Indices
<1>1. Press => pressed' \in 0 .. Presses
  BY <1>0, RosterAssumption DEF Press
<1>2. ASSUME NEW dy \in Days, ChooseDay(d, dy) PROVE IInv'
  <2>1. PageOK'
    BY <1>0, <1>2, PageActions
  <2>2. UNCHANGED <<server, db, busy, dialog, ops>> /\ pressed' \in 0 .. Presses
    BY <1>1, <1>2 DEF ChooseDay
  <2>3. ServerOK' /\ CreditsAddUp' /\ Recorded \subseteq Recorded'
    BY <2>2, Nothing
  <2>4. DeskOK'
    BY <1>0, <2>2, <2>3 DEF DeskOK, CopyOK, OpOK, DialogOK
  <2> QED
    BY <2>1, <2>3, <2>4 DEF IInv
<1>3. ASSUME UNCHANGED <<server, page>>, Recorded \subseteq Recorded' => DeskOK' PROVE IInv'
  BY <1>0, <1>3, Nothing, PageSame DEF IInv
<1>4. ASSUME NEW kind \in {"check-in", "batch", "undo", "add", "remove"}, NEW s \in Students, kind # "undo",
             Start(d, Call(kind, day[d], s)), pressed' \in 0 .. Presses, UNCHANGED <<server, page, db, dialog>>
      PROVE  IInv'
  <2>1. Recorded \subseteq Recorded'
    BY <1>4, Nothing
  <2>2. PICK dy \in Days : dy = day[d]
    BY <1>0
  <2>3. PICK op : op = Call(kind, dy, s)
    OBVIOUS
  <2>4. op \in Op /\ OpOK(op)'
    BY <1>0, <1>4, <2>1, <2>3, CallIsOK
  <2>5. Start(d, op) /\ UNCHANGED <<db, dialog>>
    BY <1>4, <2>2, <2>3
  <2>6. DeskOK'
    BY <1>0, <1>4, <2>1, <2>4, <2>5, StartKeeps
  <2> QED
    BY <1>3, <1>4, <2>6
<1>5. ASSUME NEW s \in Students, PressCheckIn(d, s) PROVE IInv'
  <2>1. CASE AsksFirst(d)
    <3>1. /\ Ask(d, "check-in", {s}, None) /\ UNCHANGED <<server, page, db, busy, ops>>
          /\ pressed' \in 0 .. Presses
      BY <1>1, <1>5, <2>1 DEF PressCheckIn
    <3> QED
      BY <1>0, <1>3, <3>1, AskKeeps
  <2>2. CASE ~AsksFirst(d)
    <3>1. /\ Start(d, Call("check-in", day[d], s)) /\ UNCHANGED <<server, page, db, dialog>>
          /\ pressed' \in 0 .. Presses
      BY <1>1, <1>5, <2>2 DEF PressCheckIn
    <3> QED
      BY <1>4, <3>1
  <2> QED
    BY <2>1, <2>2
<1>6. ASSUME NEW s \in Students, PressUndo(d, s) PROVE IInv'
  <2>1. PICK i \in db[d].log : Ask(d, "undo", {s}, i)
    BY <1>6 DEF PressUndo
  <2>2. i \in Recorded /\ i \in Indices
    BY <1>0 DEF CopyOK
  <2>3. UNCHANGED <<server, page, db, busy, ops>> /\ pressed' \in 0 .. Presses
    BY <1>1, <1>6 DEF PressUndo
  <2> QED
    BY <1>0, <1>3, <2>1, <2>2, <2>3, AskKeeps
<1>7. ASSUME NEW s \in Students, PressAdd(d, s) \/ PressRemove(d, s) PROVE IInv'
  BY <1>1, <1>4, <1>7 DEF PressAdd, PressRemove
<1>8. CASE PressBatch(d)
  <2>1. Ask(d, "batch", Eligible(d), None) /\ UNCHANGED <<server, page, db, busy, ops>> /\ pressed' \in 0 .. Presses
    BY <1>1, <1>8 DEF PressBatch
  <2>2. Eligible(d) \in SUBSET Students
    BY <1>0, RosterAssumption DEF Eligible, InDay
  <2> QED
    BY <1>0, <1>3, <2>1, <2>2, AskKeeps
<1>9. CASE Confirm(d)
  <2>1. UNCHANGED <<server, page, db, pressed>> /\ dialog' = [dialog EXCEPT ![d] = None] /\ dialog[d] # None
    BY <1>9 DEF Confirm
  <2>2. Recorded \subseteq Recorded'
    BY <2>1, Nothing
  <2>3. dialog[d] \in Dialog /\ DialogOK(dialog[d])
    BY <1>0, <2>1 DEF DeskOK
  <2>4. ASSUME NEW op \in Op, OpOK(op)', Start(d, op) PROVE IInv'
    <3>1. /\ db \in [Desks -> Copy] /\ ops \in [Desks -> SUBSET Op] /\ busy \in [Desks -> BOOLEAN]
          /\ dialog \in [Desks -> Dialog \cup {None}] /\ \A o \in ops[d] : OpOK(o)
      BY <1>0 DEF DeskOK
    <3>2. /\ ops' \in [Desks -> SUBSET Op] /\ ops'[d] = ops[d] \cup {op} /\ busy' \in [Desks -> BOOLEAN]
          /\ dialog' \in [Desks -> Dialog \cup {None}] /\ dialog'[d] = None
          /\ \A u \in Desks \ {d} : ops'[u] = ops[u] /\ dialog'[u] = dialog[u]
      BY <2>1, <2>4, <3>1 DEF Start
    <3>3. \A o \in ops'[d] : OpOK(o)'
      BY <2>2, <2>4, <3>1, <3>2 DEF OpOK, CopyOK
    <3>4. db'[d].log \subseteq Recorded'
      BY <1>0, <2>1, <2>2 DEF CopyOK
    <3>5. DeskOK'
      BY <1>0, <2>1, <2>2, <3>1, <3>2, <3>3, <3>4, DeskKeeps
    <3> QED
      BY <1>3, <2>1, <3>5
  <2>5. CASE dialog[d].kind = "undo" /\ Start(d, Call("undo", dialog[d].day, dialog[d].session))
    <3>1. dialog[d].day \in Days /\ dialog[d].session \in Recorded
      BY <2>3, <2>5 DEF Dialog, DialogOK
    <3>2. PICK dy \in Days, i \in Recorded : dy = dialog[d].day /\ i = dialog[d].session
      BY <3>1
    <3>3. PICK op : op = Call("undo", dy, i)
      OBVIOUS
    <3>4. op \in Op /\ OpOK(op)'
      BY <1>0, <2>2, <3>2, <3>3, CallIsOK
    <3> QED
      BY <2>4, <2>5, <3>2, <3>3, <3>4
  <2>6. ASSUME NEW s \in dialog[d].who, dialog[d].kind # "undo",
               Start(d, [Call(dialog[d].kind, dialog[d].day, s) EXCEPT !.rest = dialog[d].who \ {s}])
        PROVE  IInv'
    <3>1. /\ dialog[d].day \in Days /\ s \in Students /\ dialog[d].who \subseteq Students
          /\ dialog[d].kind \in {"check-in", "batch"}
      BY <2>3, <2>6 DEF Dialog
    <3>2. PICK dy \in Days, kind \in {"check-in", "batch"} : dy = dialog[d].day /\ kind = dialog[d].kind
      BY <3>1
    <3>3. PICK c : c = Call(kind, dy, s)
      OBVIOUS
    <3>4. c \in Op /\ c.kind = kind /\ c.cur = s /\ c.got = None
      BY <1>0, <2>2, <3>1, <3>3, CallIsOK DEF Call
    <3>5. PICK op : op = [c EXCEPT !.rest = dialog[d].who \ {s}]
      OBVIOUS
    <3>6. op \in Op /\ op.kind = kind /\ op.cur = s /\ op.got = None
      BY <3>1, <3>4, <3>5 DEF Op
    <3>7. OpOK(op)'
      BY <3>1, <3>6 DEF OpOK
    <3> QED
      BY <2>4, <2>6, <3>2, <3>3, <3>5, <3>6, <3>7
  <2> QED
    BY <1>9, <2>5, <2>6 DEF Confirm
<1>10. CASE Cancel(d)
  <2>1. UNCHANGED <<server, page, db, busy, ops, pressed>> /\ dialog' = [dialog EXCEPT ![d] = None]
    BY <1>10 DEF Cancel
  <2>2. Recorded \subseteq Recorded'
    BY <2>1, Nothing
  <2>3. DeskOK'
    BY <1>0, <2>1, <2>2 DEF DeskOK, CopyOK, OpOK, DialogOK
  <2> QED
    BY <1>3, <2>1, <2>3
<1>11. CASE Reconnect(d)
  <2>1. PICK dy \in Days : dy = day[d]
    BY <1>0
  <2>2. PICK op : op = [Call("heartbeat", dy, None) EXCEPT !.at = "loading"]
    OBVIOUS
  <2>3. op \in Op /\ op.at = "loading" /\ op.got = None
    BY <2>2 DEF Call, Op
  <2>4. OpOK(op)'
    BY <2>3 DEF OpOK
  <2>5. Start(d, op) /\ UNCHANGED <<server, page, db, dialog>> /\ pressed' \in 0 .. Presses
    BY <1>1, <1>11, <2>1, <2>2 DEF Reconnect
  <2>6. Recorded \subseteq Recorded' => DeskOK'
    BY <1>0, <2>3, <2>4, <2>5, StartKeeps
  <2> QED
    BY <1>3, <2>5, <2>6
<1> QED
  BY <1>2, <1>5, <1>6, <1>7, <1>8, <1>9, <1>10, <1>11 DEF Person

-----------------------------------------------------------------------------
(* The calls. *)

\* A call that leaves what the server recorded, or has added to it, and goes on.
LEMMA ServedKeeps ==
  ASSUME IInv, NEW d \in Desks, NEW op \in ops[d], op.at = "asked", NEW ok \in BOOLEAN, Proceed(d, op, ok),
         ServerOK', CreditsAddUp', Recorded \subseteq Recorded', UNCHANGED <<page, db, dialog, pressed>>
  PROVE  IInv'
<1>1. DeskOK /\ PageOK
  BY DEF IInv
<1>2. DeskOK'
  BY <1>1, ProceedKeeps
<1>3. PageOK'
  BY <1>1, PageSame
<1> QED
  BY <1>2, <1>3 DEF IInv

LEMMA FinishedKeeps ==
  ASSUME IInv, NEW d \in Desks, NEW op \in ops[d], Finish(d, op), UNCHANGED <<server, page, dialog, pressed>>,
         NEW c, CopyOK(c), db' = [db EXCEPT ![d] = c] \/ UNCHANGED db
  PROVE  IInv'
<1>1. DeskOK /\ PageOK /\ db \in [Desks -> Copy] /\ CopyOK(db[d])
  BY DEF IInv, DeskOK
<1>2. ServerOK' /\ CreditsAddUp' /\ Recorded \subseteq Recorded'
  BY Nothing
<1>3. /\ db' \in [Desks -> Copy] /\ \A u \in Desks \ {d} : db'[u] = db[u]
      /\ db'[d].log \subseteq Recorded'
  BY <1>1, <1>2 DEF CopyOK
<1>4. DeskOK'
  BY <1>1, <1>2, <1>3, FinishKeeps
<1>5. PageOK'
  BY <1>1, PageSame
<1> QED
  BY <1>2, <1>4, <1>5 DEF IInv

LEMMA LoadedIsOK ==
  ASSUME ServerOK
  PROVE  CopyOK(Loaded)
<1>1. DOMAIN sessions = Recorded /\ Recorded \subseteq Indices
  BY RosterAssumption DEF ServerOK, Recorded, Indices
<1> QED
  BY <1>1 DEF Loaded, CopyOK, Copy, ServerOK

LEMMA AnswerKeeps ==
  ASSUME IInv, NEW d \in Desks, Answer(d)
  PROVE  IInv'
<1>0. ServerOK /\ CreditsAddUp /\ PageOK /\ DeskOK /\ ops[d] \in SUBSET Op /\ \A op \in ops[d] : OpOK(op)
  BY DEF IInv, DeskOK
<1>1. Heard \subseteq BOOLEAN
  BY DEF Heard
<1>2. ASSUME NEW f \in fetches[d], ServeAttendance(d, f) \/ AttendanceArrives(d, f) \/ AttendanceFails(d, f)
      PROVE  IInv'
  <2>1. UNCHANGED <<server, db, busy, dialog, ops, pressed>>
    BY <1>2 DEF ServeAttendance, AttendanceArrives, AttendanceFails
  <2>2. ServerOK' /\ CreditsAddUp' /\ Recorded \subseteq Recorded'
    BY <2>1, Nothing
  <2>3. DeskOK'
    BY <1>0, <2>1, <2>2 DEF DeskOK, CopyOK, OpOK, DialogOK
  <2>4. PageOK'
    BY <1>0, <1>2, PageActions
  <2> QED
    BY <2>2, <2>3, <2>4 DEF IInv
<1>3. ASSUME NEW op \in ops[d], ServeCheckIn(d, op) PROVE IInv'
  <2>1. /\ op.at = "asked" /\ op.kind \in {"check-in", "batch"} /\ op.cur \in Students /\ op.day \in Days
        /\ UNCHANGED <<listed, page, db, dialog, pressed>>
    BY <1>0, <1>3 DEF ServeCheckIn, OpOK, Op
  <2>2. CASE CanPay(op.cur) /\ Len(sessions) < MaxSessions /\ CheckIn(op.cur, op.day, op.kind)
    <3>1. ServerOK' /\ CreditsAddUp' /\ Recorded \subseteq Recorded'
      BY <1>0, <2>1, <2>2, CheckInAddsUp
    <3>2. PICK ok \in BOOLEAN : Proceed(d, op, ok)
      BY <1>1, <1>3 DEF ServeCheckIn
    <3> QED
      BY <2>1, <3>1, <3>2, ServedKeeps
  <2>3. CASE UNCHANGED <<balance, sessions>> /\ Proceed(d, op, FALSE)
    <3>1. ServerOK' /\ CreditsAddUp' /\ Recorded \subseteq Recorded'
      BY <2>1, <2>3, Nothing DEF server
    <3> QED
      BY <2>1, <2>3, <3>1, ServedKeeps
  <2> QED
    BY <1>3, <2>2, <2>3 DEF ServeCheckIn
<1>4. ASSUME NEW op \in ops[d], ServeVoid(d, op) PROVE IInv'
  <2>1. /\ op.at = "asked" /\ op.kind = "undo" /\ op.cur \in Recorded
        /\ UNCHANGED <<listed, page, db, dialog, pressed>>
    BY <1>0, <1>4 DEF ServeVoid, OpOK
  <2>2. CASE CanVoid(op.cur) /\ Void(op.cur)
    <3>1. ServerOK' /\ CreditsAddUp' /\ Recorded \subseteq Recorded'
      BY <1>0, <2>1, <2>2, VoidAddsUp
    <3>2. PICK ok \in BOOLEAN : Proceed(d, op, ok)
      BY <1>1, <1>4 DEF ServeVoid
    <3> QED
      BY <2>1, <3>1, <3>2, ServedKeeps
  <2>3. CASE UNCHANGED <<balance, sessions>> /\ Proceed(d, op, FALSE)
    <3>1. ServerOK' /\ CreditsAddUp' /\ Recorded \subseteq Recorded'
      BY <2>1, <2>3, Nothing DEF server
    <3> QED
      BY <2>1, <2>3, <3>1, ServedKeeps
  <2> QED
    BY <1>4, <2>2, <2>3 DEF ServeVoid
<1>5. ASSUME NEW op \in ops[d], ServeEntry(d, op) PROVE IInv'
  <2>1. /\ op.at = "asked" /\ op.cur \in Students /\ op.day \in Days
        /\ UNCHANGED <<balance, sessions, page, db, dialog, pressed>>
    BY <1>0, <1>5 DEF ServeEntry, OpOK, Op
  <2>2. listed' \subseteq Days \X Students
    BY <1>0, <1>5, <2>1 DEF ServeEntry, ServerOK
  <2>3. ServerOK' /\ CreditsAddUp' /\ Recorded \subseteq Recorded'
    BY <1>0, <2>1, <2>2, ServerSame
  <2>4. PICK heard \in Heard : Proceed(d, op, heard /\ (op.kind = "add" \/ <<op.day, op.cur>> \in listed))
    BY <1>5 DEF ServeEntry
  <2>5. PICK ok \in BOOLEAN : ok = (heard /\ (op.kind = "add" \/ <<op.day, op.cur>> \in listed))
    BY <1>1
  <2> QED
    BY <2>1, <2>3, <2>4, <2>5, ServedKeeps
<1>6. ASSUME NEW op \in ops[d], CallFails(d, op) PROVE IInv'
  <2>1. op.at = "asked" /\ Proceed(d, op, FALSE) /\ UNCHANGED <<server, page, db, dialog, pressed>>
    BY <1>6 DEF CallFails
  <2>2. ServerOK' /\ CreditsAddUp' /\ Recorded \subseteq Recorded'
    BY <2>1, Nothing
  <2> QED
    BY <2>1, <2>2, ServedKeeps
<1>7. ASSUME NEW op \in ops[d], ServeLoad(d, op) PROVE IInv'
  <2>1. /\ op.at = "loading" /\ Move(d, op, [op EXCEPT !.got = Loaded])
        /\ UNCHANGED <<server, page, db, busy, dialog, pressed>>
    BY <1>7 DEF ServeLoad
  <2>2. ServerOK' /\ CreditsAddUp' /\ Recorded \subseteq Recorded'
    BY <2>1, Nothing
  <2>3. PICK c : c = Loaded
    OBVIOUS
  <2>4. c \in Copy /\ c.log \subseteq Recorded
    BY <1>0, <2>3, LoadedIsOK DEF CopyOK
  <2>5. PICK new : new = [op EXCEPT !.got = c]
    OBVIOUS
  <2>6. new \in Op /\ new.at = "loading" /\ new.got = c
    BY <1>0, <2>1, <2>4, <2>5 DEF Op
  <2>7. OpOK(new)'
    BY <2>2, <2>4, <2>6 DEF OpOK, CopyOK
  <2>8. /\ ops' = [ops EXCEPT ![d] = (ops[d] \ {op}) \cup {new}] /\ busy' \in [Desks -> BOOLEAN]
        /\ pressed' \in 0 .. Presses /\ op \in Op
    BY <1>0, <2>1, <2>3, <2>5, <2>6 DEF Move, DeskOK
  <2>9. DeskOK'
    BY <1>0, <2>1, <2>2, <2>6, <2>7, <2>8, OpMoves
  <2> QED
    BY <1>0, <2>1, <2>2, <2>9, PageSame DEF IInv
<1>8. ASSUME NEW op \in ops[d], LoadEnds(d, op) PROVE IInv'
  <2>1. CopyOK(op.got)
    BY <1>0, <1>8 DEF LoadEnds, OpOK
  <2>2. Finish(d, op) /\ db' = [db EXCEPT ![d] = op.got] /\ UNCHANGED <<server, page, dialog, pressed>>
    BY <1>8 DEF LoadEnds
  <2> QED
    BY <2>1, <2>2, FinishedKeeps
<1>9. ASSUME NEW op \in ops[d], LoadFails(d, op) PROVE IInv'
  <2>1. Finish(d, op) /\ UNCHANGED <<server, page, db, dialog, pressed>>
    BY <1>9 DEF LoadFails
  <2>2. PICK c : c = Loaded
    OBVIOUS
  <2>3. CopyOK(c)
    BY <1>0, <2>2, LoadedIsOK
  <2> QED
    BY <2>1, <2>3, FinishedKeeps
<1> QED
  BY <1>2, <1>3, <1>4, <1>5, <1>6, <1>7, <1>8, <1>9 DEF Answer

-----------------------------------------------------------------------------
LEMMA NextInv == IInv /\ [Next]_vars => IInv'
<1> SUFFICES ASSUME IInv, [Next]_vars PROVE IInv'
  OBVIOUS
<1>1. CASE UNCHANGED vars
  <2>1. UNCHANGED <<server, db, page, busy, dialog, ops, pressed>>
    BY <1>1 DEF vars
  <2>2. ServerOK' /\ CreditsAddUp' /\ Recorded \subseteq Recorded'
    BY <2>1, Nothing
  <2>3. DeskOK'
    BY <2>1, <2>2 DEF IInv, DeskOK, CopyOK, OpOK, DialogOK
  <2> QED
    BY <2>1, <2>2, <2>3, PageSame DEF IInv
<1>2. CASE Next
  BY <1>2, AnswerKeeps, PersonKeeps DEF Next
<1> QED
  BY <1>1, <1>2

THEOREM Invariance == Spec => []IInv
  BY InitInv, NextInv, PTL DEF Spec

\* Every variable keeps its shape: a desk sends only days, students and sessions that
\* exist, and no check-in or undo takes an account below zero.
THEOREM TypeCorrect == Spec => []TypeOK
<1>1. IInv => TypeOK
  BY DEF IInv, ServerOK, PageOK, DeskOK, TypeOK
<1> QED
  BY <1>1, Invariance, PTL

\* However many desks check in and undo, and whatever answers are lost: a student has
\* paid one credit for each session that stands (the attendance routes of the server).
THEOREM CreditsAreKept == Spec => []CreditsAddUp
<1>1. IInv => CreditsAddUp
  BY DEF IInv
<1> QED
  BY <1>1, Invariance, PTL

\* Once no attendance request is awaited, the marks are of the day shown, in whatever
\* order the answers to the days chosen arrive (the cancelled flag of the roster's effect).
THEOREM MarksOfTheDay == Spec => []MarksAreOfTheDay
<1>1. IInv => MarksAreOfTheDay
  BY DEF IInv, PageOK
<1> QED
  BY <1>1, Invariance, PTL

=============================================================================
