----------------------------- MODULE RosterDesk -----------------------------
(***************************************************************************)
(* The roster page of the staff console: check-in, batch check-in, undo    *)
(* and the manual list of a day, as several open consoles run them against *)
(* the attendance routes of the server.                                    *)
(*                                                                         *)
(* A console (a desk) draws a day from three copies: its last load of the  *)
(* whole studio, the attendance of the day it fetched when the day was     *)
(* chosen, and one flag, busy, that its buttons look at.  What a handler   *)
(* read when it started, or when its confirmation was opened, is carried   *)
(* in the operation, as the closure carries it in the code.                *)
(***************************************************************************)
EXTENDS Naturals, Sequences, FiniteSets

CONSTANTS
    Desks,          \* open consoles
    Students,
    Days,           \* days a roster can be opened for
    Tomorrow,       \* the days of Days that have not come yet (at most a day ahead)
    Timetabled,     \* [Days -> SUBSET Students]: in class by the weekly timetable
    Opening,        \* [Students -> Nat]: credits before the first check-in
    MaxSessions,    \* bound: check-ins the server records
    Presses,        \* bound: buttons pressed, days chosen and reconnections, of all desks
    Losses,         \* whether requests and answers can be lost
    None

ASSUME RosterAssumption ==
    /\ Tomorrow \subseteq Days
    /\ Timetabled \in [Days -> SUBSET Students]
    /\ Opening \in [Students -> Nat]
    /\ MaxSessions \in Nat /\ Presses \in Nat
    /\ Losses \in BOOLEAN

VARIABLES
    balance,    \* server: credits of each student
    sessions,   \* server: attendance sessions in the order they were recorded
    listed,     \* server: <<day, student>> of the manual roster entries
    db,         \* the desk's last load: balances, check-in log, manual entries
    day,        \* the day its roster shows
    marks,      \* the attendance it fetched last, or None
    fetches,    \* its attendance requests in flight
    busy,       \* its busy flag
    dialog,     \* its open confirmation, or None
    ops,        \* its operations that have not ended
    pressed     \* buttons pressed, days chosen and reconnections so far

server == <<balance, sessions, listed>>
page == <<day, marks, fetches>>
vars == <<server, db, page, busy, dialog, ops, pressed>>

Session == [student : Students, day : Days, live : BOOLEAN, by : {"check-in", "batch"}]
Indices == 1 .. MaxSessions
Copy == [balance : [Students -> Nat], log : SUBSET Indices, listed : SUBSET (Days \X Students)]
Marks == [day : Days, done : SUBSET Students]
Fetch == [day : Days, wanted : BOOLEAN, got : (SUBSET Students) \cup {None}]
Op == [kind : {"check-in", "batch", "undo", "add", "remove", "heartbeat"}, day : Days,
       cur : Students \cup Indices \cup {None}, rest : SUBSET Students,
       at : {"asked", "loading"}, got : Copy \cup {None}]
Dialog == [kind : {"check-in", "batch", "undo"}, day : Days, who : SUBSET Students,
           session : Indices \cup {None}, busy : BOOLEAN]

IsOf(i, s, dy) == sessions[i].student = s /\ sessions[i].day = dy
\* What the attendance of a day answers: who has a session that was not voided.
Attended(dy) == {s \in Students : \E i \in DOMAIN sessions : sessions[i].live /\ IsOf(i, s, dy)}
\* What a load answers; the log hides voided check-ins.
Loaded == [balance |-> balance, listed |-> listed,
           log |-> {i \in DOMAIN sessions : sessions[i].live}]

InDay(d) == Timetabled[day[d]] \cup {s \in Students : <<day[d], s>> \in db[d].listed}
\* Who the roster shows as checked in: by the attendance it fetched, or, when that
\* failed, by the log of the last load.
RosterDone(d) ==
    IF marks[d] # None THEN marks[d].done
    ELSE {s \in Students : \E i \in db[d].log : IsOf(i, s, day[d])}

Start(d, op) == ops' = [ops EXCEPT ![d] = @ \cup {op}] /\ busy' = [busy EXCEPT ![d] = TRUE]
Move(d, op, as) == ops' = [ops EXCEPT ![d] = (@ \ {op}) \cup {as}]
\* The finally of a handler: the flag is cleared, whoever raised it.
Finish(d, op) == ops' = [ops EXCEPT ![d] = @ \ {op}] /\ busy' = [busy EXCEPT ![d] = FALSE]
FreeHands(d) == dialog[d] = None /\ ~busy[d]
Press == pressed < Presses /\ pressed' = pressed + 1

-----------------------------------------------------------------------------
(* The page: the day and its attendance. *)

\* The effect on the roster date: the request of the day before is cancelled; what it
\* had fetched stays on the page until the new answer comes.
ChooseDay(d, dy) ==
    /\ dialog[d] = None /\ dy # day[d] /\ Press
    /\ day' = [day EXCEPT ![d] = dy]
    /\ fetches' = [fetches EXCEPT ![d] =
           {[f EXCEPT !.wanted = FALSE] : f \in @} \cup {[day |-> dy, wanted |-> TRUE, got |-> None]}]
    /\ UNCHANGED <<server, db, marks, busy, dialog, ops>>

ServeAttendance(d, f) ==
    /\ f.got = None
    /\ fetches' = [fetches EXCEPT ![d] = (@ \ {f}) \cup {[f EXCEPT !.got = Attended(f.day)]}]
    /\ UNCHANGED <<server, db, day, marks, busy, dialog, ops, pressed>>

UsesAnswer_Always(f) == TRUE    \* mutant: the effect without its cancelled flag
\* An answer is used only by the effect that still wants it.
UsesAnswer(f) == f.wanted

AttendanceArrives(d, f) ==
    /\ f.got # None
    /\ fetches' = [fetches EXCEPT ![d] = @ \ {f}]
    /\ marks' = IF UsesAnswer(f) THEN [marks EXCEPT ![d] = [day |-> f.day, done |-> f.got]]
                                 ELSE marks
    /\ UNCHANGED <<server, db, day, busy, dialog, ops, pressed>>

AttendanceFails(d, f) ==
    /\ Losses
    /\ fetches' = [fetches EXCEPT ![d] = @ \ {f}]
    /\ marks' = IF UsesAnswer(f) THEN [marks EXCEPT ![d] = None] ELSE marks
    /\ UNCHANGED <<server, db, day, busy, dialog, ops, pressed>>

-----------------------------------------------------------------------------
(* The buttons.  The three-second pause between two check-ins of a student only delays *)
(* a press, so it leaves nothing out here.                                             *)

Call(kind, dy, cur) == [kind |-> kind, day |-> dy, cur |-> cur, rest |-> {},
                        at |-> "asked", got |-> None]
Ask(d, kind, who, session) ==
    dialog' = [dialog EXCEPT ![d] = [kind |-> kind, day |-> day[d], who |-> who,
                                     session |-> session, busy |-> busy[d]]]

\* The window of days: what is further off is not offered, tomorrow is asked about.
AsksFirst(d) == day[d] \in Tomorrow

\* A row offers the check-in of a student who is not marked; tomorrow's class asks first.
PressCheckIn(d, s) ==
    /\ FreeHands(d) /\ Press
    /\ s \in InDay(d) \ RosterDone(d)
    /\ db[d].balance[s] > 0
    /\ IF AsksFirst(d) THEN Ask(d, "check-in", {s}, None) /\ UNCHANGED <<busy, ops>>
                       ELSE Start(d, Call("check-in", day[d], s)) /\ UNCHANGED dialog
    /\ UNCHANGED <<server, db, page>>

\* Everyone of the day whom the page does not mark and who has a credit left.
Eligible(d) == {s \in InDay(d) \ RosterDone(d) : db[d].balance[s] > 0}

PressBatch(d) ==
    /\ FreeHands(d) /\ Press /\ Eligible(d) # {}
    /\ Ask(d, "batch", Eligible(d), None)
    /\ UNCHANGED <<server, db, page, busy, ops>>

\* A marked row offers to undo; the session is looked up in the log of the last load.
PressUndo(d, s) ==
    /\ FreeHands(d) /\ Press
    /\ s \in InDay(d) \cap RosterDone(d)
    /\ \E i \in db[d].log : IsOf(i, s, day[d]) /\ Ask(d, "undo", {s}, i)
    /\ UNCHANGED <<server, db, page, busy, ops>>

Cancel(d) ==
    /\ dialog[d] # None
    /\ dialog' = [dialog EXCEPT ![d] = None]
    /\ UNCHANGED <<server, db, page, busy, ops, pressed>>

\* The handler of a confirmation looks at the flag its closure was made with.
Confirm(d) ==
    /\ dialog[d] # None /\ ~dialog[d].busy
    /\ LET g == dialog[d]
       IN \/ g.kind = "undo" /\ Start(d, Call("undo", g.day, g.session))
          \/ /\ g.kind # "undo"
             /\ \E s \in g.who : Start(d, [Call(g.kind, g.day, s) EXCEPT !.rest = g.who \ {s}])
    /\ dialog' = [dialog EXCEPT ![d] = None]
    /\ UNCHANGED <<server, db, page, pressed>>

PressAdd(d, s) ==
    /\ FreeHands(d) /\ Press /\ s \notin InDay(d)
    /\ Start(d, Call("add", day[d], s))
    /\ UNCHANGED <<server, db, page, dialog>>

PressRemove(d, s) ==
    /\ FreeHands(d) /\ Press /\ <<day[d], s>> \in db[d].listed
    /\ Start(d, Call("remove", day[d], s))
    /\ UNCHANGED <<server, db, page, dialog>>

\* A ping succeeds after one had failed: the desk loads by itself, dialog or not.
Reconnect(d) ==
    /\ Press
    /\ Start(d, [Call("heartbeat", day[d], None) EXCEPT !.at = "loading"])
    /\ UNCHANGED <<server, db, page, dialog>>

-----------------------------------------------------------------------------
(* The calls.  The server runs each in one transaction that holds the account's row; *)
(* the desk does nothing with the call before its answer.                            *)

CanPay_Always(s) == TRUE        \* mutant: without the look at the balance
CanPay(s) == balance[s] >= 1
CanVoid_Always(i) == TRUE       \* mutant: without the look at reversed_at
CanVoid(i) == sessions[i].live

CheckIn(s, dy, by) ==
    /\ balance' = [balance EXCEPT ![s] = @ - 1]
    /\ sessions' = Append(sessions, [student |-> s, day |-> dy, live |-> TRUE, by |-> by])

Void(i) ==
    /\ balance' = [balance EXCEPT ![sessions[i].student] = @ + 1]
    /\ sessions' = [sessions EXCEPT ![i].live = FALSE]

\* Whether the desk hears what the server did: a lost answer looks like a failed call.
Heard == IF Losses THEN BOOLEAN ELSE {TRUE}

\* A batch goes on with the next student whatever became of this one, and loads in the
\* end; the others load after a success and stop after an error.
Proceed(d, op, ok) ==
    \/ /\ op.rest # {}
       /\ \E s \in op.rest : Move(d, op, [op EXCEPT !.cur = s, !.rest = @ \ {s}])
       /\ UNCHANGED busy
    \/ /\ op.rest = {} /\ (ok \/ op.kind = "batch")
       /\ Move(d, op, [op EXCEPT !.cur = None, !.at = "loading"])
       /\ busy' = [busy EXCEPT ![d] = TRUE]
    \/ ~ok /\ op.kind # "batch" /\ Finish(d, op)

ServeCheckIn(d, op) ==
    /\ op.at = "asked" /\ op.kind \in {"check-in", "batch"}
    /\ \/ /\ CanPay(op.cur) /\ Len(sessions) < MaxSessions
          /\ CheckIn(op.cur, op.day, op.kind)
          /\ \E heard \in Heard : Proceed(d, op, heard)
       \/ ~CanPay(op.cur) /\ UNCHANGED <<balance, sessions>> /\ Proceed(d, op, FALSE)
    /\ UNCHANGED <<listed, db, page, dialog, pressed>>

ServeVoid(d, op) ==
    /\ op.at = "asked" /\ op.kind = "undo"
    /\ \/ CanVoid(op.cur) /\ Void(op.cur) /\ \E heard \in Heard : Proceed(d, op, heard)
       \/ ~CanVoid(op.cur) /\ UNCHANGED <<balance, sessions>> /\ Proceed(d, op, FALSE)
    /\ UNCHANGED <<listed, db, page, dialog, pressed>>

\* Adding is an upsert; removing what was removed already is refused.
ServeEntry(d, op) ==
    /\ op.at = "asked" /\ op.kind \in {"add", "remove"}
    /\ LET e == <<op.day, op.cur>>
       IN /\ listed' = IF op.kind = "add" THEN listed \cup {e} ELSE listed \ {e}
          /\ \E heard \in Heard : Proceed(d, op, heard /\ (op.kind = "add" \/ e \in listed))
    /\ UNCHANGED <<balance, sessions, db, page, dialog, pressed>>

CallFails(d, op) ==
    /\ Losses /\ op.at = "asked"
    /\ Proceed(d, op, FALSE)
    /\ UNCHANGED <<server, db, page, dialog, pressed>>

\* The answer of a load is of the moment the server read it; loads may overtake one another.
ServeLoad(d, op) ==
    /\ op.at = "loading" /\ op.got = None
    /\ Move(d, op, [op EXCEPT !.got = Loaded])
    /\ UNCHANGED <<server, db, page, busy, dialog, pressed>>

LoadEnds(d, op) ==
    /\ op.got # None
    /\ db' = [db EXCEPT ![d] = op.got]
    /\ Finish(d, op)
    /\ UNCHANGED <<server, page, dialog, pressed>>

LoadFails(d, op) ==
    /\ Losses /\ op.at = "loading"
    /\ Finish(d, op)
    /\ UNCHANGED <<server, db, page, dialog, pressed>>

-----------------------------------------------------------------------------
Init ==
    /\ balance = Opening /\ sessions = <<>> /\ listed = {}
    /\ db = [d \in Desks |-> [balance |-> Opening, listed |-> {}, log |-> {}]]
    /\ day \in [Desks -> Days \ Tomorrow]
    /\ marks = [d \in Desks |-> [day |-> day[d], done |-> {}]]
    /\ fetches = [d \in Desks |-> {}]
    /\ busy = [d \in Desks |-> FALSE]
    /\ dialog = [d \in Desks |-> None]
    /\ ops = [d \in Desks |-> {}]
    /\ pressed = 0

Answer(d) ==
    \/ \E f \in fetches[d] : ServeAttendance(d, f) \/ AttendanceArrives(d, f) \/ AttendanceFails(d, f)
    \/ \E op \in ops[d] : \/ ServeCheckIn(d, op) \/ ServeVoid(d, op) \/ ServeEntry(d, op)
                          \/ CallFails(d, op) \/ ServeLoad(d, op) \/ LoadEnds(d, op) \/ LoadFails(d, op)

Person(d) ==
    \/ \E dy \in Days : ChooseDay(d, dy)
    \/ \E s \in Students : PressCheckIn(d, s) \/ PressUndo(d, s) \/ PressAdd(d, s) \/ PressRemove(d, s)
    \/ PressBatch(d) \/ Confirm(d) \/ Cancel(d)

Next == \E d \in Desks : Answer(d) \/ Person(d) \/ Reconnect(d)

Spec == Init /\ [][Next]_vars

-----------------------------------------------------------------------------
(* Properties. *)

\* Every variable keeps its shape, and no account is overdrawn.
TypeOK ==
    /\ balance \in [Students -> Nat]
    /\ sessions \in Seq(Session) /\ Len(sessions) <= MaxSessions
    /\ listed \subseteq Days \X Students
    /\ db \in [Desks -> Copy]
    /\ day \in [Desks -> Days]
    /\ marks \in [Desks -> Marks \cup {None}]
    /\ fetches \in [Desks -> SUBSET Fetch]
    /\ busy \in [Desks -> BOOLEAN]
    /\ dialog \in [Desks -> Dialog \cup {None}]
    /\ ops \in [Desks -> SUBSET Op]
    /\ pressed \in 0 .. Presses

LiveSessions(s) == {i \in DOMAIN sessions : sessions[i].live /\ sessions[i].student = s}

\* A student has paid one credit for each session that still stands: however check-ins
\* and undos of several hands meet, and whatever answers are lost, no session is paid
\* back twice and none is free.
CreditsAddUp ==
    \A s \in Students : balance[s] + Cardinality(LiveSessions(s)) = Opening[s]

\* Once no attendance request is awaited, the marks on the page are of the day it
\* shows: an answer for a day that was left does not replace those of the day chosen.
MarksAreOfTheDay ==
    \A d \in Desks :
        marks[d] = None \/ marks[d].day = day[d] \/ \E f \in fetches[d] : f.wanted

\* The comment on rosterAttendance: the batch skips the ids already checked in on the
\* roster date, so it never charges a student again for a day.
BatchSkipsCheckedIn ==
    \A i, j \in DOMAIN sessions :
        /\ i < j
        /\ sessions[i].live /\ sessions[j].live
        /\ IsOf(i, sessions[j].student, sessions[j].day)
        => sessions[j].by # "batch"

=============================================================================
