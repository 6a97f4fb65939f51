--------------------------- MODULE MakeupCredits ---------------------------
(***************************************************************************)
(* A weekly private lesson of one student: the changes recorded for single *)
(* days of it (absences and make-up lessons), the credits that absences    *)
(* grant and make-up lessons use up, and the page of the staff console     *)
(* that records, undoes and books.                                         *)
(*                                                                         *)
(* A request runs in one transaction.  Its unlocked reads are one step;    *)
(* its writes are another, at its commit: they repeat their conditions     *)
(* under the locks of their rows, which are held until then.               *)
(***************************************************************************)
EXTENDS LessonRecords

CONSTANTS
    Desks,
    LessonDays,     \* the days the series runs on by itself
    FirstClosures,  \* which days the studio may be closed to begin with
    Presses,        \* bound: requests sent
    Turns           \* bound: pauses, endings and closures

ASSUME MakeupAssumption ==
    /\ LessonDays \subseteq Days /\ FirstClosures \subseteq SUBSET Days
    /\ Presses \in Nat /\ Turns \in Nat

VARIABLES
    series,     \* the status of the series, and whether it was ever ended
    closed,     \* the days the studio is closed
    turns,
    page,       \* what each desk shows
    calls,      \* requests on their way
    pressed     \* how many were ever sent

server == <<change, recorded, credit>>
calendar == <<series, closed, turns>>
vars == <<server, calendar, page, calls, pressed>>

-----------------------------------------------------------------------------
(* What the server lists. *)

\* The ordinary timetable, with the changes of its days, and the make-up lessons of others.
Listed(day) ==
    IF day \in LessonDays
    THEN series.status = "active" /\ ~series.ended /\ day \notin closed
    ELSE IsMakeup(day)

Lessons == [due |-> {day \in Days : Listed(day) /\ ~Recorded(day)},
            changes |-> {change[day].id : day \in {x \in Days : Listed(x) /\ Recorded(x)}}]

\* The credits with a button: not expired, and of a lesson that is known.
Bookable == {c \in DOMAIN credit :
    credit[c].status = "available" /\ ~credit[c].expired /\ credit[c].from # Nothing}

-----------------------------------------------------------------------------
(* The page. *)

\* What the page shows: what its two lists had when each was read, neither before it has both,
\* and the day of a dialog that is older than the lists.  The time an answer takes is time until
\* the next press.
Blank == [lessons |-> Nothing, credits |-> Nothing, dialog |-> Nothing]
Shown(d) == page[d].lessons # Nothing /\ page[d].credits # Nothing
Mine(d) == {c \in calls : c.by = d}
Adrift(d) == {[c EXCEPT !.by = Nothing] : c \in {x \in Mine(d) : x.at \in {"sent", "read"}}}

\* The page is opened, perhaps again, or after a load that failed: what it was waiting for is
\* forgotten.
Open(d) ==
    /\ page' = [page EXCEPT ![d] = Blank]
    /\ calls' = (calls \ Mine(d)) \cup Adrift(d)
    /\ UNCHANGED <<server, calendar, pressed>>

LoadLessons(d) ==
    /\ page[d].lessons = Nothing
    /\ page' = [page EXCEPT ![d].lessons = Lessons]
    /\ UNCHANGED <<server, calendar, calls, pressed>>

LoadCredits(d) ==
    /\ page[d].credits = Nothing
    /\ page' = [page EXCEPT ![d].credits = Bookable]
    /\ UNCHANGED <<server, calendar, calls, pressed>>

\* A button is dead while the page waits for an answer.
Send(d, op, day, id) ==
    /\ Mine(d) = {}
    /\ pressed < Presses /\ pressed' = pressed + 1
    /\ calls' = calls \cup {[n |-> pressed, by |-> d, op |-> op, day |-> day, id |-> id,
                             at |-> "sent", grants |-> FALSE]}
    /\ UNCHANGED <<server, calendar, page>>

PressCancel(d) == \E day \in Days :
    /\ Shown(d) /\ day \in page[d].lessons.due \cup {page[d].dialog}
    /\ Send(d, "cancel", day, Nothing)

PressUndo(d) == \E id \in ChangeIds :
    Shown(d) /\ id \in page[d].lessons.changes /\ Send(d, "undo", Nothing, id)

PressUse(d) == \E c \in DOMAIN credit, day \in Days :
    Shown(d) /\ c \in page[d].credits /\ Send(d, "use", day, c)

\* An answer of success loads the page anew.  A dialog to cancel a lesson opens while a change
\* is being undone or a make-up lesson booked, and stays; the answer of a cancellation closes it.
Answer(d) == \E c \in Mine(d) :
    /\ c.at = "done"
    /\ \E day \in {Nothing} \cup IF c.op \in {"undo", "use"} THEN page[d].lessons.due ELSE {} :
          page' = [page EXCEPT ![d] = [Blank EXCEPT !.dialog = day]]
    /\ calls' = calls \ {c}
    /\ UNCHANGED <<server, calendar, pressed>>

\* No answer comes.  The server has done the request, or does it later, or never.
CallFails(d) ==
    /\ Mine(d) # {}
    /\ calls' = (calls \ Mine(d)) \cup Adrift(d)
    /\ UNCHANGED <<server, calendar, page, pressed>>

-----------------------------------------------------------------------------
(* The requests. *)

\* The request, further on; nobody waits for the end of one that is adrift.
To(c, d) == (calls \ {c}) \cup IF d.by = Nothing /\ d.at = "done" THEN {} ELSE {d}
Goes(c, at) == calls' = To(c, [c EXCEPT !.at = at])
\* A refusal leaves the page as it is, so it may as well arrive at once.
Refuse(c) == calls' = calls \ {c} /\ UNCHANGED server

\* Cancelling a lesson reads the series and the policy, and decides what is owed.
ReadForCancel(c) ==
    /\ c.op = "cancel" /\ c.at = "sent"
    /\ \/ series.status = "ended" /\ Refuse(c)
       \/ /\ series.status # "ended"
          /\ \E grants \in BOOLEAN : calls' = To(c, [c EXCEPT !.at = "read", !.grants = grants])
          /\ UNCHANGED server
    /\ UNCHANGED <<calendar, page, pressed>>

Granted(id) ==
    Append(credit, [from |-> id, status |-> "available", lesson |-> Nothing, expired |-> FALSE,
                    booked |-> 0])

\* ON CONFLICT (series_id, on_date) DO NOTHING, and the credit that is owed.
RecordAbsence(c) ==
    /\ c.op = "cancel" /\ c.at = "read"
    /\ \/ Recorded(c.day) /\ Refuse(c)
       \/ /\ ~Recorded(c.day) /\ recorded < MaxChanges
          /\ recorded' = recorded + 1
          /\ change' = [change EXCEPT ![c.day] = [id |-> recorded + 1, kind |-> "absence",
                 credit |-> IF c.grants THEN Len(credit) + 1 ELSE Nothing]]
          /\ credit' = IF c.grants THEN Granted(recorded + 1) ELSE credit
          /\ Goes(c, "done")
    /\ UNCHANGED <<calendar, page, pressed>>

Withdrawn_Spent(id) ==      \* mutant: whatever became of the credit
    [c \in DOMAIN credit |-> IF credit[c].from = id
                             THEN [credit[c] EXCEPT !.status = "cancelled"] ELSE credit[c]]
Withdrawn_Late(id) == credit   \* mutant: looked for when the change, and so its id there, is gone
\* The credits a change granted are cancelled, if they can still be.
Withdrawn(id) ==
    [c \in DOMAIN credit |-> IF credit[c].from = id /\ credit[c].status = "available"
                             THEN [credit[c] EXCEPT !.status = "cancelled"] ELSE credit[c]]

Unlinked_Kept(cs, id) == cs     \* mutant: without it
\* ON DELETE SET NULL.
Unlinked(cs, id) ==
    [c \in DOMAIN cs |-> [cs[c] EXCEPT !.from = IF @ = id THEN Nothing ELSE @,
                                       !.lesson = IF @ = id THEN Nothing ELSE @]]

UndoChange(c) ==
    /\ c.op = "undo" /\ c.at = "sent"
    /\ \/ /\ \A day \in Days : Recorded(day) => change[day].id # c.id
          /\ Refuse(c)
       \/ \E day \in Days :
             /\ Recorded(day) /\ change[day].id = c.id
             /\ change' = [change EXCEPT ![day] = Nothing]
             /\ credit' = Unlinked(Withdrawn(c.id), c.id)
             /\ UNCHANGED recorded
             /\ Goes(c, "done")
    /\ UNCHANGED <<calendar, page, pressed>>

\* A make-up is for the series its credit came from, on a day the studio is open.
ReadForUse(c) ==
    /\ c.op = "use" /\ c.at = "sent"
    /\ IF credit[c.id].from = Nothing \/ c.day \in closed
       THEN Refuse(c)
       ELSE Goes(c, "read") /\ UNCHANGED server
    /\ UNCHANGED <<calendar, page, pressed>>

Spendable_Any(c) == ~credit[c].expired      \* mutant: without the status
Spendable(c) == credit[c].status = "available" /\ ~credit[c].expired

\* The credit is spent and the lesson recorded, or neither.
BookMakeup(c) ==
    /\ c.op = "use" /\ c.at = "read"
    /\ \/ (~Spendable(c.id) \/ Recorded(c.day)) /\ Refuse(c)
       \/ /\ Spendable(c.id) /\ ~Recorded(c.day) /\ recorded < MaxChanges
          /\ recorded' = recorded + 1
          /\ change' = [change EXCEPT ![c.day] =
                 [id |-> recorded + 1, kind |-> "makeup", credit |-> c.id]]
          /\ credit' = [credit EXCEPT ![c.id].status = "consumed",
                 ![c.id].lesson = recorded + 1, ![c.id].booked = @ + 1]
          /\ Goes(c, "done")
    /\ UNCHANGED <<calendar, page, pressed>>

-----------------------------------------------------------------------------
(* The calendar. *)

Turn == turns < Turns /\ turns' = turns + 1 /\ UNCHANGED <<server, page, calls, pressed>>

\* Pause, resume or end, from a list that may be old.
SetSeriesStatus ==
    /\ Turn
    /\ \E s \in {"active", "paused", "ended"} :
          series' = [status |-> s, ended |-> series.ended \/ s = "ended"]
    /\ UNCHANGED closed

SetClosure == Turn /\ (\E day \in Days : closed' = closed \cup {day}) /\ UNCHANGED series
ClearClosure == Turn /\ (\E day \in closed : closed' = closed \ {day}) /\ UNCHANGED series

\* The day after expires_on begins.
Expire ==
    /\ \E c \in DOMAIN credit :
          ~credit[c].expired /\ credit' = [credit EXCEPT ![c].expired = TRUE]
    /\ UNCHANGED <<change, recorded, calendar, page, calls, pressed>>

-----------------------------------------------------------------------------
Init ==
    /\ change = [day \in Days |-> Nothing] /\ recorded = 0 /\ credit = <<>>
    /\ series = [status |-> "active", ended |-> FALSE] /\ closed \in FirstClosures /\ turns = 0
    /\ page = [d \in Desks |-> Blank]
    /\ calls = {} /\ pressed = 0

Desk(d) ==
    \/ Open(d) \/ LoadLessons(d) \/ LoadCredits(d)
    \/ PressCancel(d) \/ PressUndo(d) \/ PressUse(d) \/ Answer(d) \/ CallFails(d)

Serve(c) ==
    ReadForCancel(c) \/ RecordAbsence(c) \/ UndoChange(c) \/ ReadForUse(c) \/ BookMakeup(c)

Next ==
    \/ \E d \in Desks : Desk(d)
    \/ \E c \in calls : Serve(c)
    \/ SetSeriesStatus \/ SetClosure \/ ClearClosure \/ Expire

Spec == Init /\ [][Next]_vars

-----------------------------------------------------------------------------
(* Properties. *)

\* A spent credit is a lesson on the calendar.  An undone make-up lesson leaves its credit
\* spent, and one on a day of the series goes when the series is paused or the studio closes.
SpentMeansALesson ==
    \A c \in DOMAIN credit : credit[c].status = "consumed" =>
        \E day \in Days : Recorded(day) /\ change[day].id = credit[c].lesson /\ Listed(day)

\* Once an absence is undone, nothing it granted is left.  A credit that was spent stays spent,
\* and so does its lesson.
UndoTakesTheCreditBack ==
    \A c \in DOMAIN credit : credit[c].from = Nothing => credit[c].status = "cancelled"
=============================================================================
