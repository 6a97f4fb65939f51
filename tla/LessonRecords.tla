---------------------------- MODULE LessonRecords ----------------------------
(***************************************************************************)
(* What the server records of a weekly private lesson: the changes of      *)
(* single days of it (absences and make-up lessons) and the credits that   *)
(* absences grant and make-up lessons use up, and how the two must agree   *)
(* (MakeupCredits has the requests that change them).                      *)
(***************************************************************************)
EXTENDS Integers, Sequences

CONSTANTS
    Days,
    MaxChanges,     \* bound: changes recorded
    Nothing

ChangeIds == 1 .. MaxChanges
Change == [id : ChangeIds, kind : {"absence", "makeup"}, credit : {Nothing} \cup Nat]
Credit == [from : {Nothing} \cup ChangeIds, status : {"available", "consumed", "cancelled"},
           lesson : {Nothing} \cup ChangeIds, expired : BOOLEAN, booked : Nat]

ASSUME RecordsAssumption == MaxChanges \in Nat /\ Nothing \notin Nat /\ Nothing \notin Change

VARIABLES
    change,     \* the change recorded for a day: its id, its kind, and a credit
    recorded,   \* how many changes were ever recorded
    credit      \* the credits, in the order they were granted; booked, how many lessons each
                \* was ever spent on, is history

Recorded(day) == change[day] # Nothing
IsMakeup(day) == Recorded(day) /\ change[day].kind = "makeup"

-----------------------------------------------------------------------------
(* Properties. *)

There(id) == \E day \in Days : Recorded(day) /\ change[day].id = id

\* What each variable holds, and that an id in a credit is that of a change that is there.
RecordsOK ==
    /\ recorded \in 0 .. MaxChanges
    /\ change \in [Days -> {Nothing} \cup Change] /\ credit \in Seq(Credit)
    /\ \A day \in Days : Recorded(day) =>
          change[day].id <= recorded /\ change[day].credit \in {Nothing} \cup DOMAIN credit
    /\ \A c \in DOMAIN credit :
          \A id \in {credit[c].from, credit[c].lesson} : id # Nothing => There(id)

\* No credit is spent on two lessons, from however many desks and however often it is tried.
SpentOnce == \A c \in DOMAIN credit : credit[c].booked <= 1

\* A make-up lesson on the calendar was paid with a credit that is gone, and gone for it.
MakeupsArePaidFor ==
    \A day \in Days : IsMakeup(day) =>
        LET c == credit[change[day].credit]
        IN c.status = "consumed" /\ c.lesson = change[day].id

\* A credit that can be spent stands for an absence that is still recorded, and an absence
\* that granted one has it, unspent or spent.
CreditsGoWithAbsences ==
    /\ \A c \in DOMAIN credit : credit[c].status = "available" =>
          \E day \in Days : Recorded(day) /\ change[day] =
              [id |-> credit[c].from, kind |-> "absence", credit |-> c]
    /\ \A day \in Days :
          Recorded(day) /\ change[day].kind = "absence" /\ change[day].credit # Nothing =>
          LET c == credit[change[day].credit]
          IN c.status \in {"available", "consumed"} /\ c.from = change[day].id
==============================================================================
