---------------------------- MODULE ClassBookings ----------------------------
(***************************************************************************)
(* Requests for a place in a class from the public timetable, the time     *)
(* they hold a free place for, their review by the studio, and the edits   *)
(* of the class that run meanwhile (services/booking_holds.py and the      *)
(* routes that use it).  A class here is one date of it.                   *)
(*                                                                         *)
(* Each request is one READ COMMITTED transaction whose now() is the time  *)
(* it began.  Every decision about a seat locks the row of the class       *)
(* first; a review locks the request too.                                  *)
(***************************************************************************)
EXTENDS Integers, FiniteSets

CONSTANTS
    Workers,            \* threads of the web server that run requests
    Classes,
    Requests,           \* ids of class_bookings rows
    Phones,
    Known,              \* phones that match exactly one student
    HoldHours,          \* booking_hold_hours of the tenant; 0 turns holds off
    Capacity,           \* capacity of each class at the start
    CapacityEdits,      \* capacities a manager may set
    EnrolmentEdits,     \* numbers of enrolled students a manager may set
    EndOfTime,          \* a bound on the clock
    None                \* no class, no phone, no request

ASSUME RequestsAreFinite == IsFiniteSet(Requests)
ASSUME HoldIsAnInterval == HoldHours \in Nat
ASSUME CapacitiesArePositive ==
    /\ Capacity \in [Classes -> Nat \ {0}]
    /\ CapacityEdits \subseteq Nat \ {0}
    /\ EnrolmentEdits \subseteq Nat
ASSUME KnownArePhones == Known \subseteq Phones
ASSUME TimeIsFinite == EndOfTime \in Nat
ASSUME NoneIsNothing == None \notin Classes \cup Phones \cup Requests

VARIABLES
    class, phone, status, until,    \* class_bookings; until is hold_expires_at
    enquiries,  \* registrations each request has grown into
    capacity,   \* class_schedules.capacity
    enrolled,   \* rows of class_schedule_students of each class
    now,        \* the clock of the database
    \* Of each worker: where its transaction stands, the class, phone and
    \* request it is about, the capacity it has read or will write, now() and
    \* the number of students it will write.
    pc, about, caller, id, cap, began, students

requests == <<class, phone, status, until, enquiries>>
classes == <<capacity, enrolled>>
locals == <<about, caller, id, cap, began, students>>
vars == <<requests, classes, now, pc, locals>>

-----------------------------------------------------------------------------
(* Seats.                                                                  *)

\* SEAT_TAKEN, asked by a transaction that began at time t.  No hold is 0.
TakesSeat(b, c, t) ==
    /\ class[b] = c
    /\ status[b] = "approved" \/ (status[b] = "pending" /\ until[b] > t)

Takers(c, t) == {b \in Requests : TakesSeat(b, c, t)}

SeatsTaken(c, t) == enrolled[c] + Cardinality(Takers(c, t))
SeatsTakenByOthers(b, c, t) == enrolled[c] + Cardinality(Takers(c, t) \ {b})

PhoneHoldsAPlace(p, t) ==
    \E b \in Requests : phone[b] = p /\ status[b] = "pending" /\ until[b] > t

-----------------------------------------------------------------------------
(* Transactions and the locks they hold, given where they stand.           *)

At(w, label) == pc[w] = label
Goto(w, label) == pc' = [pc EXCEPT ![w] = label]

LocksClass_None(w, c) == FALSE                      \* mutant: no lock_class
LocksClass(w, c) == about[w] = c /\ pc[w] \in {"file", "file with hold", "approve"}
LocksBooking_None(w, b) == FALSE                    \* mutant: no FOR UPDATE OF b
LocksBooking(w, b) == id[w] = b /\ pc[w] \in {"lock class", "approve", "decline"}

ClassFree(w, c) == \A v \in Workers \ {w} : ~ LocksClass(v, c)
BookingFree(w, b) == \A v \in Workers \ {w} : ~ LocksBooking(v, b)

Begin(w, label, c, p, b, n, m) ==
    /\ At(w, "idle")
    /\ Goto(w, label)
    /\ about' = [about EXCEPT ![w] = c]
    /\ caller' = [caller EXCEPT ![w] = p]
    /\ id' = [id EXCEPT ![w] = b]
    /\ cap' = [cap EXCEPT ![w] = n]
    /\ began' = [began EXCEPT ![w] = now]
    /\ students' = [students EXCEPT ![w] = m]
    /\ UNCHANGED <<requests, classes, now>>

End(w) ==
    /\ Goto(w, "idle")
    /\ about' = [about EXCEPT ![w] = None]
    /\ caller' = [caller EXCEPT ![w] = None]
    /\ id' = [id EXCEPT ![w] = None]
    /\ cap' = [cap EXCEPT ![w] = 0]
    /\ began' = [began EXCEPT ![w] = 0]
    /\ students' = [students EXCEPT ![w] = 0]

\* The request fails, or its process stops.
Rollback(w) ==
    /\ ~ At(w, "idle")
    /\ End(w)
    /\ UNCHANGED <<requests, classes, now>>

-----------------------------------------------------------------------------
(* POST /public/.../bookings.  The capacity comes from the timetable the   *)
(* request was matched against, read before the class is locked.           *)

Ask(w, c, p) == Begin(w, "count", c, p, None, capacity[c], 0)

\* lock_class, seats_taken, phone_holds_a_place.
CountSeats(w) ==
    LET holds == /\ HoldHours > 0
                 /\ SeatsTaken(about[w], began[w]) < cap[w]
                 /\ ~ PhoneHoldsAPlace(caller[w], began[w])
    IN
    /\ At(w, "count")
    /\ ClassFree(w, about[w])
    /\ Goto(w, IF holds THEN "file with hold" ELSE "file")
    /\ UNCHANGED <<requests, classes, now, locals>>

\* INSERT ... ON CONFLICT (schedule_id, on_date, contact_phone)
\* WHERE status = 'pending' DO NOTHING, and COMMIT.
IsWaiting(c, p) == \E b \in Requests : class[b] = c /\ phone[b] = p /\ status[b] = "pending"

FileRequest(w, b) ==
    /\ pc[w] \in {"file", "file with hold"}
    /\ ~ IsWaiting(about[w], caller[w])
    /\ status[b] = "none"
    /\ class' = [class EXCEPT ![b] = about[w]]
    /\ phone' = [phone EXCEPT ![b] = caller[w]]
    /\ status' = [status EXCEPT ![b] = "pending"]
    /\ until' = [until EXCEPT ![b] = IF At(w, "file with hold") THEN began[w] + HoldHours ELSE 0]
    /\ End(w)
    /\ UNCHANGED <<enquiries, classes, now>>

FileNothing(w) ==
    /\ pc[w] \in {"file", "file with hold"}
    /\ IsWaiting(about[w], caller[w])
    /\ End(w)
    /\ UNCHANGED <<requests, classes, now>>

-----------------------------------------------------------------------------
(* PATCH /class-bookings/<id>.                                             *)

Review(w, b, decision) ==
    /\ status[b] # "none"
    /\ Begin(w, decision, None, None, b, 0, 0)

\* SELECT ... WHERE status = 'pending' FOR UPDATE OF b, which also reads the
\* capacity of the class; a request that was reviewed meanwhile is not found.
LockBooking(w) ==
    /\ pc[w] \in {"to approve", "to decline"}
    /\ BookingFree(w, id[w])
    /\ status[id[w]] = "pending"
    /\ about' = [about EXCEPT ![w] = class[id[w]]]
    /\ cap' = [cap EXCEPT ![w] = capacity[class[id[w]]]]
    /\ Goto(w, IF At(w, "to approve") THEN "lock class" ELSE "decline")
    /\ UNCHANGED <<requests, classes, now, caller, id, began, students>>

AlreadyReviewed(w) ==
    /\ pc[w] \in {"to approve", "to decline"}
    /\ BookingFree(w, id[w])
    /\ status[id[w]] # "pending"
    /\ End(w)
    /\ UNCHANGED <<requests, classes, now>>

LockClass_NoWait(w) ==                              \* mutant: a plain SELECT
    /\ At(w, "lock class")
    /\ Goto(w, "approve")
    /\ UNCHANGED <<requests, classes, now, locals>>
LockClass(w) ==
    /\ At(w, "lock class")
    /\ ClassFree(w, about[w])
    /\ Goto(w, "approve")
    /\ UNCHANGED <<requests, classes, now, locals>>

HasRoom_CountsItself(w) ==                          \* mutant: its own hold counts
    SeatsTaken(about[w], began[w]) < cap[w]
HasRoom(w) == SeatsTakenByOthers(id[w], about[w], began[w]) < cap[w]

\* The seat goes to a known student, or else the request becomes an enquiry.
Approve(w) ==
    /\ At(w, "approve")
    /\ HasRoom(w)
    /\ status' = [status EXCEPT ![id[w]] = "approved"]
    /\ enquiries' = [enquiries EXCEPT ![id[w]] = @ + IF phone[id[w]] \in Known THEN 0 ELSE 1]
    /\ End(w)
    /\ UNCHANGED <<class, phone, until, classes, now>>

ClassIsFull(w) ==
    /\ At(w, "approve")
    /\ ~ HasRoom(w)
    /\ End(w)
    /\ UNCHANGED <<requests, classes, now>>

Decline(w) ==
    /\ At(w, "decline")
    /\ status' = [status EXCEPT ![id[w]] = "declined"]
    /\ End(w)
    /\ UNCHANGED <<class, phone, until, enquiries, classes, now>>

-----------------------------------------------------------------------------
(* PATCH /class-schedules/<id>: reads the row, merges what was sent into   *)
(* it, writes every field back, and replaces the enrolled students.        *)

SendCapacity(w, c, n) == Begin(w, "save capacity", c, None, None, n, 0)
SendStudents(w, c, m) == Begin(w, "save students", c, None, None, capacity[c], m)

SaveClass(w) ==
    /\ pc[w] \in {"save capacity", "save students"}
    /\ ClassFree(w, about[w])
    /\ capacity' = [capacity EXCEPT ![about[w]] = cap[w]]
    /\ enrolled' = IF At(w, "save students") THEN [enrolled EXCEPT ![about[w]] = students[w]]
                   ELSE enrolled
    /\ End(w)
    /\ UNCHANGED <<requests, now>>

-----------------------------------------------------------------------------
Tick ==
    /\ now < EndOfTime
    /\ now' = now + 1
    /\ UNCHANGED <<requests, classes, pc, locals>>

Init ==
    /\ class = [b \in Requests |-> None]
    /\ phone = [b \in Requests |-> None]
    /\ status = [b \in Requests |-> "none"]
    /\ until = [b \in Requests |-> 0]
    /\ enquiries = [b \in Requests |-> 0]
    /\ capacity = Capacity
    /\ enrolled = [c \in Classes |-> 0]
    /\ now = 0
    /\ pc = [w \in Workers |-> "idle"]
    /\ about = [w \in Workers |-> None]
    /\ caller = [w \in Workers |-> None]
    /\ id = [w \in Workers |-> None]
    /\ cap = [w \in Workers |-> 0]
    /\ began = [w \in Workers |-> 0]
    /\ students = [w \in Workers |-> 0]

Next ==
    \/ \E w \in Workers :
         \/ \E c \in Classes, p \in Phones : Ask(w, c, p)
         \/ CountSeats(w)
         \/ \E b \in Requests : FileRequest(w, b)
         \/ FileNothing(w)
         \/ \E b \in Requests, decision \in {"to approve", "to decline"} : Review(w, b, decision)
         \/ LockBooking(w)
         \/ AlreadyReviewed(w)
         \/ LockClass(w)
         \/ Approve(w)
         \/ ClassIsFull(w)
         \/ Decline(w)
         \/ \E c \in Classes, n \in CapacityEdits : SendCapacity(w, c, n)
         \/ \E c \in Classes, m \in EnrolmentEdits : SendStudents(w, c, m)
         \/ SaveClass(w)
         \/ Rollback(w)
    \/ Tick

Spec == Init /\ [][Next]_vars

-----------------------------------------------------------------------------
(* Properties.                                                             *)

Labels == {"idle", "count", "file", "file with hold", "to approve", "to decline", "lock class",
           "approve", "decline", "save capacity", "save students"}

RowsTyped ==
    /\ class \in [Requests -> Classes \cup {None}]
    /\ phone \in [Requests -> Phones \cup {None}]
    /\ status \in [Requests -> {"none", "pending", "approved", "declined"}]
    /\ \A b \in Requests : status[b] # "none" => class[b] \in Classes
    /\ until \in [Requests -> Nat]
    /\ enquiries \in [Requests -> Nat]
    /\ capacity \in [Classes -> Nat \ {0}]
    /\ enrolled \in [Classes -> Nat]
    /\ now \in 0 .. EndOfTime

TransactionsTyped ==
    /\ pc \in [Workers -> Labels]
    /\ about \in [Workers -> Classes \cup {None}]
    /\ caller \in [Workers -> Phones \cup {None}]
    /\ id \in [Workers -> Requests \cup {None}]
    /\ cap \in [Workers -> Nat]
    /\ began \in [Workers -> Nat]
    /\ students \in [Workers -> Nat]

\* What a transaction holds by the time it stands somewhere.
Standing ==
    \A w \in Workers :
      /\ pc[w] \in {"count", "file", "file with hold", "lock class", "approve",
                    "save capacity", "save students"} => about[w] \in Classes
      /\ pc[w] \in {"count", "file", "file with hold"} => caller[w] \in Phones
      /\ pc[w] \in {"save capacity", "save students"} => cap[w] # 0
      /\ pc[w] \in {"to approve", "to decline", "lock class", "approve", "decline"} =>
           id[w] \in Requests /\ status[id[w]] # "none"
      /\ pc[w] \in {"lock class", "approve"} => class[id[w]] = about[w]

ClassLocksExclude ==
    \A v, w \in Workers, c \in Classes : LocksClass(v, c) /\ LocksClass(w, c) => v = w

NoneBeganLater == \A w \in Workers : began[w] <= now

\* Rows keep their shape, the clock does not run ahead of a transaction that
\* is going on, and one that holds the lock of a class is the only one.
TypeOK ==
    RowsTyped /\ TransactionsTyped /\ Standing /\ NoneBeganLater /\ ClassLocksExclude

\* A request takes a seat when it is approved, or filed with a hold.
TakesItsSeat(b) ==
    \/ status[b] # "approved" /\ status'[b] = "approved"
    \/ status[b] = "none" /\ status'[b] = "pending" /\ until'[b] > now'

Fits(c) == SeatsTaken(c, now) <= capacity[c]

SeatsTakenFit ==
    \A b \in Requests, c \in Classes : TakesItsSeat(b) /\ class'[b] = c => Fits(c)'

\* A seat is given only where there is one: after each approval and each new
\* hold the enrolled students, the approved requests and the live holds still
\* fit the class, whatever else was decided about it meanwhile.
NoSeatInAFullClass == [][SeatsTakenFit]_vars

\* Without edits of the capacity, what a transaction has read of it is current.
CapacitiesAreKnown ==
    \A w \in Workers :
      /\ pc[w] # "save capacity"
      /\ pc[w] \in {"count", "file", "file with hold", "lock class", "approve", "save students"} =>
           cap[w] = capacity[about[w]]

\* Between its count and its INSERT a request that will hold a place has room
\* for itself: no other decision about the class comes between the two.
RoomIsKept ==
    \A w \in Workers :
      At(w, "file with hold") => SeatsTaken(about[w], began[w]) < capacity[about[w]]

\* A place that a request holds is there when it is approved, unless the studio
\* fills the class or cuts its capacity: the review counts at the time it began,
\* so that holds which have run out since still count; when none has, there is room.
HeldPlacesAreThere ==
    \A w \in Workers :
      /\ At(w, "approve") /\ until[id[w]] > now
      /\ Takers(about[w], began[w]) = Takers(about[w], now)
      => HasRoom(w)

\* Each approved request of a phone that matches no student is counted as a
\* new enquiry once; no other request is, however often and by however many
\* people at once it is reviewed.
EnquiriesAreCountedOnce ==
    \A b \in Requests :
      enquiries[b] = IF status[b] = "approved" /\ phone[b] \notin Known THEN 1 ELSE 0

\* booking_holds.py: "A hold that has expired stops counting the moment it
\* expires", so that a place is there as long as it is held.  No run checks it:
\* the hold counts on in a review that began before, and when its place was
\* given away meanwhile it counts twice (README, "Where the code and its words
\* differ").
EveryHeldPlaceIsThere ==
    \A w \in Workers : At(w, "approve") /\ until[id[w]] > now => HasRoom(w)

\* booking_holds.py: "One phone holds at most one place per tenant at a time."
OnePhoneOnePlace ==
    \A a, b \in Requests :
      /\ a # b
      /\ status[a] = "pending" /\ until[a] > now
      /\ status[b] = "pending" /\ until[b] > now
      => phone[a] # phone[b]

\* update_class_schedule: 'PATCH means "change what I sent".'  A save that
\* sends the students leaves the capacity of the class alone.  No run checks it:
\* the save writes back the capacity it read (README, "Where the code and its
\* words differ").
SavesKeepTheCapacity ==
    [][\A w \in Workers : SaveClass(w) /\ At(w, "save students") => UNCHANGED capacity]_vars
=============================================================================
