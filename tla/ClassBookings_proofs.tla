------------------------ MODULE ClassBookings_proofs ------------------------
(***************************************************************************)
(* Proofs about ClassBookings, for any finite set of requests and any      *)
(* workers, classes, phones, hold time and enrolments.                     *)
(*                                                                         *)
(* TypeCorrect holds whatever is edited.  NoOverbooking is about classes   *)
(* whose capacity nobody edits: with edits it fails, as TLC shows (README, *)
(* section 4).                                                             *)
(***************************************************************************)
EXTENDS ClassBookings, FiniteSetTheorems, TLAPS

-----------------------------------------------------------------------------
(* Types.  A statement that begins or ends a transaction writes all of its *)
(* local state, so Begin and End are treated once; then one lemma for each *)
(* action.                                                                 *)

LEMMA Naturals == \A x, y \in Nat : x + y \in Nat /\ x <= x /\ 0 <= x
OBVIOUS

LEMMA ClockIsNatural == TypeOK => now \in Nat
BY TimeIsFinite DEF TypeOK, RowsTyped

LEMMA BeginTypes ==
  ASSUME TypeOK, NEW w \in Workers, NEW label \in Labels \ {"file", "file with hold", "approve"},
         NEW c \in Classes \cup {None},
         NEW p \in Phones \cup {None}, NEW b \in Requests \cup {None},
         NEW n \in Nat, NEW m \in Nat, Begin(w, label, c, p, b, n, m)
  PROVE  TransactionsTyped' /\ NoneBeganLater' /\ ClassLocksExclude'
<1> USE DEF TypeOK, TransactionsTyped
<1>1. now \in Nat
  BY ClockIsNatural
<1>2. pc' \in [Workers -> Labels]
  BY DEF Begin, Goto
<1>3. about' \in [Workers -> Classes \cup {None}] /\ caller' \in [Workers -> Phones \cup {None}]
  BY DEF Begin
<1>4. id' \in [Workers -> Requests \cup {None}]
  BY DEF Begin
<1>5. cap' \in [Workers -> Nat] /\ students' \in [Workers -> Nat]
  BY DEF Begin
<1>6. /\ began' = [began EXCEPT ![w] = now]
      /\ now' = now
  BY DEF Begin
<1>7. began' \in [Workers -> Nat]
  BY <1>1, <1>6
<1>8. NoneBeganLater'
  <2> SUFFICES ASSUME NEW v \in Workers
               PROVE  began'[v] <= now'
    BY DEF NoneBeganLater
  <2>1. CASE v = w
    <3>1. began'[v] = now
      BY <1>6, <2>1
    <3>2. now <= now
      BY <1>1, Naturals
    <3> QED
      BY <3>1, <3>2, <1>6
  <2>2. CASE v # w
    BY <1>1, <1>6, <2>2 DEF NoneBeganLater
  <2> QED
    BY <2>1, <2>2

<1>9. ClassLocksExclude'
  <2>1. /\ pc' = [pc EXCEPT ![w] = label]
        /\ about' = [about EXCEPT ![w] = c]
    BY DEF Begin, Goto
  <2> QED
    BY <2>1 DEF ClassLocksExclude, LocksClass
<1> QED
  BY <1>2, <1>3, <1>4, <1>5, <1>7, <1>8, <1>9

LEMMA EndTypes ==
  ASSUME TypeOK, NEW w \in Workers, End(w), now' = now
  PROVE  TransactionsTyped' /\ NoneBeganLater' /\ ClassLocksExclude'
<1> USE DEF TypeOK, TransactionsTyped
<1>1. now \in Nat
  BY ClockIsNatural
<1>2. pc' \in [Workers -> Labels]
  BY DEF End, Goto, Labels
<1>3. about' \in [Workers -> Classes \cup {None}] /\ caller' \in [Workers -> Phones \cup {None}]
  BY DEF End
<1>4. id' \in [Workers -> Requests \cup {None}]
  BY DEF End
<1>5. cap' \in [Workers -> Nat] /\ students' \in [Workers -> Nat]
  BY DEF End
<1>6. began' = [began EXCEPT ![w] = 0]
  BY DEF End
<1>7. began' \in [Workers -> Nat]
  BY <1>6
<1>8. NoneBeganLater'
  <2> SUFFICES ASSUME NEW v \in Workers
               PROVE  began'[v] <= now'
    BY DEF NoneBeganLater
  <2>1. CASE v = w
    <3>1. began'[v] = 0
      BY <1>6, <2>1
    <3>2. 0 <= now
      BY <1>1, Naturals
    <3> QED
      BY <3>1, <3>2
  <2>2. CASE v # w
    BY <1>1, <1>6, <2>2 DEF NoneBeganLater
  <2> QED
    BY <2>1, <2>2

<1>9. ClassLocksExclude'
  <2>1. /\ pc' = [pc EXCEPT ![w] = "idle"]
        /\ about' = [about EXCEPT ![w] = None]
    BY DEF End, Goto
  <2> QED
    BY <2>1 DEF ClassLocksExclude, LocksClass
<1> QED
  BY <1>2, <1>3, <1>4, <1>5, <1>7, <1>8, <1>9

LEMMA AskTypes ==
  ASSUME TypeOK, NEW w \in Workers, NEW c \in Classes, NEW p \in Phones, Ask(w, c, p)
  PROVE  TypeOK'
<1>1. TransactionsTyped' /\ NoneBeganLater' /\ ClassLocksExclude'
  BY BeginTypes, CapacitiesArePositive DEF TypeOK, RowsTyped, Labels, Ask
<1> USE DEF Ask, Begin, At, Goto, requests, classes, locals, TypeOK, RowsTyped, TransactionsTyped, Standing
<1>2. RowsTyped'
  BY NoneIsNothing, CapacitiesArePositive
<1>3. Standing'
  BY NoneIsNothing, CapacitiesArePositive
<1> QED
  BY <1>1, <1>2, <1>3

LEMMA CountSeatsTypes ==
  ASSUME TypeOK, NEW w \in Workers, CountSeats(w)
  PROVE  TypeOK'
<1>1. TransactionsTyped' /\ NoneBeganLater'
  BY TimeIsFinite
     DEF CountSeats, At, Goto, locals, TypeOK, RowsTyped, TransactionsTyped, Standing, NoneBeganLater, Labels
<1> USE DEF CountSeats, At, Goto, requests, classes, locals, TypeOK, RowsTyped, TransactionsTyped, Standing
<1>2. RowsTyped'
  BY NoneIsNothing, CapacitiesArePositive
<1>3. Standing'
  BY NoneIsNothing, CapacitiesArePositive
<1>4. ClassLocksExclude'
  BY DEF ClassLocksExclude, LocksClass, ClassFree
<1> QED
  BY <1>1, <1>2, <1>3, <1>4

LEMMA FileRequestTypes ==
  ASSUME TypeOK, NEW w \in Workers, NEW b \in Requests, FileRequest(w, b)
  PROVE  TypeOK'
<1>1. TransactionsTyped' /\ NoneBeganLater' /\ ClassLocksExclude'
  BY EndTypes DEF FileRequest
<1> USE DEF FileRequest, End, At, Goto, requests, classes, locals, TypeOK, RowsTyped, TransactionsTyped, Standing
<1>2. RowsTyped'
  <2>1. /\ class' \in [Requests -> Classes \cup {None}]
        /\ phone' \in [Requests -> Phones \cup {None}]
    OBVIOUS
  <2>2. status' \in [Requests -> {"none", "pending", "approved", "declined"}]
    OBVIOUS
  <2>3. \A r \in Requests : status'[r] # "none" => class'[r] \in Classes
    OBVIOUS
  <2>4. until' \in [Requests -> Nat]
    <3> DEFINE t == IF At(w, "file with hold") THEN began[w] + HoldHours ELSE 0
    <3>1. t \in Nat
      <4>1. began[w] \in Nat
        OBVIOUS
      <4>2. began[w] + HoldHours \in Nat
        BY <4>1, HoldIsAnInterval, Naturals
      <4> QED
        BY <4>2
    <3>2. until' = [until EXCEPT ![b] = t]
      OBVIOUS
    <3>3. until \in [Requests -> Nat]
      OBVIOUS
    <3> HIDE DEF t, FileRequest, End, At, Goto, requests, classes, locals, TypeOK, RowsTyped, TransactionsTyped, Standing
    <3> QED
      BY <3>1, <3>2, <3>3
  <2> QED
    BY <2>1, <2>2, <2>3, <2>4
<1>3. Standing'
  BY NoneIsNothing, CapacitiesArePositive
<1> QED
  BY <1>1, <1>2, <1>3

LEMMA FileNothingTypes ==
  ASSUME TypeOK, NEW w \in Workers, FileNothing(w)
  PROVE  TypeOK'
<1>1. TransactionsTyped' /\ NoneBeganLater' /\ ClassLocksExclude'
  BY EndTypes DEF FileNothing
<1> USE DEF FileNothing, End, At, Goto, requests, classes, locals, TypeOK, RowsTyped, TransactionsTyped, Standing
<1>2. RowsTyped'
  BY NoneIsNothing, CapacitiesArePositive
<1>3. Standing'
  BY NoneIsNothing, CapacitiesArePositive
<1> QED
  BY <1>1, <1>2, <1>3

LEMMA ReviewTypes ==
  ASSUME TypeOK, NEW w \in Workers, NEW b \in Requests, NEW decision \in {"to approve", "to decline"}, Review(w, b, decision)
  PROVE  TypeOK'
<1>1. TransactionsTyped' /\ NoneBeganLater' /\ ClassLocksExclude'
  BY BeginTypes DEF Labels, Review
<1> USE DEF Review, Begin, At, Goto, requests, classes, locals, TypeOK, RowsTyped, TransactionsTyped, Standing
<1>2. RowsTyped'
  BY NoneIsNothing, CapacitiesArePositive
<1>3. Standing'
  BY NoneIsNothing, CapacitiesArePositive
<1> QED
  BY <1>1, <1>2, <1>3

LEMMA LockBookingTypes ==
  ASSUME TypeOK, NEW w \in Workers, LockBooking(w)
  PROVE  TypeOK'
<1>1. TransactionsTyped' /\ NoneBeganLater'
  BY TimeIsFinite
     DEF LockBooking, At, Goto, locals, TypeOK, RowsTyped, TransactionsTyped, Standing, NoneBeganLater, Labels
<1> USE DEF LockBooking, At, Goto, requests, classes, locals, TypeOK, RowsTyped, TransactionsTyped, Standing
<1>2. RowsTyped'
  BY NoneIsNothing, CapacitiesArePositive
<1>3. Standing'
  BY NoneIsNothing, CapacitiesArePositive
<1>4. ClassLocksExclude'
  BY DEF ClassLocksExclude, LocksClass, ClassFree
<1> QED
  BY <1>1, <1>2, <1>3, <1>4

LEMMA AlreadyReviewedTypes ==
  ASSUME TypeOK, NEW w \in Workers, AlreadyReviewed(w)
  PROVE  TypeOK'
<1>1. TransactionsTyped' /\ NoneBeganLater' /\ ClassLocksExclude'
  BY EndTypes DEF AlreadyReviewed
<1> USE DEF AlreadyReviewed, End, At, Goto, requests, classes, locals, TypeOK, RowsTyped, TransactionsTyped, Standing
<1>2. RowsTyped'
  BY NoneIsNothing, CapacitiesArePositive
<1>3. Standing'
  BY NoneIsNothing, CapacitiesArePositive
<1> QED
  BY <1>1, <1>2, <1>3

LEMMA LockClassTypes ==
  ASSUME TypeOK, NEW w \in Workers, LockClass(w)
  PROVE  TypeOK'
<1>1. TransactionsTyped' /\ NoneBeganLater'
  BY TimeIsFinite
     DEF LockClass, At, Goto, locals, TypeOK, RowsTyped, TransactionsTyped, Standing, NoneBeganLater, Labels
<1> USE DEF LockClass, At, Goto, requests, classes, locals, TypeOK, RowsTyped, TransactionsTyped, Standing
<1>2. RowsTyped'
  BY NoneIsNothing, CapacitiesArePositive
<1>3. Standing'
  BY NoneIsNothing, CapacitiesArePositive
<1>4. ClassLocksExclude'
  BY DEF ClassLocksExclude, LocksClass, ClassFree
<1> QED
  BY <1>1, <1>2, <1>3, <1>4

LEMMA ApproveTypes ==
  ASSUME TypeOK, NEW w \in Workers, Approve(w)
  PROVE  TypeOK'
<1>1. TransactionsTyped' /\ NoneBeganLater' /\ ClassLocksExclude'
  BY EndTypes DEF Approve
<1> USE DEF Approve, End, At, Goto, requests, classes, locals, TypeOK, RowsTyped, TransactionsTyped, Standing
<1>2. RowsTyped'
  <2>1. /\ class' \in [Requests -> Classes \cup {None}]
        /\ phone' \in [Requests -> Phones \cup {None}]
    OBVIOUS
  <2>2. status' \in [Requests -> {"none", "pending", "approved", "declined"}]
    OBVIOUS
  <2>3. \A r \in Requests : status'[r] # "none" => class'[r] \in Classes
    OBVIOUS
  <2>4. enquiries' \in [Requests -> Nat]
    <3> DEFINE e == enquiries[id[w]] + IF phone[id[w]] \in Known THEN 0 ELSE 1
    <3>1. e \in Nat
      <4>1. enquiries[id[w]] \in Nat
        OBVIOUS
      <4> HIDE DEF Approve, End, At, Goto, requests, classes, locals, TypeOK, RowsTyped, TransactionsTyped, Standing
      <4> QED
        BY <4>1
    <3>2. enquiries' = [enquiries EXCEPT ![id[w]] = e]
      OBVIOUS
    <3>3. enquiries \in [Requests -> Nat]
      OBVIOUS
    <3> HIDE DEF e, Approve, End, At, Goto, requests, classes, locals, TypeOK, RowsTyped, TransactionsTyped, Standing
    <3> QED
      BY <3>1, <3>2, <3>3
  <2> QED
    BY <2>1, <2>2, <2>3, <2>4
<1>3. Standing'
  BY NoneIsNothing, CapacitiesArePositive
<1> QED
  BY <1>1, <1>2, <1>3

LEMMA ClassIsFullTypes ==
  ASSUME TypeOK, NEW w \in Workers, ClassIsFull(w)
  PROVE  TypeOK'
<1>1. TransactionsTyped' /\ NoneBeganLater' /\ ClassLocksExclude'
  BY EndTypes DEF ClassIsFull
<1> USE DEF ClassIsFull, End, At, Goto, requests, classes, locals, TypeOK, RowsTyped, TransactionsTyped, Standing
<1>2. RowsTyped'
  BY NoneIsNothing, CapacitiesArePositive
<1>3. Standing'
  BY NoneIsNothing, CapacitiesArePositive
<1> QED
  BY <1>1, <1>2, <1>3

LEMMA DeclineTypes ==
  ASSUME TypeOK, NEW w \in Workers, Decline(w)
  PROVE  TypeOK'
<1>1. TransactionsTyped' /\ NoneBeganLater' /\ ClassLocksExclude'
  BY EndTypes DEF Decline
<1> USE DEF Decline, End, At, Goto, requests, classes, locals, TypeOK, RowsTyped, TransactionsTyped, Standing
<1>2. RowsTyped'
  BY NoneIsNothing, CapacitiesArePositive
<1>3. Standing'
  BY NoneIsNothing, CapacitiesArePositive
<1> QED
  BY <1>1, <1>2, <1>3

LEMMA SendCapacityTypes ==
  ASSUME TypeOK, NEW w \in Workers, NEW c \in Classes, NEW n \in CapacityEdits, SendCapacity(w, c, n)
  PROVE  TypeOK'
<1>1. TransactionsTyped' /\ NoneBeganLater' /\ ClassLocksExclude'
  BY BeginTypes, CapacitiesArePositive DEF Labels, SendCapacity
<1> USE DEF SendCapacity, Begin, At, Goto, requests, classes, locals, TypeOK, RowsTyped, TransactionsTyped, Standing
<1>2. RowsTyped'
  BY NoneIsNothing, CapacitiesArePositive
<1>3. Standing'
  BY NoneIsNothing, CapacitiesArePositive
<1> QED
  BY <1>1, <1>2, <1>3

LEMMA SendStudentsTypes ==
  ASSUME TypeOK, NEW w \in Workers, NEW c \in Classes, NEW m \in EnrolmentEdits, SendStudents(w, c, m)
  PROVE  TypeOK'
<1>1. TransactionsTyped' /\ NoneBeganLater' /\ ClassLocksExclude'
  BY BeginTypes, CapacitiesArePositive DEF TypeOK, RowsTyped, Labels, SendStudents
<1> USE DEF SendStudents, Begin, At, Goto, requests, classes, locals, TypeOK, RowsTyped, TransactionsTyped, Standing
<1>2. RowsTyped'
  BY NoneIsNothing, CapacitiesArePositive
<1>3. Standing'
  BY NoneIsNothing, CapacitiesArePositive
<1> QED
  BY <1>1, <1>2, <1>3

LEMMA SaveClassTypes ==
  ASSUME TypeOK, NEW w \in Workers, SaveClass(w)
  PROVE  TypeOK'
<1>1. TransactionsTyped' /\ NoneBeganLater' /\ ClassLocksExclude'
  BY EndTypes DEF SaveClass
<1> USE DEF SaveClass, End, At, Goto, requests, classes, locals, TypeOK, RowsTyped, TransactionsTyped, Standing
<1>2. RowsTyped'
  BY NoneIsNothing, CapacitiesArePositive
<1>3. Standing'
  BY NoneIsNothing, CapacitiesArePositive
<1> QED
  BY <1>1, <1>2, <1>3

LEMMA RollbackTypes ==
  ASSUME TypeOK, NEW w \in Workers, Rollback(w)
  PROVE  TypeOK'
<1>1. TransactionsTyped' /\ NoneBeganLater' /\ ClassLocksExclude'
  BY EndTypes DEF Rollback
<1> USE DEF Rollback, End, At, Goto, requests, classes, locals, TypeOK, RowsTyped, TransactionsTyped, Standing
<1>2. RowsTyped'
  BY NoneIsNothing, CapacitiesArePositive
<1>3. Standing'
  BY NoneIsNothing, CapacitiesArePositive
<1> QED
  BY <1>1, <1>2, <1>3

LEMMA TickTypes ==
  ASSUME TypeOK, Tick
  PROVE  TypeOK'
<1>1. RowsTyped'
  BY TimeIsFinite DEF TypeOK, RowsTyped, Tick, requests, classes
<1>2. TransactionsTyped' /\ Standing' /\ ClassLocksExclude'
  BY DEF TypeOK, TransactionsTyped, Standing, ClassLocksExclude, LocksClass, Tick,
         requests, locals
<1>3. NoneBeganLater'
  <2>1. \A v \in Workers : began[v] \in Nat /\ began[v] <= now
    BY DEF TypeOK, TransactionsTyped, NoneBeganLater
  <2>2. now' = now + 1 /\ began' = began
    BY DEF Tick, locals
  <2> QED
    BY <2>1, <2>2, ClockIsNatural DEF NoneBeganLater
<1> QED
  BY <1>1, <1>2, <1>3 DEF TypeOK

LEMMA TypeStep == TypeOK /\ [Next]_vars => TypeOK'
<1> SUFFICES ASSUME TypeOK, [Next]_vars
             PROVE  TypeOK'
  OBVIOUS
<1>1. ASSUME NEW w \in Workers, NEW c \in Classes, NEW p \in Phones, Ask(w, c, p)
      PROVE  TypeOK'
  BY <1>1, AskTypes
<1>2. ASSUME NEW w \in Workers, CountSeats(w)
      PROVE  TypeOK'
  BY <1>2, CountSeatsTypes
<1>3. ASSUME NEW w \in Workers, NEW b \in Requests, FileRequest(w, b)
      PROVE  TypeOK'
  BY <1>3, FileRequestTypes
<1>4. ASSUME NEW w \in Workers, FileNothing(w)
      PROVE  TypeOK'
  BY <1>4, FileNothingTypes
<1>5. ASSUME NEW w \in Workers, NEW b \in Requests, NEW decision \in {"to approve", "to decline"}, Review(w, b, decision)
      PROVE  TypeOK'
  BY <1>5, ReviewTypes
<1>6. ASSUME NEW w \in Workers, LockBooking(w)
      PROVE  TypeOK'
  BY <1>6, LockBookingTypes
<1>7. ASSUME NEW w \in Workers, AlreadyReviewed(w)
      PROVE  TypeOK'
  BY <1>7, AlreadyReviewedTypes
<1>8. ASSUME NEW w \in Workers, LockClass(w)
      PROVE  TypeOK'
  BY <1>8, LockClassTypes
<1>9. ASSUME NEW w \in Workers, Approve(w)
      PROVE  TypeOK'
  BY <1>9, ApproveTypes
<1>10. ASSUME NEW w \in Workers, ClassIsFull(w)
      PROVE  TypeOK'
  BY <1>10, ClassIsFullTypes
<1>11. ASSUME NEW w \in Workers, Decline(w)
      PROVE  TypeOK'
  BY <1>11, DeclineTypes
<1>12. ASSUME NEW w \in Workers, NEW c \in Classes, NEW n \in CapacityEdits, SendCapacity(w, c, n)
      PROVE  TypeOK'
  BY <1>12, SendCapacityTypes
<1>13. ASSUME NEW w \in Workers, NEW c \in Classes, NEW m \in EnrolmentEdits, SendStudents(w, c, m)
      PROVE  TypeOK'
  BY <1>13, SendStudentsTypes
<1>14. ASSUME NEW w \in Workers, SaveClass(w)
      PROVE  TypeOK'
  BY <1>14, SaveClassTypes
<1>15. ASSUME NEW w \in Workers, Rollback(w)
      PROVE  TypeOK'
  BY <1>15, RollbackTypes
<1>16. CASE Tick
  BY <1>16, TickTypes
<1>17. CASE UNCHANGED vars
  BY <1>17 DEF vars, requests, classes, locals, TypeOK, RowsTyped, TransactionsTyped, Standing,
               NoneBeganLater, ClassLocksExclude, LocksClass
<1> QED
  BY <1>1, <1>2, <1>3, <1>4, <1>5, <1>6, <1>7, <1>8, <1>9, <1>10, <1>11, <1>12, <1>13, <1>14, <1>15, <1>16, <1>17 DEF Next

LEMMA TypeInit == Init => TypeOK
<1> SUFFICES ASSUME Init
             PROVE  TypeOK
  OBVIOUS
<1> USE DEF Init
<1>1. RowsTyped
  BY CapacitiesArePositive, TimeIsFinite DEF RowsTyped
<1>2. TransactionsTyped
  BY DEF TransactionsTyped, Labels
<1>3. Standing /\ NoneBeganLater /\ ClassLocksExclude
  BY DEF Standing, NoneBeganLater, ClassLocksExclude, LocksClass
<1> QED
  BY <1>1, <1>2, <1>3 DEF TypeOK

\* Rows keep their shape, no transaction began after the present, and of the
\* transactions about a class one at a time holds the lock of its row, whatever
\* the routes of the public page and of the studio do, and wherever they fail.
THEOREM TypeCorrect == Spec => []TypeOK
BY TypeInit, TypeStep, PTL DEF Spec
-----------------------------------------------------------------------------
(* Places.  The invariant: a transaction knows the capacity of its class,  *)
(* and there is room for one more wherever a hold is about to be filed.    *)

SeatInv == TypeOK /\ CapacitiesAreKnown /\ RoomIsKept

LEMMA SumsOfSeats ==
  /\ \A s \in Nat : s + 1 <= s + 1
  /\ \A e, s, t, k \in Nat : s <= t /\ e + t < k => e + s < k
  /\ \A e, s, t, k \in Nat : s <= t + 1 /\ e + t < k => e + s <= k
OBVIOUS

LEMMA RequestSetsAreFinite ==
  \A S \in SUBSET Requests : IsFiniteSet(S) /\ Cardinality(S) \in Nat
BY RequestsAreFinite, FS_Subset, FS_CardinalityType

LEMMA FewerRequests ==
  \A S, T \in SUBSET Requests : S \subseteq T => Cardinality(S) <= Cardinality(T)
BY RequestSetsAreFinite, FS_Subset

LEMMA OneMoreRequest ==
  \A S \in SUBSET Requests, b \in Requests : Cardinality(S \cup {b}) <= Cardinality(S) + 1
<1> SUFFICES ASSUME NEW S \in SUBSET Requests, NEW b \in Requests
             PROVE  Cardinality(S \cup {b}) <= Cardinality(S) + 1
  OBVIOUS
<1>1. IsFiniteSet(S) /\ Cardinality(S) \in Nat
  BY RequestSetsAreFinite
<1>2. CASE b \in S
  <2>1. S \cup {b} = S
    BY <1>2
  <2> QED
    BY <1>1, <2>1
<1>3. CASE b \notin S
  <2>1. Cardinality(S \cup {b}) = Cardinality(S) + 1
    BY <1>1, <1>3, FS_AddElement
  <2>2. Cardinality(S) + 1 <= Cardinality(S) + 1
    BY <1>1, SumsOfSeats
  <2> QED
    BY <2>1, <2>2
<1> QED
  BY <1>2, <1>3

LEMMA TakersAreRequests ==
  \A c, t : Takers(c, t) \in SUBSET Requests /\ Takers(c, t)' \in SUBSET Requests
BY DEF Takers

\* A step that leaves the class and the status of every request as they are
\* gives no seat.
LEMMA NoSeatGiven ==
  ASSUME status' = status
  PROVE  SeatsTakenFit
BY DEF SeatsTakenFit, TakesItsSeat

LEMMA KnownStep ==
  ASSUME SeatInv, CapacityEdits = {}, [Next]_vars
  PROVE  CapacitiesAreKnown' /\ capacity' = capacity
<1> USE DEF SeatInv, TypeOK, TransactionsTyped, CapacitiesAreKnown
<1>1. ASSUME NEW w \in Workers, NEW c \in Classes, NEW p \in Phones, Ask(w, c, p)
      PROVE  CapacitiesAreKnown' /\ capacity' = capacity
  BY <1>1 DEF Ask, Begin, At, Goto, classes
<1>2. ASSUME NEW w \in Workers, CountSeats(w)
      PROVE  CapacitiesAreKnown' /\ capacity' = capacity
  BY <1>2 DEF CountSeats, At, Goto, classes, locals
<1>3. ASSUME NEW w \in Workers, End(w), capacity' = capacity
      PROVE  CapacitiesAreKnown'
  BY <1>3 DEF End, Goto
<1>4. ASSUME NEW w \in Workers, NEW b \in Requests, NEW decision \in {"to approve", "to decline"},
             Review(w, b, decision)
      PROVE  CapacitiesAreKnown' /\ capacity' = capacity
  BY <1>4 DEF Review, Begin, At, Goto, classes
<1>5. ASSUME NEW w \in Workers, LockBooking(w)
      PROVE  CapacitiesAreKnown' /\ capacity' = capacity
  BY <1>5 DEF LockBooking, At, Goto, classes
<1>6. ASSUME NEW w \in Workers, LockClass(w)
      PROVE  CapacitiesAreKnown' /\ capacity' = capacity
  BY <1>6 DEF LockClass, At, Goto, classes, locals
<1>7. ASSUME NEW w \in Workers, NEW c \in Classes, NEW m \in EnrolmentEdits, SendStudents(w, c, m)
      PROVE  CapacitiesAreKnown' /\ capacity' = capacity
  BY <1>7 DEF SendStudents, Begin, At, Goto, classes
<1>8. ASSUME NEW w \in Workers, SaveClass(w)
      PROVE  CapacitiesAreKnown' /\ capacity' = capacity
  <2>1. pc[w] = "save students" /\ cap[w] = capacity[about[w]]
    BY <1>8 DEF SaveClass
  <2>2. capacity \in [Classes -> Nat \ {0}]
    BY DEF RowsTyped
  <2>3. capacity' = capacity
    BY <1>8, <2>1, <2>2 DEF SaveClass
  <2> QED
    BY <1>3, <1>8, <2>3 DEF SaveClass
<1>9. CASE Tick
  BY <1>9 DEF Tick, classes, locals
<1>10. CASE UNCHANGED vars
  BY <1>10 DEF vars, classes, locals
<1>11. ASSUME NEW w \in Workers, NEW b \in Requests, FileRequest(w, b)
       PROVE  CapacitiesAreKnown' /\ capacity' = capacity
  BY <1>3, <1>11 DEF FileRequest, classes
<1>12. ASSUME NEW w \in Workers,
              \/ FileNothing(w) \/ AlreadyReviewed(w) \/ Approve(w) \/ ClassIsFull(w)
              \/ Decline(w) \/ Rollback(w)
       PROVE  CapacitiesAreKnown' /\ capacity' = capacity
  <2>1. End(w) /\ capacity' = capacity
    BY <1>12 DEF FileNothing, AlreadyReviewed, Approve, ClassIsFull, Decline, Rollback, classes
  <2> QED
    BY <1>3, <2>1
<1> QED
  BY <1>1, <1>2, <1>4, <1>5, <1>6, <1>7, <1>8, <1>9, <1>10, <1>11, <1>12 DEF Next

\* While a worker is about to file with a hold, the seats of its class that it
\* counted only become fewer: whatever would add one waits for the class.
LEMMA SeatsOnlyLeave ==
  ASSUME SeatInv, [Next]_vars,
         NEW w \in Workers, At(w, "file with hold"), At(w, "file with hold")'
  PROVE  /\ about'[w] = about[w] /\ began'[w] = began[w]
         /\ enrolled'[about[w]] = enrolled[about[w]]
         /\ Takers(about[w], began[w])' \subseteq Takers(about[w], began[w])
<1> DEFINE Leaves == /\ about'[w] = about[w] /\ began'[w] = began[w]
                     /\ enrolled'[about[w]] = enrolled[about[w]]
                     /\ Takers(about[w], began[w])' \subseteq Takers(about[w], began[w])
<1> USE DEF SeatInv, TypeOK
<1>1. ASSUME NEW v \in Workers, \/ End(v) \/ CountSeats(v) \/ LockBooking(v) \/ LockClass(v)
                                \/ \E label \in Labels \ {"file with hold"} :
                                     \E c, p, b, n, m : Begin(v, label, c, p, b, n, m)
      PROVE  v # w /\ about'[w] = about[w] /\ began'[w] = began[w]
  BY <1>1 DEF TransactionsTyped, End, CountSeats, LockBooking, LockClass, Begin, At, Goto, locals
<1>2. ASSUME requests' = requests, enrolled' = enrolled, about'[w] = about[w], began'[w] = began[w]
      PROVE  Leaves
  BY <1>2 DEF requests, Takers, TakesSeat
<1>3. ASSUME NEW v \in Workers, NEW b \in Requests, FileRequest(v, b)
      PROVE  Leaves
  <2>1. v # w /\ about'[w] = about[w] /\ began'[w] = began[w]
    BY <1>1, <1>3 DEF FileRequest
  <2>2. about[w] \in Classes /\ about[v] \in Classes
    BY <1>3 DEF FileRequest, Standing, At
  <2>3. about[v] # about[w]
    BY <1>3, <2>1, <2>2 DEF FileRequest, ClassLocksExclude, LocksClass, At
  <2>4. /\ class' = [class EXCEPT ![b] = about[v]] /\ class \in [Requests -> Classes \cup {None}]
        /\ \A r \in Requests \ {b} : status'[r] = status[r] /\ until'[r] = until[r]
        /\ enrolled' = enrolled
    BY <1>3 DEF FileRequest, RowsTyped, classes
  <2>5. Takers(about[w], began[w])' \subseteq Takers(about[w], began[w])
    BY <2>1, <2>3, <2>4 DEF Takers, TakesSeat
  <2> QED
    BY <2>1, <2>4, <2>5
<1>4. ASSUME NEW v \in Workers, Approve(v)
      PROVE  Leaves
  <2>1. v # w /\ about'[w] = about[w] /\ began'[w] = began[w]
    BY <1>1, <1>4 DEF Approve
  <2>2. about[w] \in Classes /\ about[v] \in Classes /\ class[id[v]] = about[v]
    BY <1>4 DEF Approve, Standing, At
  <2>3. about[v] # about[w]
    BY <1>4, <2>1, <2>2 DEF Approve, ClassLocksExclude, LocksClass, At
  <2>4. /\ class' = class /\ until' = until /\ enrolled' = enrolled
        /\ \A r \in Requests : r # id[v] => status'[r] = status[r]
    BY <1>4 DEF Approve, RowsTyped, classes
  <2>5. Takers(about[w], began[w])' \subseteq Takers(about[w], began[w])
    BY <2>1, <2>2, <2>3, <2>4 DEF Takers, TakesSeat
  <2> QED
    BY <2>1, <2>4, <2>5
<1>5. ASSUME NEW v \in Workers, Decline(v)
      PROVE  Leaves
  <2>1. about'[w] = about[w] /\ began'[w] = began[w]
    BY <1>1, <1>5 DEF Decline
  <2>2. /\ class' = class /\ until' = until /\ enrolled' = enrolled
        /\ \A r \in Requests : status'[r] = status[r] \/ status'[r] = "declined"
    BY <1>5 DEF Decline, RowsTyped, classes
  <2> QED
    BY <2>1, <2>2 DEF Takers, TakesSeat
<1>6. ASSUME NEW v \in Workers, SaveClass(v)
      PROVE  Leaves
  <2>1. v # w /\ about'[w] = about[w] /\ began'[w] = began[w]
    BY <1>1, <1>6 DEF SaveClass
  <2>2. about[w] \in Classes /\ about[v] \in Classes
    BY <1>6 DEF SaveClass, Standing, At
  <2>3. about[v] # about[w]
    BY <1>6, <2>1 DEF SaveClass, ClassFree, LocksClass, At
  <2>4. enrolled'[about[w]] = enrolled[about[w]]
    BY <1>6, <2>2, <2>3 DEF SaveClass, RowsTyped
  <2>5. Takers(about[w], began[w])' \subseteq Takers(about[w], began[w])
    BY <1>6, <2>1 DEF SaveClass, requests, Takers, TakesSeat
  <2> QED
    BY <2>1, <2>4, <2>5
<1>7. ASSUME NEW v \in Workers,
             \/ FileNothing(v) \/ AlreadyReviewed(v) \/ ClassIsFull(v) \/ Rollback(v)
             \/ CountSeats(v) \/ LockBooking(v) \/ LockClass(v)
      PROVE  Leaves
  <2>1. about'[w] = about[w] /\ began'[w] = began[w]
    BY <1>1, <1>7 DEF FileNothing, AlreadyReviewed, ClassIsFull, Rollback
  <2>2. requests' = requests /\ enrolled' = enrolled
    BY <1>7 DEF FileNothing, AlreadyReviewed, ClassIsFull, Rollback, CountSeats, LockBooking,
                LockClass, classes
  <2> QED
    BY <1>2, <2>1, <2>2
<1>8. ASSUME NEW v \in Workers, NEW label \in Labels \ {"file with hold"},
             NEW c, NEW p, NEW b, NEW n, NEW m, Begin(v, label, c, p, b, n, m)
      PROVE  Leaves
  <2>1. requests' = requests /\ enrolled' = enrolled
    BY <1>8 DEF Begin, classes
  <2> QED
    BY <1>1, <1>2, <1>8, <2>1
<1>9. ASSUME NEW v \in Workers,
             \/ \E c \in Classes, p \in Phones : Ask(v, c, p)
             \/ \E b \in Requests, decision \in {"to approve", "to decline"} : Review(v, b, decision)
             \/ \E c \in Classes, n \in CapacityEdits : SendCapacity(v, c, n)
             \/ \E c \in Classes, m \in EnrolmentEdits : SendStudents(v, c, m)
      PROVE  Leaves
  BY <1>8, <1>9 DEF Ask, Review, SendCapacity, SendStudents, Labels
<1>10. CASE Tick \/ UNCHANGED vars
  BY <1>2, <1>10 DEF Tick, vars, classes, locals
<1> QED
  BY <1>3, <1>4, <1>5, <1>6, <1>7, <1>9, <1>10 DEF Next

\* Only CountSeats sends a transaction to hold a place.
LEMMA OnlyCountersHold ==
  ASSUME SeatInv, [Next]_vars,
         NEW w \in Workers, ~ At(w, "file with hold"), At(w, "file with hold")'
  PROVE  CountSeats(w)
<1> USE DEF SeatInv, TypeOK, TransactionsTyped
<1>1. ASSUME NEW v \in Workers, NEW label \in Labels \ {"file with hold"}, Goto(v, label)
      PROVE  FALSE
  BY <1>1 DEF At, Goto
<1>2. ASSUME NEW v \in Workers, CountSeats(v)
      PROVE  v = w
  BY <1>2 DEF CountSeats, At, Goto
<1>3. ASSUME NEW v \in Workers,
             \/ \E b \in Requests : FileRequest(v, b)
             \/ FileNothing(v) \/ AlreadyReviewed(v) \/ Approve(v) \/ ClassIsFull(v)
             \/ Decline(v) \/ SaveClass(v) \/ Rollback(v)
      PROVE  FALSE
  BY <1>1, <1>3 DEF FileRequest, FileNothing, AlreadyReviewed, Approve, ClassIsFull, Decline,
                    SaveClass, Rollback, End, Labels
<1>4. ASSUME NEW v \in Workers,
             \/ \E c \in Classes, p \in Phones : Ask(v, c, p)
             \/ \E b \in Requests, decision \in {"to approve", "to decline"} : Review(v, b, decision)
             \/ \E c \in Classes, n \in CapacityEdits : SendCapacity(v, c, n)
             \/ \E c \in Classes, m \in EnrolmentEdits : SendStudents(v, c, m)
      PROVE  FALSE
  BY <1>1, <1>4 DEF Ask, Review, SendCapacity, SendStudents, Begin, Labels
<1>5. ASSUME NEW v \in Workers, LockBooking(v) \/ LockClass(v)
      PROVE  FALSE
  BY <1>1, <1>5 DEF LockBooking, LockClass, Labels
<1>6. CASE Tick \/ UNCHANGED vars
  BY <1>6 DEF Tick, vars, At
<1> QED
  BY <1>2, <1>3, <1>4, <1>5, <1>6 DEF Next

LEMMA RoomStep ==
  ASSUME SeatInv, CapacityEdits = {}, [Next]_vars
  PROVE  RoomIsKept'
<1> SUFFICES ASSUME NEW w \in Workers, At(w, "file with hold")'
             PROVE  (SeatsTaken(about[w], began[w]) < capacity[about[w]])'
  BY DEF RoomIsKept
<1>1. capacity' = capacity
  BY KnownStep
<1>2. CASE At(w, "file with hold")
  <2> DEFINE c == about[w]
             t == began[w]
  <2>1. /\ about'[w] = c /\ began'[w] = t /\ enrolled'[c] = enrolled[c]
        /\ Takers(c, t)' \subseteq Takers(c, t)
    BY <1>2, SeatsOnlyLeave
  <2>2. Cardinality(Takers(c, t)') <= Cardinality(Takers(c, t))
    BY <2>1, TakersAreRequests, FewerRequests
  <2>3. enrolled[c] + Cardinality(Takers(c, t)) < capacity[c]
    BY <1>2 DEF SeatInv, RoomIsKept, SeatsTaken
  <2>4. c \in Classes /\ enrolled[c] \in Nat /\ capacity[c] \in Nat
    BY <1>2 DEF SeatInv, TypeOK, Standing, RowsTyped, At
  <2>5. Cardinality(Takers(c, t)') \in Nat /\ Cardinality(Takers(c, t)) \in Nat
    BY TakersAreRequests, RequestSetsAreFinite
  <2>6. enrolled[c] + Cardinality(Takers(c, t)') < capacity[c]
    <3> HIDE DEF c, t
    <3> QED
      BY <2>2, <2>3, <2>4, <2>5, SumsOfSeats
  <2> QED
    BY <1>1, <2>1, <2>6 DEF SeatsTaken, Takers, TakesSeat
<1>3. CASE ~ At(w, "file with hold")
  <2>1. CountSeats(w)
    BY <1>3, OnlyCountersHold
  <2>2. SeatsTaken(about[w], began[w]) < cap[w]
    BY <2>1 DEF CountSeats, At, Goto, SeatInv, TypeOK, TransactionsTyped
  <2>3. cap[w] = capacity[about[w]]
    BY <2>1 DEF CountSeats, At, SeatInv, CapacitiesAreKnown
  <2>4. /\ class' = class /\ status' = status /\ until' = until /\ enrolled' = enrolled
        /\ about' = about /\ began' = began
    BY <2>1 DEF CountSeats, requests, classes, locals
  <2> QED
    BY <1>1, <2>2, <2>3, <2>4 DEF SeatsTaken, Takers, TakesSeat
<1> QED
  BY <1>2, <1>3

LEMMA SeatInvStep == CapacityEdits = {} /\ SeatInv /\ [Next]_vars => SeatInv'
BY TypeStep, KnownStep, RoomStep DEF SeatInv

LEMMA SeatInvInit == Init => SeatInv
BY TypeInit DEF Init, SeatInv, CapacitiesAreKnown, RoomIsKept, At

\* A seat that is taken by filing or approving a request was counted free
\* under the lock: the row added to the ones counted still fits.
LEMMA SeatFits ==
  ASSUME SeatInv, NEW c \in Classes, NEW b \in Requests, now' = now,
         NEW S \in SUBSET Requests, Takers(c, now)' \subseteq S \cup {b},
         enrolled'[c] = enrolled[c], capacity'[c] = capacity[c],
         enrolled[c] + Cardinality(S) < capacity[c]
  PROVE  Fits(c)'
<1>1. Cardinality(Takers(c, now)') <= Cardinality(S) + 1
  <2>1. Cardinality(Takers(c, now)') <= Cardinality(S \cup {b})
    BY TakersAreRequests, FewerRequests
  <2>2. Cardinality(S \cup {b}) <= Cardinality(S) + 1
    BY OneMoreRequest
  <2>3. /\ Cardinality(Takers(c, now)') \in Nat /\ Cardinality(S \cup {b}) \in Nat
        /\ Cardinality(S) \in Nat
    BY TakersAreRequests, RequestSetsAreFinite
  <2> QED
    BY <2>1, <2>2, <2>3
<1>2. Cardinality(Takers(c, now)') \in Nat /\ Cardinality(S) \in Nat
  BY TakersAreRequests, RequestSetsAreFinite
<1>3. enrolled[c] \in Nat /\ capacity[c] \in Nat
  BY DEF SeatInv, TypeOK, RowsTyped
<1>4. enrolled[c] + Cardinality(Takers(c, now)') <= capacity[c]
  BY <1>1, <1>2, <1>3, SumsOfSeats
<1> QED
  BY <1>4 DEF Fits, SeatsTaken

LEMMA EarlierTakers ==
  ASSUME SeatInv, NEW w \in Workers, NEW c
  PROVE  Takers(c, now) \subseteq Takers(c, began[w])
<1>1. now \in Nat /\ began[w] \in Nat /\ began[w] <= now /\ \A b \in Requests : until[b] \in Nat
  BY ClockIsNatural DEF SeatInv, TypeOK, TransactionsTyped, NoneBeganLater, RowsTyped
<1>2. \A u \in Nat : u > now => u > began[w]
  <2> DEFINE t == began[w]
  <2>1. t \in Nat /\ t <= now
    BY <1>1
  <2> HIDE DEF t
  <2>2. \A u \in Nat : u > now => u > t
    BY <1>1, <2>1
  <2> QED
    BY <2>2 DEF t
<1> QED
  BY <1>1, <1>2 DEF Takers, TakesSeat

LEMMA FilingFits ==
  ASSUME SeatInv, CapacityEdits = {}, NEW w \in Workers, NEW b \in Requests, FileRequest(w, b)
  PROVE  SeatsTakenFit
<1> SUFFICES ASSUME NEW r \in Requests, NEW c \in Classes, TakesItsSeat(r), class'[r] = c
             PROVE  Fits(c)'
  BY DEF SeatsTakenFit
<1> USE DEF SeatInv, TypeOK
<1>1. /\ status' = [status EXCEPT ![b] = "pending"]
      /\ until' = [until EXCEPT ![b] = IF At(w, "file with hold") THEN began[w] + HoldHours ELSE 0]
      /\ class' = [class EXCEPT ![b] = about[w]]
      /\ now' = now /\ enrolled' = enrolled /\ capacity' = capacity
  BY DEF FileRequest, classes
<1>2. r = b
  BY <1>1 DEF TakesItsSeat, RowsTyped
<1>3. At(w, "file with hold")
  <2>1. until'[b] > now
    BY <1>1, <1>2 DEF TakesItsSeat, RowsTyped
  <2>2. ~ (0 > now)
    BY ClockIsNatural
  <2> QED
    BY <1>1, <2>1, <2>2 DEF RowsTyped
<1>4. c = about[w]
  BY <1>1, <1>2 DEF RowsTyped
<1>5. enrolled[c] + Cardinality(Takers(c, began[w])) < capacity[c]
  BY <1>3, <1>4 DEF RoomIsKept, SeatsTaken
<1>6. Takers(c, now)' \subseteq Takers(c, now) \cup {b}
  BY <1>1 DEF Takers, TakesSeat, RowsTyped
<1>7. Takers(c, now)' \subseteq Takers(c, began[w]) \cup {b}
  BY <1>6, EarlierTakers
<1>8. Takers(c, began[w]) \in SUBSET Requests
  BY TakersAreRequests
<1> QED
  BY <1>1, <1>5, <1>7, <1>8, SeatFits

LEMMA ApprovalFits ==
  ASSUME SeatInv, CapacityEdits = {}, NEW w \in Workers, Approve(w)
  PROVE  SeatsTakenFit
<1> SUFFICES ASSUME NEW r \in Requests, NEW c \in Classes, TakesItsSeat(r), class'[r] = c
             PROVE  Fits(c)'
  BY DEF SeatsTakenFit
<1> USE DEF SeatInv, TypeOK
<1>1. /\ status' = [status EXCEPT ![id[w]] = "approved"]
      /\ class' = class /\ until' = until
      /\ now' = now /\ enrolled' = enrolled /\ capacity' = capacity
  BY DEF Approve, classes
<1>2. id[w] \in Requests /\ class[id[w]] = about[w]
  BY DEF Approve, Standing, At
<1>3. r = id[w]
  BY <1>1, <1>2 DEF TakesItsSeat, RowsTyped
<1>4. c = about[w]
  BY <1>1, <1>2, <1>3
<1>5. enrolled[c] + Cardinality(Takers(c, began[w]) \ {id[w]}) < capacity[c]
  BY <1>4 DEF Approve, HasRoom, SeatsTakenByOthers, CapacitiesAreKnown, At
<1>6. Takers(c, now)' \subseteq Takers(c, now) \cup {id[w]}
  BY <1>1, <1>2 DEF Takers, TakesSeat, RowsTyped
<1>7. Takers(c, now)' \subseteq (Takers(c, began[w]) \ {id[w]}) \cup {id[w]}
  BY <1>6, EarlierTakers
<1>8. Takers(c, began[w]) \ {id[w]} \in SUBSET Requests
  BY TakersAreRequests
<1> QED
  BY <1>1, <1>2, <1>5, <1>7, <1>8, SeatFits

LEMMA SeatsStep == CapacityEdits = {} /\ SeatInv /\ [Next]_vars => [SeatsTakenFit]_vars
<1> SUFFICES ASSUME CapacityEdits = {}, SeatInv, [Next]_vars
             PROVE  SeatsTakenFit \/ UNCHANGED vars
  OBVIOUS
<1>1. ASSUME NEW w \in Workers, Decline(w)
      PROVE  SeatsTakenFit
  <2>1. \A r \in Requests : status'[r] = status[r] \/ status'[r] = "declined"
    BY <1>1 DEF Decline, SeatInv, TypeOK, RowsTyped
  <2> QED
    BY <2>1 DEF SeatsTakenFit, TakesItsSeat
<1>2. ASSUME NEW w \in Workers,
             \/ FileNothing(w) \/ AlreadyReviewed(w) \/ ClassIsFull(w) \/ Rollback(w)
             \/ CountSeats(w) \/ LockBooking(w) \/ LockClass(w) \/ SaveClass(w)
      PROVE  SeatsTakenFit
  BY <1>2, NoSeatGiven
     DEF FileNothing, AlreadyReviewed, ClassIsFull, Rollback, CountSeats, LockBooking, LockClass,
         SaveClass, requests
<1>3. ASSUME NEW w \in Workers,
             \/ \E c \in Classes, p \in Phones : Ask(w, c, p)
             \/ \E b \in Requests, decision \in {"to approve", "to decline"} : Review(w, b, decision)
             \/ \E c \in Classes, n \in CapacityEdits : SendCapacity(w, c, n)
             \/ \E c \in Classes, m \in EnrolmentEdits : SendStudents(w, c, m)
      PROVE  SeatsTakenFit
  BY <1>3, NoSeatGiven DEF Ask, Review, SendCapacity, SendStudents, Begin, requests
<1>4. CASE Tick
  BY <1>4, NoSeatGiven DEF Tick, requests
<1> QED
  BY <1>1, <1>2, <1>3, <1>4, FilingFits, ApprovalFits DEF Next

\* No approval and no new hold overbooks a class while nobody edits capacities:
\* the count that booking_holds.seats_taken makes under lock_class stays an
\* upper bound until the transaction that made it has written its row.
THEOREM NoOverbooking ==
  ASSUME CapacityEdits = {}
  PROVE  Spec => NoSeatInAFullClass
<1>1. SeatInv /\ [Next]_vars => SeatInv'
  BY SeatInvStep
<1>2. Spec => []SeatInv
  BY <1>1, SeatInvInit, PTL DEF Spec
<1>3. SeatInv /\ [Next]_vars => [SeatsTakenFit]_vars
  BY SeatsStep
<1> QED
  BY <1>2, <1>3, PTL DEF Spec, NoSeatInAFullClass

-----------------------------------------------------------------------------
(* Reviews.  Who has locked a request finds it pending until it has        *)
(* decided, because nobody else has it locked; so a request is approved    *)
(* once, and its enquiry counted once.                                     *)

InReview == {"lock class", "approve", "decline"}

ReviewsExclude ==
    \A w \in Workers :
      pc[w] \in InReview =>
        /\ status[id[w]] = "pending"
        /\ \A v \in Workers : pc[v] \in InReview /\ id[v] = id[w] => v = w

ReviewInv == TypeOK /\ ReviewsExclude /\ EnquiriesAreCountedOnce

\* Where a step leaves the requests that are being reviewed and starts no review,
\* whoever reviews goes on to do so alone.
LEMMA ReviewsGoOn ==
  ASSUME ReviewInv,
         \A w \in Workers : pc'[w] \in InReview => pc[w] \in InReview /\ id'[w] = id[w],
         \A w \in Workers : pc'[w] \in InReview => status'[id[w]] = status[id[w]]
  PROVE  ReviewsExclude'
BY DEF ReviewInv, ReviewsExclude

LEMMA RowsAsBefore ==
  ASSUME ReviewInv, requests' = requests
  PROVE  EnquiriesAreCountedOnce'
BY DEF ReviewInv, EnquiriesAreCountedOnce, requests

LEMMA ReviewStep == ReviewInv /\ [Next]_vars => ReviewInv'
<1> SUFFICES ASSUME ReviewInv, [Next]_vars
             PROVE  ReviewsExclude' /\ EnquiriesAreCountedOnce'
  BY TypeStep DEF ReviewInv
<1> USE DEF InReview
<1>0. /\ pc \in [Workers -> Labels] /\ id \in [Workers -> Requests \cup {None}]
      /\ status \in [Requests -> {"none", "pending", "approved", "declined"}]
      /\ phone \in [Requests -> Phones \cup {None}] /\ enquiries \in [Requests -> Nat]
      /\ \A v \in Workers : pc[v] \in InReview => id[v] \in Requests
  BY DEF ReviewInv, TypeOK, TransactionsTyped, RowsTyped, Standing
<1>1. ASSUME NEW w \in Workers, End(w)
      PROVE  \A v \in Workers : pc'[v] \in InReview => v # w /\ pc[v] \in InReview /\ id'[v] = id[v]
  BY <1>0, <1>1 DEF End, Goto
<1>2. ASSUME NEW w \in Workers, NEW label \in Labels \ InReview, NEW c, NEW p, NEW b, NEW n, NEW m,
             Begin(w, label, c, p, b, n, m)
      PROVE  ReviewsExclude' /\ EnquiriesAreCountedOnce'
  <2>1. requests' = requests
    BY <1>2 DEF Begin
  <2>2. \A v \in Workers : pc'[v] \in InReview => pc[v] \in InReview /\ id'[v] = id[v]
    BY <1>0, <1>2 DEF Begin, Goto
  <2>3. status' = status
    BY <2>1 DEF requests
  <2> QED
    BY <2>1, <2>2, <2>3, ReviewsGoOn, RowsAsBefore
<1>3. ASSUME NEW w \in Workers,
             \/ \E c \in Classes, p \in Phones : Ask(w, c, p)
             \/ \E b \in Requests, decision \in {"to approve", "to decline"} : Review(w, b, decision)
             \/ \E c \in Classes, n \in CapacityEdits : SendCapacity(w, c, n)
             \/ \E c \in Classes, m \in EnrolmentEdits : SendStudents(w, c, m)
      PROVE  ReviewsExclude' /\ EnquiriesAreCountedOnce'
  BY <1>2, <1>3 DEF Ask, Review, SendCapacity, SendStudents, Labels
<1>4. ASSUME NEW w \in Workers,
             \/ FileNothing(w) \/ AlreadyReviewed(w) \/ ClassIsFull(w) \/ SaveClass(w) \/ Rollback(w)
      PROVE  ReviewsExclude' /\ EnquiriesAreCountedOnce'
  <2>1. End(w) /\ requests' = requests
    BY <1>4 DEF FileNothing, AlreadyReviewed, ClassIsFull, SaveClass, Rollback
  <2>2. status' = status
    BY <2>1 DEF requests
  <2> QED
    BY <1>1, <2>1, <2>2, ReviewsGoOn, RowsAsBefore
<1>5. ASSUME NEW w \in Workers, CountSeats(w)
      PROVE  ReviewsExclude' /\ EnquiriesAreCountedOnce'
  <2>1. requests' = requests /\ status' = status /\ id' = id
    BY <1>5 DEF CountSeats, requests, locals
  <2>2. \A v \in Workers : pc'[v] \in InReview => pc[v] \in InReview
    BY <1>0, <1>5 DEF CountSeats, Goto
  <2> QED
    BY <2>1, <2>2, ReviewsGoOn, RowsAsBefore
<1>6. ASSUME NEW w \in Workers, LockClass(w)
      PROVE  ReviewsExclude' /\ EnquiriesAreCountedOnce'
  <2>1. requests' = requests /\ status' = status /\ id' = id
    BY <1>6 DEF LockClass, requests, locals
  <2>2. \A v \in Workers : pc'[v] \in InReview => pc[v] \in InReview
    BY <1>0, <1>6 DEF LockClass, Goto, At
  <2> QED
    BY <2>1, <2>2, ReviewsGoOn, RowsAsBefore
<1>7. ASSUME NEW w \in Workers, LockBooking(w)
      PROVE  ReviewsExclude' /\ EnquiriesAreCountedOnce'
  <2>1. requests' = requests /\ status' = status /\ id' = id
    BY <1>7 DEF LockBooking, requests
  <2>2. \A v \in Workers \ {w} : pc'[v] = pc[v]
    BY <1>0, <1>7 DEF LockBooking, Goto
  <2>3. status[id[w]] = "pending"
    BY <1>7 DEF LockBooking
  <2>4. \A v \in Workers \ {w} : ~ (pc[v] \in InReview /\ id[v] = id[w])
    BY <1>7 DEF LockBooking, BookingFree, LocksBooking
  <2> QED
    BY <2>1, <2>2, <2>3, <2>4, RowsAsBefore DEF ReviewInv, ReviewsExclude
<1>8. ASSUME NEW w \in Workers, NEW b \in Requests, FileRequest(w, b)
      PROVE  ReviewsExclude' /\ EnquiriesAreCountedOnce'
  <2>1. /\ End(w) /\ status[b] = "none" /\ enquiries' = enquiries
        /\ status' = [status EXCEPT ![b] = "pending"]
        /\ phone' = [phone EXCEPT ![b] = caller[w]]
    BY <1>8 DEF FileRequest
  <2>2. \A v \in Workers : pc[v] \in InReview => status[id[v]] = "pending" /\ id[v] # b
    BY <2>1 DEF ReviewInv, ReviewsExclude
  <2>3. \A r \in Requests : status'[r] = IF r = b THEN "pending" ELSE status[r]
    BY <1>0, <2>1
  <2>4. \A v \in Workers : pc[v] \in InReview => status'[id[v]] = status[id[v]]
    BY <1>0, <2>1, <2>2
  <2>5. EnquiriesAreCountedOnce'
    BY <1>0, <2>1, <2>3 DEF ReviewInv, EnquiriesAreCountedOnce
  <2> QED
    BY <1>1, <2>1, <2>4, <2>5, ReviewsGoOn
<1>9. ASSUME NEW w \in Workers, Approve(w) \/ Decline(w)
      PROVE  ReviewsExclude'
  <2>1. End(w) /\ pc[w] \in InReview
    BY <1>9 DEF Approve, Decline, At
  <2>2. \A v \in Workers : pc'[v] \in InReview => pc[v] \in InReview /\ id'[v] = id[v] /\ id[v] # id[w]
    BY <1>1, <2>1 DEF ReviewInv, ReviewsExclude
  <2>3. \A r \in Requests : r # id[w] => status'[r] = status[r]
    BY <1>0, <1>9 DEF Approve, Decline
  <2>4. \A v \in Workers : pc'[v] \in InReview => status'[id[v]] = status[id[v]]
    BY <1>0, <2>2, <2>3
  <2> QED
    BY <2>2, <2>4, ReviewsGoOn
<1>10. ASSUME NEW w \in Workers, Approve(w)
       PROVE  EnquiriesAreCountedOnce'
  <2>1. /\ status' = [status EXCEPT ![id[w]] = "approved"] /\ phone' = phone
        /\ enquiries' = [enquiries EXCEPT ![id[w]] = @ + IF phone[id[w]] \in Known THEN 0 ELSE 1]
        /\ pc[w] \in InReview
    BY <1>10 DEF Approve, At
  <2>2. status[id[w]] = "pending"
    BY <2>1 DEF ReviewInv, ReviewsExclude
  <2>3. \A r \in Requests : enquiries[r] = IF status[r] = "approved" /\ phone[r] \notin Known THEN 1 ELSE 0
    BY DEF ReviewInv, EnquiriesAreCountedOnce
  <2>4. id[w] \in Requests /\ enquiries[id[w]] = 0
    BY <1>0, <2>1, <2>2, <2>3
  <2>5. /\ enquiries'[id[w]] = IF phone[id[w]] \notin Known THEN 1 ELSE 0
        /\ \A r \in Requests : r # id[w] => enquiries'[r] = enquiries[r] /\ status'[r] = status[r]
        /\ status'[id[w]] = "approved"
    <3>1. enquiries'[id[w]] = enquiries[id[w]] + IF phone[id[w]] \in Known THEN 0 ELSE 1
      BY <1>0, <2>1, <2>4
    <3>2. 0 + 0 = 0 /\ 0 + 1 = 1
      OBVIOUS
    <3>3. enquiries'[id[w]] = IF phone[id[w]] \notin Known THEN 1 ELSE 0
      BY <2>4, <3>1, <3>2
    <3> QED
      BY <1>0, <2>1, <2>4, <3>3
  <2> QED
    BY <2>1, <2>3, <2>4, <2>5 DEF EnquiriesAreCountedOnce
<1>11. ASSUME NEW w \in Workers, Decline(w)
       PROVE  EnquiriesAreCountedOnce'
  <2>1. /\ status' = [status EXCEPT ![id[w]] = "declined"] /\ phone' = phone /\ enquiries' = enquiries
        /\ pc[w] \in InReview
    BY <1>11 DEF Decline, At
  <2>2. status[id[w]] = "pending"
    BY <2>1 DEF ReviewInv, ReviewsExclude
  <2> QED
    BY <1>0, <2>1, <2>2 DEF ReviewInv, EnquiriesAreCountedOnce
<1>12. CASE Tick \/ UNCHANGED vars
  <2>1. requests' = requests /\ status' = status /\ pc' = pc /\ id' = id
    BY <1>12 DEF Tick, vars, requests, locals
  <2> QED
    BY <2>1, ReviewsGoOn, RowsAsBefore
<1> QED
  BY <1>3, <1>4, <1>5, <1>6, <1>7, <1>8, <1>9, <1>10, <1>11, <1>12 DEF Next

LEMMA ReviewInit == Init => ReviewInv
BY TypeInit DEF Init, ReviewInv, ReviewsExclude, InReview, EnquiriesAreCountedOnce

\* Each approved request of a phone that matches no student becomes one enquiry,
\* whoever else reviews it: SELECT ... FOR UPDATE finds it pending once only.
THEOREM EnquiriesCountedOnce == Spec => []EnquiriesAreCountedOnce
<1>1. Spec => []ReviewInv
  BY ReviewInit, ReviewStep, PTL DEF Spec
<1>2. ReviewInv => EnquiriesAreCountedOnce
  BY DEF ReviewInv
<1> QED
  BY <1>1, <1>2, PTL

-----------------------------------------------------------------------------
(* A place that a request holds.  Without edits of the class its seats fit *)
(* at every moment; a review whose count sees what the clock sees finds    *)
(* the request it is about among them, and so a place.                     *)

PlacesInv ==
    /\ SeatInv
    /\ \A w \in Workers : pc[w] # "save students"
    /\ \A c \in Classes : Fits(c)

\* Whoever takes a seat of a class at this moment took it before, or the step
\* is the filing or the approval that gives it.
LEMMA GivenOrKept ==
  ASSUME SeatInv, [Next]_vars, NEW c \in Classes, NEW b \in Requests, TakesSeat(b, c, now)'
  PROVE  TakesSeat(b, c, now) \/ (TakesItsSeat(b) /\ class'[b] = c)
<1> USE DEF SeatInv, TypeOK
<1>1. ASSUME requests' = requests, now' = now
      PROVE  TakesSeat(b, c, now)
  BY <1>1 DEF TakesSeat, requests
<1>2. ASSUME NEW w \in Workers, NEW r \in Requests, FileRequest(w, r)
      PROVE  TakesSeat(b, c, now) \/ (TakesItsSeat(b) /\ class'[b] = c)
  BY <1>2 DEF FileRequest, TakesSeat, TakesItsSeat, RowsTyped
<1>3. ASSUME NEW w \in Workers, Approve(w)
      PROVE  TakesSeat(b, c, now) \/ (TakesItsSeat(b) /\ class'[b] = c)
  BY <1>3 DEF Approve, TakesSeat, TakesItsSeat, RowsTyped
<1>4. ASSUME NEW w \in Workers, Decline(w)
      PROVE  TakesSeat(b, c, now)
  BY <1>4 DEF Decline, TakesSeat, RowsTyped
<1>5. CASE Tick
  <2>1. now \in Nat /\ now' = now + 1 /\ until[b] \in Nat /\ requests' = requests
    BY <1>5, ClockIsNatural DEF Tick, RowsTyped
  <2>2. until[b] > now + 1 => until[b] > now
    BY <2>1
  <2> QED
    BY <2>1, <2>2 DEF TakesSeat, requests
<1>6. ASSUME NEW w \in Workers,
             \/ CountSeats(w) \/ FileNothing(w) \/ LockBooking(w) \/ AlreadyReviewed(w)
             \/ LockClass(w) \/ ClassIsFull(w) \/ SaveClass(w) \/ Rollback(w)
      PROVE  TakesSeat(b, c, now)
  BY <1>1, <1>6 DEF CountSeats, FileNothing, LockBooking, AlreadyReviewed, LockClass, ClassIsFull,
                    SaveClass, Rollback
<1>7. ASSUME NEW w \in Workers,
             \/ \E d \in Classes, p \in Phones : Ask(w, d, p)
             \/ \E r \in Requests, decision \in {"to approve", "to decline"} : Review(w, r, decision)
             \/ \E d \in Classes, n \in CapacityEdits : SendCapacity(w, d, n)
             \/ \E d \in Classes, m \in EnrolmentEdits : SendStudents(w, d, m)
      PROVE  TakesSeat(b, c, now)
  BY <1>1, <1>7 DEF Ask, Review, SendCapacity, SendStudents, Begin
<1>8. CASE UNCHANGED vars
  BY <1>1, <1>8 DEF vars
<1> QED
  BY <1>2, <1>3, <1>4, <1>5, <1>6, <1>7, <1>8 DEF Next

\* Nobody who may not edit the students of a class saves them.
LEMMA EnrolmentKept ==
  ASSUME PlacesInv, CapacityEdits = {}, EnrolmentEdits = {}, [Next]_vars
  PROVE  enrolled' = enrolled /\ \A w \in Workers : pc'[w] # "save students"
<1> USE DEF PlacesInv, SeatInv, TypeOK, TransactionsTyped
<1> DEFINE Kept == enrolled' = enrolled /\ \A w \in Workers : pc'[w] # "save students"
<1>1. ASSUME NEW w \in Workers, NEW label \in Labels \ {"save students"}, Goto(w, label)
      PROVE  \A v \in Workers : pc'[v] # "save students"
  BY <1>1 DEF Goto
<1>2. ASSUME NEW w \in Workers,
             \/ \E b \in Requests : FileRequest(w, b)
             \/ FileNothing(w) \/ AlreadyReviewed(w) \/ Approve(w) \/ ClassIsFull(w)
             \/ Decline(w) \/ Rollback(w)
      PROVE  Kept
  <2>1. Goto(w, "idle") /\ enrolled' = enrolled
    BY <1>2 DEF FileRequest, FileNothing, AlreadyReviewed, Approve, ClassIsFull, Decline, Rollback,
                End, classes
  <2> QED
    BY <1>1, <2>1 DEF Labels
<1>3. ASSUME NEW w \in Workers, CountSeats(w) \/ LockBooking(w) \/ LockClass(w)
      PROVE  Kept
  <2>1. enrolled' = enrolled
    BY <1>3 DEF CountSeats, LockBooking, LockClass, classes
  <2>2. \E label \in Labels \ {"save students"} : Goto(w, label)
    BY <1>3 DEF CountSeats, LockBooking, LockClass, Labels
  <2> QED
    BY <1>1, <2>1, <2>2
<1>4. ASSUME NEW w \in Workers,
             \/ \E c \in Classes, p \in Phones : Ask(w, c, p)
             \/ \E b \in Requests, decision \in {"to approve", "to decline"} : Review(w, b, decision)
      PROVE  Kept
  BY <1>1, <1>4 DEF Ask, Review, Begin, classes, Labels
<1>5. ASSUME NEW w \in Workers, SaveClass(w)
      PROVE  FALSE
  BY <1>5 DEF SaveClass, CapacitiesAreKnown
<1>6. CASE Tick \/ UNCHANGED vars
  BY <1>6 DEF Tick, vars, classes
<1> QED
  BY <1>2, <1>3, <1>4, <1>5, <1>6 DEF Next

LEMMA PlacesStep ==
  ASSUME PlacesInv, CapacityEdits = {}, EnrolmentEdits = {}, [Next]_vars
  PROVE  PlacesInv'
<1>1. SeatInv' /\ capacity' = capacity
  BY SeatInvStep, KnownStep DEF PlacesInv
<1>2. enrolled' = enrolled /\ \A w \in Workers : pc'[w] # "save students"
  BY EnrolmentKept
<1>3. ASSUME NEW c \in Classes
      PROVE  Fits(c)'
  <2>1. CASE \E b \in Requests : TakesItsSeat(b) /\ class'[b] = c
    <3>1. PICK b \in Requests : TakesItsSeat(b) /\ class'[b] = c
      BY <2>1
    <3>2. SeatsTakenFit \/ UNCHANGED vars
      BY SeatsStep DEF PlacesInv
    <3>3. CASE UNCHANGED vars
      BY <3>1, <3>3 DEF vars, requests, TakesItsSeat, PlacesInv, SeatInv, TypeOK, RowsTyped
    <3> QED
      BY <3>1, <3>2, <3>3 DEF SeatsTakenFit
  <2>2. CASE ~ \E b \in Requests : TakesItsSeat(b) /\ class'[b] = c
    <3>1. Takers(c, now)' \subseteq Takers(c, now)
      BY <2>2, GivenOrKept DEF PlacesInv, Takers
    <3>2. /\ Cardinality(Takers(c, now)') <= Cardinality(Takers(c, now))
          /\ Cardinality(Takers(c, now)') \in Nat /\ Cardinality(Takers(c, now)) \in Nat
      BY <3>1, TakersAreRequests, FewerRequests, RequestSetsAreFinite
    <3>3. enrolled[c] \in Nat /\ capacity[c] \in Nat
      BY DEF PlacesInv, SeatInv, TypeOK, RowsTyped
    <3>4. enrolled[c] + Cardinality(Takers(c, now)) <= capacity[c]
      BY DEF PlacesInv, Fits, SeatsTaken
    <3>5. enrolled[c] + Cardinality(Takers(c, now)') <= capacity[c]
      BY <3>2, <3>3, <3>4
    <3> QED
      BY <1>1, <1>2, <3>5 DEF Fits, SeatsTaken
  <2> QED
    BY <2>1, <2>2
<1> QED
  BY <1>1, <1>2, <1>3 DEF PlacesInv

LEMMA PlacesInit == Init => PlacesInv
<1> SUFFICES ASSUME Init
             PROVE  PlacesInv
  OBVIOUS
<1>1. ASSUME NEW c \in Classes
      PROVE  Fits(c)
  <2>1. Takers(c, now) = {}
    BY DEF Init, Takers, TakesSeat
  <2>2. Cardinality(Takers(c, now)) = 0
    BY <2>1, FS_EmptySet
  <2>3. enrolled[c] = 0 /\ capacity[c] \in Nat
    BY CapacitiesArePositive DEF Init
  <2> QED
    BY <2>2, <2>3 DEF Fits, SeatsTaken
<1> QED
  BY <1>1, SeatInvInit DEF PlacesInv, Init

\* The request is itself one of those that take a seat, and is not counted.
LEMMA PlacesSuffice == PlacesInv /\ ReviewInv => HeldPlacesAreThere
<1> SUFFICES ASSUME PlacesInv, ReviewInv, NEW w \in Workers, At(w, "approve"), until[id[w]] > now,
                    Takers(about[w], began[w]) = Takers(about[w], now)
             PROVE  HasRoom(w)
  BY DEF HeldPlacesAreThere
<1> DEFINE c == about[w]
           b == id[w]
           S == Takers(c, now)
<1>1. c \in Classes /\ b \in Requests /\ class[b] = c /\ cap[w] = capacity[c]
  BY DEF At, PlacesInv, SeatInv, TypeOK, Standing, CapacitiesAreKnown
<1>2. status[b] = "pending"
  BY DEF At, ReviewInv, ReviewsExclude, InReview
<1>3. b \in S
  BY <1>1, <1>2 DEF Takers, TakesSeat
<1>4. S \in SUBSET Requests /\ Takers(c, began[w]) = S
  BY TakersAreRequests
<1>5. enrolled[c] + Cardinality(S) <= capacity[c]
  BY <1>1 DEF PlacesInv, Fits, SeatsTaken
<1>6. Cardinality(S \ {b}) = Cardinality(S) - 1 /\ Cardinality(S) \in Nat
  <2> HIDE DEF S, b
  <2> QED
    BY <1>3, <1>4, RequestSetsAreFinite, FS_RemoveElement
<1>7. enrolled[c] \in Nat /\ capacity[c] \in Nat
  BY <1>1 DEF PlacesInv, SeatInv, TypeOK, RowsTyped
<1>8. enrolled[c] + Cardinality(S \ {b}) < capacity[c]
  <2> HIDE DEF S, b, c
  <2> QED
    BY <1>5, <1>6, <1>7
<1>9. SeatsTakenByOthers(b, c, began[w]) = enrolled[c] + Cardinality(S \ {b})
  BY <1>4 DEF SeatsTakenByOthers
<1> QED
  BY <1>1, <1>8, <1>9 DEF HasRoom

\* While nobody edits the class, a request whose hold runs has its place when it
\* is approved, unless a hold ran out since the review began: seats_taken leaves
\* the request itself out, and all that it counts was given a seat that was free.
THEOREM HeldPlacesKept ==
  ASSUME CapacityEdits = {}, EnrolmentEdits = {}
  PROVE  Spec => []HeldPlacesAreThere
<1>1. PlacesInv /\ [Next]_vars => PlacesInv'
  BY PlacesStep
<1>2. Spec => []PlacesInv
  BY <1>1, PlacesInit, PTL DEF Spec
<1>3. Spec => []ReviewInv
  BY ReviewInit, ReviewStep, PTL DEF Spec
<1>4. PlacesInv /\ ReviewInv => HeldPlacesAreThere
  BY PlacesSuffice
<1> QED
  BY <1>2, <1>3, <1>4, PTL
=============================================================================
