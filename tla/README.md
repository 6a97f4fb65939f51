# PWE Studio (StudioSaaS): verification project

PWE Studio is a multi-tenant application for teaching studios: students and
their lesson credits, a public timetable with bookings, private lessons,
invoices and payments, teacher pay, and a website the studio publishes itself.
It is a Flask application behind waitress with eight threads
(`backend/server.py`), and PostgreSQL keeps all of its state.  Every request
runs in one transaction (`backend/studiosaas/db.py`, `connect`): READ COMMITTED,
committed when the block ends, rolled back when it raises, with `lock_timeout`
10 s and `statement_timeout` 30 s.  There is no queue and no lock outside the
database.

Two things are hard about this program, and the modules here are about these:

* **In the server**, what two such transactions do to each other: which row each
  of them locks, what it read before it waited, and what is left when one of
  them stops half-way.
* **In the browser**, where the staff console, Studio Admin and several tabs of
  each work from copies they loaded some time ago: what a handler read before an
  `await` or a confirmation and uses afterwards, answers that are lost or come in
  another order, a request sent again, a busy flag that something else cleared.

Paths below are relative to `src/`; services are in
`backend/studiosaas/services/`, routes in `backend/studiosaas/api_v1/`, the
staff console in `legacy-root/src/`, Studio Admin in
`backend/frontend/assets/studio-admin.js`.

## 1. Inventory

| component | state | operations | what is hard | what makes it correct |
|---|---|---|---|---|
| **Invoice issuing** (`billing.py`, `invoice_drafts.py`, 0034, 0040) | invoices, lines, the counter of document numbers, the studio's issuing identity | create a draft, add a line, issue, void, save the identity | issue reads the identity and the lines several statements before it writes them; a rollback after taking a number; line writes under an issue | numbers without gaps or repetition; an issued document never changes and says what was true when it was issued |
| **Payments** (`payments.py`, `credit_refunds.py`, the triggers of 0035) | payments, allocations, paid and credited totals and status of invoices, refunds and credit notes | record and allocate, refund, reverse with a credit note, void | triggers that add up rows without a lock; retries with an idempotency key; opposite lock orders | money paid back pays nothing; totals and status agree; a retry changes nothing |
| **Class bookings** (`booking_holds.py`, the routes in `public.py`, `scheduling.py`, 0026, 0049) | requests with their holds, capacity and enrolment of classes | ask for a place, approve, decline, edit the class | a seat is a count over rows and a clock, not a row; two reviewers; edits that write back what they read | no class is overbooked; a held place is there; one phone, one place |
| **Teacher pay** (`teaching_pay.py`, `teaching.py`, 0036) | sessions, pay periods, who is locked | record a session, roll up a period, confirm it | a roll-up and a confirmation visit the same rows; overlapping periods | confirmed means frozen; a session is paid once |
| **Lesson credits** (`credit_settlements.py`, `credit_refunds.py`, `students.py`, 0043, 0044) | a balance per student, its movements, claims of request ids, attendance | settle, refund, adjust, check in, void a check-in | four routes move one balance; replay of a request id | the balance is what its movements say; a request id acts once |
| **Roster page** (`cms-app.jsx`, `panels/scheduling.jsx`) | a load of the whole studio, the attendance of one day, a busy flag, a confirmation | choose a day, check in, batch, undo, edit the manual list | three copies of different ages; answers out of order; a reconnection that clears busy | a session is paid once; the marks are those of the day shown |
| **Settlement and refund form** (`cms-app.jsx`, `panels/topup.jsx`, `panels/billing.jsx`) | the form, the payers, the refundable purchases, one remembered request id | top up, refund, pick a payer, submit again | lost answers; lookups that overtake the form | one form moves credits once; a refund stays within its purchase |
| **Studio document** (`cms-app.jsx`, `tenant.py`) | students, packs and templates as one document, and its revision | load, edit, save whole, be refused | loads, saves and refusals cross; the document and its revision are read apart | a save replaces no edit its tab had not seen |
| **Website editor** (`studio-admin.js`, `tenant.py`) | the form, what the page says of it; the draft, the versions, what is public | save, publish, recheck, restore, upload, refresh | the form changes under a call that will speak of it; two tabs | a clean page shows what the server stored when the page last heard from it; what it calls published was public |
| **Private lessons** (`scheduling.py`, 0033, `panels/private_lessons.jsx`) | changes of single days of a series, make-up credits, two lists on a page | cancel a lesson, undo that, book a make-up, pause and end | the same credit booked twice; an undo that races a booking; what is undone after it was spent | a credit is spent once; a make-up is paid for; a credit stands for an absence |
| **Xero synchronisation** (`xero.py`, `xero_transport.py`, the worker) | queue of jobs, links to remote documents | queue, drain, replay, back-fill | two drains at once; a crash between a remote write and its link; retries | one local document is one remote document |
| **Xero authorisation** (`xero_oauth.py`) | tokens and state of the connection | connect, refresh, disconnect | a refresh token that works once; a slow refresh after a disconnect | the winner's token survives; disconnected stays so |
| **Lifecycles** (`lifecycle.py`, `students.py`, `platform.py`) | status of studios, subscriptions, registrations | transitions, approval of a registration | pairs of states; two approvals at once | only allowed pairs; a registration becomes one student |
| **Private access, archive, media** (`student_access.py`, `tenant_archive.py`, `media.py`) | failed attempts, sessions; snapshots; stored bytes | verify a code; archive, restore, delete; upload | check-then-write; files and rows that do not commit together | limits hold; nothing is lost |

How they interact: a settlement of credits creates, issues and pays an invoice
inside its own transaction (`create_credit_settlement` calls `issue_invoice`,
`record_payment` and `allocate`); a refund of credits takes back the payment and
writes a credit note (`create_credit_refund`); issuing, payments and credit
notes put jobs in the Xero queue; an approved booking becomes a registration,
and an approved registration a student.  They meet only in database rows.  The
roster page and the settlement form both work from the last load of the studio
document, and share one busy flag and one confirmation dialog with it; every
reconnection (the heartbeat) loads that document again.

What has no concurrent state worth a model (permissions, plans, notifications,
calendar feeds, public pages, drafting, reports, import, the other pages)
is listed in `PROJECT.json` with the reason.  Isolation between studios rests on
row-level security of the database; every module is about one studio.

## 2. How the code becomes actions

* A worker is a thread of the server; `pc` (or `tx[w].pc`) says which statement
  of its transaction runs next.  **One step is one SQL statement**, or one query
  of a trigger.  Where a statement waits and then works on with what it read
  before, the read and the write are two steps.
* Reads see committed rows and the transaction's own.  In InvoiceIssuing,
  ClassBookings and TeachingPay a transaction writes its rows in the step that
  commits it, because none of its later statements but the ones modelled reads
  them.  PaymentLedger needs more: `own[w]` holds what it has written, and
  `...Seen(w, ...)` is its view of a row.
* Row locks are state predicates of where each transaction stands (`Locks...`,
  `Holds...`), with the strengths the code relies on: FOR UPDATE, FOR SHARE, the
  KEY SHARE lock of a foreign key, and the lock of a plain UPDATE.
* A refused check, an exception, a timeout, a dropped connection and a crash of
  the process are one thing to the database.  `Rollback` (in PaymentLedger
  `Refuse`, `Crash` and `LockTimeout`) is enabled in every step of a
  transaction.
* A client that retries sends the same key again, while the first try still
  runs or at any time later.

In the modules about the browser (RosterDesk, CreditDesk, CmsDocument, BrandDesk,
MakeupCredits):

* A desk or a tab is one open page.  Its code runs to the next `await` in one
  step.  **A call is three steps or more**: it is sent, served, and its answer
  taken in; between them anything may happen in any page.  Routes that hold
  their row locks to the end are one step; MakeupCredits splits them into what
  they read unlocked and what they write; CmsDocument splits the load at the two
  statements whose order matters.
* What a handler read when it started is carried in its operation, and what a
  confirmation was opened on in the dialog, as closures carry it in the code.
  Whatever is read when it is needed is read from the page then.
* A lost call or a lost answer ends the wait with an error.  The request may
  have been served, may be served later (it is *adrift*), or never.
* Only the buttons that look at `busy` wait for it.  A dialog remembers `busy` of
  the moment it was opened where the handler in it does.
* History variables and fields (`intent`, `told`, `lineage`, `dropped`, `whole`,
  `gen`, `stored`, `heard`, `crossed`, `booked`) are named as such in each module; no guard
  of the code's reads them.

### Modules

| module | models | state and actions |
|---|---|---|
| `DocumentRegister` | what numbering promises an accountant | entries are only added, at the end |
| `InvoiceIssuing` | `issue_invoice`, `next_document_number`, `recalculate_totals`, `void_invoice`, `save_billing_identity`, `create_invoice_draft`, the route that adds a line, and the triggers that freeze lines | a total is the set of lines it sums; the identity is three facts: an ABN, the other required details, GST registration |
| `PaymentLedger` | `record_payment`, `auto_allocate`, `allocate`, `refund`, the money half of `create_credit_refund`, `void_invoice`, the triggers `assert_allocation_within_payment` and `sync_invoice_payment_totals` | cents are small numbers; `documents` adds up refunds and credit notes; `stamp` is `created_at` of an allocation |
| `ClassBookings` | `public_class_booking`, `review_class_booking`, `update_class_schedule`, `lock_class`, `seats_taken`, `phone_holds_a_place` | a class is one date of it; `now` is the clock and `began[w]` what `now()` returns in a transaction |
| `TeachingPay` | `upsert_session`, `open_period`, `recalculate_period`, `confirm_period` | an UPDATE of many rows is a list and a visit of each row, with its WHERE checked again after a wait; a total is the function of amounts it adds up |
| `RosterDesk` | the roster page (`checkIn`, `batchCheckIn`, `undoCheckIn`, the manual list, the attendance effect, the heartbeat) and `check_in_attendance`, `void_attendance_session`, `add_daily_roster_entries` | a session is one check-in; the log of a load is the set of those not voided |
| `CreditDesk` | the top-up and refund form, `BillingAccountPicker`, `create_credit_settlement` and `create_credit_refund` with `_operation_start` | a request id is claimed for a digest of the form; a move is a purchase or a refund of one |
| `CmsDocument` | `load` and `save` of the staff console, its heartbeat, dialogs, `legacy_cms_data` and `legacy_cms_save` | a field is a part one edit replaces, its value the number of that edit; `lineage` says on top of what each edit was made |
| `BrandDesk` | the editor of Studio Admin (`fillSettings`, `saveDraft`, `publishSettings`, `retryPublishVerification`, `restoreBrandVersion`, `refresh`, uploads, signing out) and the routes of drafts, versions and the studio's public row | the content of the form is the number of the edit that made it |
| `LessonRecords` | the tables of lesson exceptions and make-up credits | what must hold of both together |
| `MakeupCredits` | `occurrences`, `cancel_occurrence`, `undo_occurrence`, `credits`, `consume_credit`, `set_series_status`, closures, and the page of private lessons, over `LessonRecords` | one series; a change is recorded for one day and names a credit, a credit the absence it came from and the lesson it was spent on |
| `MC...` | values of the constants for TLC | |
| `..._proofs` | theorems | |

Named abstractions.  ClassBookings reads the capacity with the lock on the
request, and counts seats and phones in one step under the lock of the class.
PaymentLedger starts with issued invoices; it has no drafts.  TeachingPay has no
manual sessions; adjustments and the status `exported` have no writer in the
application and are left out, as is a caller of `upsert_session`: the module
takes it that a collector calls it, as its docstring does.  The trigger of 0036
that refuses to reprice a locked session never fires behind the WHERE of
`upsert_session`.  RosterDesk takes a check-in to move one credit.  CreditDesk
books of a settlement its credits and who was billed, not its invoice.  BrandDesk
takes a verification of the public pages to succeed or not, and the form to be
one content.  MakeupCredits leaves what the policy decides open, and its days lie
after today; a pause has no window, which is what the page sends.


## 3. Runs

CHECK_DEADLOCK is FALSE where a system that has used up its bounds really has
nothing left to do: issuing and the ledger (all invoices are void, or all keys
used up) and four of the modules about pages (nobody presses a button any more).
The other runs check for deadlock.

| run | instance | distinct states | what it shows |
|---|---|---|---|
| `issuing` | 2 workers, 2 invoices, 2 lines, one taxed | 186,947 | gapless numbers, frozen documents, current snapshots, and that issuing implements `DocumentRegister` |
| `ledger` | 2 workers, 1 key sent twice, 2 invoices of 2 and 1, amounts 1 and 3, fairness | 314,276 | what the locks of refunds and credit notes protect; one key is one payment; every request ends |
| `ledger_serial` | 1 worker, 2 payments, the same invoices, 2 tries | 349,811 | the arithmetic of the triggers, one request at a time |
| `bookings` | 2 workers, 1 class, 2 requests, 2 phones (one of a student), edits | 394,288 | exclusive reviews; each enquiry is counted once |
| `bookings_seats` | 2 workers, 1 class of 2 places, 3 requests of 3 phones, holds of 2, time 0..2, no edits | 1,364,718 | no overbooking; a held place is there |
| `teaching_pay` | 2 workers, 2 sessions, 2 overlapping periods, amounts 0 and 2 | 90,590 | confirmed is frozen |
| `roster` | 2 desks, 2 students with a credit each, 2 days one of them tomorrow, 2 check-ins, 4 presses, losses | 440,178 | a session is paid once and paid back once; marks of the day shown |
| `credit_desk` | 1 desk, 2 students, 2 payers, packs of 1 and 2, 5 forms, 2 movements, 3 submissions, losses | 1,721,999 | a form moves credits once; refunds within their purchase |
| `document` | 2 tabs, 1 field of its own table and 1 of the settings, 2 edits, 2 loads per tab, first revision 0 or 1, losses | 4,626,293 | who passes the server's comparison has seen every edit, if document and revision belong together |
| `document_lost_edit` (violation) | the same with 1 load per tab and no losses | | an edit is lost because they do not |
| `brand` | 2 tabs, 2 edits, the second not fit to publish, 3 calls, losses | 5,673,883 | as long as the form did not change under a call: what a clean page shows the server stored when the page last heard from it, and has while nobody stored since; what it calls published was public; a version it names is shown |
| `makeups` | 2 desks, 3 days, two of them the series' own, the last one open or closed at first, 3 changes, 3 requests, 1 turn of the calendar | 5,213,240 | credits are spent once, make-ups paid for, credits explained |

Why these bounds are enough for what they ask.  Each hazard in the server is a
race of *two* transactions about one or two rows, so two workers and two rows of
each kind show it; a third transaction adds nothing to a lock that two already
contend for.  Three requests for two places let a hold run out, its place be taken
and the first request be approved afterwards, and let one hold run out while
another request is being reviewed.  Two tries are one retry.  Amounts
are chosen so that a payment is smaller than, equal to and larger than an invoice,
and a refund partial or whole.  `EndOfTime` is two holds of length 1 in `bookings`, one of length 2 in `bookings_seats`.  Each hazard
in a page is one press and what overtakes it: two desks (or the one that holds
both calls), and one press more than the hazard needs.  `roster` has a
check-in for each of two desks, and presses to undo them; `credit_desk` has a
purchase from before, a retry and a third submission; `document` has the two
loads a refusal and a heartbeat need; in `makeups` three changes are an absence,
its make-up and another change of the day in between.  The theorems of section 5
need none of these bounds.

Symmetry is used over workers, desks and tabs (and invoices or requests that are
alike) in runs without liveness properties; lines, phones, periods, days and
students are not alike.

Definitions named `..._Something` and commented as mutants are how each property
was tested: a plausible mistake in the code it guards against.  Every property of
every run is violated by one of them under the run's own configuration.

**Fairness** (`FairSpec` of PaymentLedger).  `SF(Step(w))`: a transaction whose
next statement can run infinitely often does run, because PostgreSQL grants a
row lock in the order of the requests and threads are not starved.
`WF(LockTimeout(w))`: a wait that does not end is ended, by `lock_timeout` (10 s,
`db.py`) if not by the deadlock detector.  Starting a request and crashing are
not fair.  Without the timeout the liveness property fails (its mutant): a
refund locks the newest allocation first, an allocation the oldest.  The pages
have no liveness property: people press buttons or they do not.

## 4. Where the code and its words differ

One disagreement is kept as a run and listed under `findings`:
`document_lost_edit`.  `legacy_cms_save` promises that a tab older than the stored
revision does not overwrite edits (`tenant.py:1282`).  A load reads the students
in one statement and the revision in a later one (`tenant.py:758`, `:940`), and a
save that commits between the two gives an old document a fresh revision.  The
same property, `NoEditIsLost`, fails in four more ways, which the proviso of
`WhoeverPassesTheLockKnows` and `KeptWhenWhole` leaves out: a confirmation saves
the document it was opened on under the revision a reload has raised since
(`cms-app.jsx:985`); a load that was served before a save is taken in between the
save and its answer (`cms-app.jsx:1013`); the revision in the answer of a save is
read again after the commit and may be another tab's; and while nothing was ever
saved the revision is the wall clock.

The properties below stay in the modules.  TLC refutes each under the bounds
above (for the server with two workers unless said otherwise), but no run is
spent on them.

Invoices and payments:

* `IssuedLinesAreFrozen`: 0034:321 "once the header leaves draft, its lines are
  frozen".  The trigger reads the status before it waits for the header row.
* `SaveKeepsTheRest`: `billing.py:252` "keeping anything the caller did not
  send".  The save reads, merges and writes every field back; of two saves at
  once the second undoes the first.
* `AllocatedWithinPayment`: 0035:14 "a payment can never be allocated to more than
  it was worth".  The trigger adds up without a lock: a payment that is being paid
  back still pays an invoice.
* `PaidIsSumOfAllocations`: 0035:15 "always exactly the sum".  The trigger adds up
  before it waits for the invoice row, so the slower of two writes an older sum.
* `RetriesTakeNothingBack`, with one worker: `payments.py:69` "what makes a retry
  safe".  A retry allocates again and overwrites an allocation.
* `VoidHasNoMoney`: `billing.py:514` "an issued invoice that has taken no money".
  The check reads without a lock, and the UPDATE does not repeat it.
* `RefundsReleaseNewestFirst`: `payments.py:300` "from the newest invoice
  backwards".  The order is by `created_at`, which is the time a transaction
  began, the same for all allocations of one request.

Bookings and teacher pay:

* `OnePhoneOnePlace`: `booking_holds.py:14` "One phone holds at most one place per
  tenant".  The rule spans classes, the lock covers one.
* `NoSeatInAFullClass` with edits of the capacity: the capacity is read before
  the class is locked (`public.py:1096`, against the comment at 1111).
* `EveryHeldPlaceIsThere`: `booking_holds.py:17` "A hold that has expired stops
  counting the moment it expires".  A review counts by the time at which it
  began: a hold that ran out since still counts, and so does whoever was given
  its place, so that a request that holds a place is told there is none.  It
  takes two places to see.  `HeldPlacesAreThere` leaves such reviews out.
* `SavesKeepTheCapacity`: `scheduling.py:1188` 'PATCH means "change what I
  sent"'.  A save that sends the students writes back the capacity it read.
* `CountedOnce`: 0036:165 "A session may only be counted into one period once".
  Opening an overlapping period moves sessions out of the first and does not add
  that one up again.
* `ConfirmedTotalIsItsSessions`: `teaching_pay.py:3`.  A session that is
  repriced between the roll-up and the confirmation is locked at its new price
  under the old total.

The pages:

* `BatchSkipsCheckedIn` (RosterDesk, one desk): `cms-app.jsx:1588` the batch must
  skip the ids already checked in "otherwise tapping a few students then hitting
  [batch] deducts those students TWICE".  The attendance it skips by is fetched
  when the day is chosen (the effect at 1611) and not after a check-in.
* `ToldIsBooked` (CreditDesk): the request id is not forgotten after a success, so
  the same top-up for the same student again is answered from the first and
  reported as booked.
* `BilledToOwnPayer` (CreditDesk): while the payers of the next student are looked
  up, the picker still reports from the list of the student before.
* `TheEditorMatchesThePages` (BrandDesk): `studio-admin.js:992` "The current editor
  values match the published tenant pages."  A recheck does not look at the form:
  what was typed before or during it counts as published, and so does what was
  typed while a save or a publication was under way.  `PublishedMeansPublic` leaves
  forms that changed this way (`crossed`) out.
* `ClosingLosesNothing` (BrandDesk): the page asks before it is closed only while
  it is dirty (`studio-admin.js:4225`), so a clean page should show what is public
  or the draft.  What was typed while a save was under way is on no server.  Without
  that, in a single tab, a save that was given up on lands over a newer draft, or a
  refresh that read the old draft is answered after a save; and there is one draft
  row for all tabs, so that another tab's save replaces the draft behind a clean
  page, or its publication deletes it (`tenant.py:515`).  The page is not told.
  `CleanMeansKept` is what is left: it holds the page to the store it last heard
  of, and to the draft itself only while nothing was stored since.

Make-up credits, where the words are those of the tests and of the service:

* `SpentMeansALesson`: `backend/tests/test_makeup_credits.py:1` says that spending
  a credit must be exchanged for a lesson that can be found on the timetable.
  Undoing a make-up takes the lesson away and leaves the credit spent.  A make-up
  booked on the series' own weekday takes the place of the regular lesson, and
  goes from the list when the series is paused or ended or the studio closes,
  although `scheduling.py:398` means that not to happen to make-ups; `scheduling.py`
  takes them to be on other days (line 391).
* `UndoTakesTheCreditBack`: `scheduling.py:534` "Remove a recorded change, and the
  credit it granted along with it", and the page says so
  (`private_lessons.jsx:106`).  A credit that was spent stays spent and its lesson
  stays; the lesson that was cancelled is due again, and cancelling it again
  grants a second credit.

Seen while modelling, and not stated as properties.  `handleDelete`
(`cms-app.jsx:2866`) says a student is permanently deleted and `cleanRosters`
(4232) that old roster entries are cleared, while `legacy_cms_save` only adds and
updates.  A publication deletes the draft another tab has saved, and one whose
answer was lost may overwrite a later one.  Signing in to Studio Admin shows the
form of the studio before until the refresh has answered.  A closure that is set
while a make-up is booked, or after, leaves it on a closed day.  A series that
was ended and resumed keeps its `ends_on` and lists nothing.  The edit form of
the platform console sends the status it was opened with
(`super-admin.js:1873`), so that an old form reactivates a studio paused since.

## 5. Proofs

TLAPS checks eight modules; each theorem holds for every value of the constants
under the assumptions the module declares.

**`InvoiceIssuing_proofs`**: `Invariance`, `TypeCorrect`, `GaplessNumbering`,
`ValidDocuments`, `IssuedDocumentsAreFrozen`, `SnapshotsAreCurrent` and
`RegisterRefinement`.  Assumed: `Nil` is none of the rows or numbers, taxed
lines are lines.  That numbers are gapless is not inductive: nothing in it says
that the invoice about to receive the counter's value is still a draft or that
nobody else issues it.  `IndInv` adds that the FOR UPDATE lock keeps an issuer
apart from everyone else at the row (`IssuerIsAlone`), that the document it
issues is a draft (`TotalledIsDraft`), and that what it read of the identity and
the lines is still so (`IssuerReadsHold`).  The last holds because a line must
pass its foreign key, which waits for the issuer, before it is committed.
`RegisterRefinement` maps the numbered invoices to the register: `CommitIssue`
is `Enter`, everything else leaves it alone.

**`PaymentLedger_proofs`**: `Invariance`, `CheckedRefundsFit`, `LedgerIsExplained`,
`VoidStays`, `OneKeyIsOnePayment`, `TypeCorrect`, and of requests one at a time
`SerialInvariance` and `NeverPaidTwice`.  Assumed: totals and
amounts are positive, the payments are finitely many, `Invoices` is a sequence
without repetition, `Tries` is a number.  There are three invariants.

`IInv` says what the row locks protect, however requests interleave.  `Apart` says
that no two transactions hold, by a lock or a write, the same
payment or the same invoice; `PaymentRead` and `InvoiceRead` say what a refund or
credit note has read of the rows it holds, `PaymentWritten` and `InvoiceWritten` how
each row it wrote differs from the committed one.  A step before the commit
changes one transaction (`LocalStep`); a commit changes only rows that no other
holds (`CommitKeeps`).  `InsertPayment` needs no lock against refunds, because a
refund holds only payments that exist, and the INSERT leaves those alone.

`TInv` adds the types: of every row, of what a transaction has written and of the
list of allocations it still has to make or release.  That an allocation has a
stamp exactly when it has an amount needs `HeldBy`: a refund leaves something only
on rows that are there, which holds across the commits of others because those
who pay write positive amounts and those who repay hold their payment
(`OwnPairs`).

`SInv` is about the sums, under the hypothesis `[]OneAtATime`: at most one worker
has a transaction.  That is what `ledger_serial` has with its one worker; between
two transactions `AllocatedWithinPayment` and `PaidIsSumOfAllocations`, which are
parts of it, fail (section 4), so it cannot be proved of `Spec` alone, and nothing
in the code makes requests come one at a time.  What it excludes is an error of
arithmetic in a mix of requests, not a race.  Crashes, rollbacks, retries and either order of picking are in.
Between two requests payments, allocations and invoices balance (`Balanced`); in
the middle of one, `Sound` says by what they do not: the total of the invoice at
hand waits for its sync (`Syncing`), a credit note is written before the money it
frees is released (`Freed`), each row of a plan has room for what is planned
(`Affords`), and when all that a refund has picked is released the payment covers
its allocations (`Goal`).  What the operators compute is proved first: `SumOf` is the
sum over a finite set that `AllocatedIn`, `PaidIn` and `RoomBefore` take from the
community modules, by induction on subsets without a theorem that takes an
operator (a smallest counterexample); `SpendFills` says that `Spend` fills rows in
order and spends no more than there is; `PickedGoal` that a refund releases what
it pays back.

**`ClassBookings_proofs`**: `TypeCorrect`, `NoOverbooking`, `EnquiriesCountedOnce`
and `HeldPlacesKept`.  Assumed: a finite
set of requests, capacities above 0.  `NoOverbooking` supposes that no capacity is
edited (with edits it is false, see above).  The argument: only the holder of
the lock of a class adds to its takers, and while it holds the lock, time and
the reviews of others can only free seats.  So the count taken under the lock at
time `began[w]` stays an upper bound for the takers at any later time, until
the row is written; `SeatInv` says so for both the new hold and the approval.
`HeldPlacesKept` supposes that neither capacity nor enrolment is edited.  Its
invariant `PlacesInv` adds that at every moment all who take a seat fit the class
(`Fits`), so a request that still holds one fits beside all others that do.  `EnquiriesCountedOnce` is about reviewers: `ReviewInv` says
that the lock on a request keeps them apart and that what one has read as pending
is pending until it writes.

**`TeachingPay_proofs`**: `Invariance`, `TypeCorrect`, `ConfirmationLocks`,
`LockedSessionsStay`, `ConfirmedTotalsStay`.  Assumed: what each period covers are
sessions, and `None` is neither.  The row of a period keeps transactions about
it apart, the row of a session its writers; the key part of `IndInv` is
`FreezerMissesNothing`: while a confirmation runs, every session of its period
that is not locked yet is on its list or already written.

**`RosterDesk_proofs`**: `Invariance`, `TypeCorrect`, `CreditsAreKept`,
`MarksOfTheDay`.  Assumed: the shape of the timetable and the opening balances.
That credits add up needs only that a check-in appends a live session with the
credit it takes and that a void finds it still live; what has to be carried along
is that pages, dialogs and operations only ever name sessions the server has
recorded (`CopyOK`, `OpOK`, `DialogOK`), so that a void of an old page still
speaks of one.  For the marks: the request that is wanted is always one for the
day shown, because choosing a day makes every other one unwanted (`PageOK`).

**`BrandDesk_proofs`**: `Invariance`, `TypeCorrect`, `CleanIsKept`,
`PublishedIsPublic`, `LabelIsItsVersion`.  Assumed: `None` and `Unread` are no
contents.  What a page says is written when a call ends, from what the call
carried; so the invariant says of every call that what it is about to say is true
already (`CallOK`, `SpeakOK`), and the step that ends it has nothing to show.
Each call carries the place, in the sequence of all that was stored, of the store
it will tell the page of (`seen`).  That this outlives every other step is one lemma:
these sequences only grow (`Grows`).  The draft is what was stored last or gone
(`StoreInv`), which is why a page that heard of the last store has it still; of a
page that did not, `CleanIsKept` says only what it once heard.  A form that changes
under such a call sets `crossed`, and all three properties claim nothing of it; at most one publication of a tab is under way
(`OneOf`).

**`LessonCredits_proofs`** is about the credits lessons are paid with, of both
kinds.  It extends `CreditDesk` and `LessonRecords`, and names `MakeupCredits` over
the same records `Lesson`.

Of the bought ones: `Invariance`, `TypeCorrect`, `FormsAreBookedOnce`,
`RefundsStayWithin`.  Assumed: finitely many students, packs of at least one credit,
and that `None` is no index, signature or digest.  `OneFormOneMove` is not
inductive: nothing in it says that a form sent twice carries one request id.  The
invariant `Tied` does.  *Whoever holds a form* is the open question or a request on
its way, adrift included (`Holders`).  All who hold one form hold one id; once the
form is booked that id is claimed, so that whoever still holds it is answered from
the claim; and as long as the form in hand is held or booked, the remembered slot
of its kind is signed with it, so that submitting it again finds the id.  It
survives every edit because an edit hands the desk a new form that nobody
holds (`TiedKept`), and the steps of other desks because these book their own forms
(`TiedElsewhere`).  Cancelling, confirming, losing an answer, a late server and a
reconnection only carry on what was held (`Carried`); `Submit` is the one step that
adds a holder (`TiedSubmit`).  `RefundsWithinPurchase` needs that what a desk asks
to refund is there (`Sourced`): of a purchase still to come nothing is refunded, so
that a new one starts whole.  The rest is arithmetic: `Refunded` is a
fold of the community modules over the refunds of a purchase, shown to be the
deduction `Left` over a finite set (`RefundedIsLeft`), which does not depend on the
order in which the elements are chosen (`LeftTakeOut`) and so grows by exactly the
movement that is booked (`RefundedGrows`).  The induction is again a smallest
counterexample among the subsets of a finite set (`SmallestSet`).  This invariant
was first checked on `credit_desk`.

Of those that absences grant: `LessonInvariance`, `RecordsCorrect`,
`CreditsAreSpentOnce`, `NoFreeMakeup`, `CreditsAreExplained`.  Assumed: a number
bounds the changes, `Nothing` is no number and no change.  The pages do not
matter: whatever a request carries, its writes repeat the conditions under the locks
of their rows.  `SpentOnce` becomes inductive with `UnspentIsUnused` (a credit that
can be spent was spent on nothing), and `MakeupsArePaidFor` with `Apart` and
`PaidWithACredit`: a change is recorded for one day, so undoing it unlinks its own
credit and no other's.

**`CmsDocument_proofs`**: `TypeCorrect`, `WhoeverPassesKnows`, `WholeSavesKeep`.
Assumed: the bounds and the first revisions are numbers, no field is both of a
table of its own and of the settings.  The
argument is about lineage.  Of every document on its way, with the revision
it would be saved under, the invariant says that it is `Fresh`: the server has that
revision no more, or the document holds every edit the server's holds, as long as
`whole` says that document and revision belong together (`GoodLoad`, `GoodCopy`,
`GoodSave`).  An accepted save raises the revision, which makes every other document
fresh by the first half.  What a tab edits lies on top of what it held
(`LineageIsClosed`), and `gen` tells a dialog or a save made before the last load
from one made after it.  The same invariant was first checked on `document`.

Every safety invariant of a passing run is stated by a theorem, but for
`AllocatedWithinPayment` and `PaidIsSumOfAllocations`: these are true of requests one
at a time only, and `ledger_serial` checks them so; the races of the triggers they
speak of (0035:177, :207) are listed as hazards no property covers.  Only
model-checked, and why: `EveryRequestEnds`, because liveness under fairness is beyond
the prover.

## 6. Not modelled

* **Xero** (`xero.py`, `xero_transport.py`, `xero_oauth.py`, the worker): the queue
  of jobs with its drains, crashes and replays against a remote ledger, and the
  rotation of refresh tokens.  The largest part of the server without a module.
* **Lifecycles** of studios, subscriptions and registrations: transition tables,
  each applied by one request.
* **Student access, archives and storage quotas**: each is one check and one write,
  or the order of two effects.
* Of modelled components.  *Issuing*: the arithmetic of lines and GST, reminders,
  the printed document.  *Payments*: provider webhooks, bank statements,
  reconciliation.  *Credits*: adjustments and expiry; the composition of a
  settlement with the invoice and payment it creates in its own transaction.
  *Roster*: the pause of three seconds after a check-in, editing the weekly
  timetable.  *Document*: the overlay after a 401, a 403, the refusal of a save
  that shrinks the studio and its override, the route of a single student, signing
  out.  *Website*: the fields of the form, previews, themes, media.  *Private
  lessons*: creating a series, pause windows, availability, terms, start times and
  teachers of a make-up, and what the policy decides.
* **The rest of the browser code.**  It is most of the JavaScript of the
  repository, and holds no state that a rule of the system is about: markup and
  rendering of tables and charts, the wording in two languages
  (`cms-i18n.js`), three-dimensional scenery (`product-spatial-three.js`), dialogs
  that send one request, and the platform console (`super-admin.js`), whose forms
  do.  `cms-app.js` is the bundle built from `legacy-root/src`, whose parts are
  mapped at their sources.  A model of these would restate their code line by line.

`PROJECT.json` lists every component with its status, and every hazard with the
properties about it or the reason why there is none.  Isolation between studios
rests on row-level security of the database and is taken as given.
