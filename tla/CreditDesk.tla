----------------------------- MODULE CreditDesk -----------------------------
(***************************************************************************)
(* Top-ups and refunds of lesson credits: the settlement form of the staff *)
(* console, with the picker of who pays for an invoice, against the two    *)
(* routes that settle and refund under a request id.                       *)
(*                                                                         *)
(* A desk remembers one request id together with the form it made it for   *)
(* (its signature): the same form sent again carries the same id.  What a  *)
(* handler read when the confirmation was opened is carried in the dialog  *)
(* and in the operation.  intent is a history variable: it counts the      *)
(* forms a desk has had, an edit or a reset being a new one.               *)
(***************************************************************************)
EXTENDS Integers, Sequences, FiniteSets, SequencesExt

CONSTANTS
    Desks, Students,
    Packs,          \* numbers of credits a top-up can be for
    Accounts,       \* billing accounts, those that can still be created included
    PaidBy,         \* [Students -> SUBSET Accounts]: the payers linked at first
    Bought,         \* [Students -> Nat]: credits bought earlier, in one purchase
    MaxIntents,     \* bound: forms of one desk
    MaxMoves,       \* bound: movements of credits
    Submits,        \* bound: submissions and reconnections of all desks
    Losses,         \* whether calls and answers can be lost
    New, None

ASSUME CreditAssumption ==
    /\ Packs \subseteq Nat \ {0}
    /\ PaidBy \in [Students -> SUBSET Accounts]
    /\ IsFiniteSet(Students)
    /\ Bought \in [Students -> Nat]
    /\ {MaxIntents, MaxMoves, Submits} \subseteq Nat
    /\ Losses \in BOOLEAN

VARIABLES
    balance,    \* server: credits of each student
    moves,      \* server: purchases and refunds in the order they were booked
    claims,     \* server: what each request id was claimed for, or None
    links,      \* server: the payers linked to each student
    form,       \* the student, what to top up, and what to refund of which purchase
    picker,     \* who pays: the payers the picker lists and the one it has reported
    lookups,    \* the desk's requests for payers and for refundable purchases
    sources,    \* the refundable purchases the form lists
    memory,     \* the remembered signature and id of each kind, the resolved account
    busy, dialog, ops,
    intent,     \* history: which form this is
    told,       \* history: the forms a desk has reported as booked
    sent        \* submissions and reconnections so far

server == <<balance, moves, claims, links>>
screen == <<form, picker, lookups, sources, intent>>
vars == <<server, screen, memory, busy, dialog, ops, told, sent>>

Ids == 1 .. Submits
Indices == 1 .. MaxMoves + Cardinality(Students)
Kinds == {"top-up", "refund"}
Signature == [student : Students, credits : Packs, invoice : BOOLEAN,
              payer : Accounts \cup {None, New}, source : Indices \cup {None}]
\* What a request id can be claimed for.
Digests == (Indices \cup {None}) \X Packs \X (Accounts \cup {None}) \X (Students \cup {None})
ASSUME NoneAssumption == None \notin Indices \cup Signature \cup Digests

Blank == [mode |-> "top-up", student |-> None, pack |-> None, invoice |-> FALSE,
          source |-> None, credits |-> None]
NoPicker == [known |-> {}, payer |-> None]

RefundsOf(i) == {j \in DOMAIN moves : moves[j].source = i}
Refunded(i) == FoldSet(LAMBDA j, n : n - moves[j].credits, 0, RefundsOf(i))
PurchasesOf(s) == {i \in DOMAIN moves : moves[i].student = s /\ moves[i].source = None}
\* What the route lists: every purchase of the student with what is left of it.
Refundable(s) == {[of |-> i, left |-> moves[i].credits - Refunded(i)] : i \in PurchasesOf(s)}

Edit(d) == intent[d] < MaxIntents /\ intent' = [intent EXCEPT ![d] = @ + 1]
Hands(d) == dialog[d] = None
Send == sent < Submits /\ sent' = sent + 1
Start(d, op) == ops' = [ops EXCEPT ![d] = @ \cup {op}] /\ busy' = [busy EXCEPT ![d] = TRUE]
Move(d, op, as) == ops' = [ops EXCEPT ![d] = (@ \ {op}) \cup {as}]
Finish(d, op) == ops' = [ops EXCEPT ![d] = @ \ {op}] /\ busy' = [busy EXCEPT ![d] = FALSE]

-----------------------------------------------------------------------------
(* The form. *)

Ask(d, about, s, chosen) ==
    {[l EXCEPT !.wanted = l.wanted /\ l.about # about] : l \in lookups[d]}
    \cup (IF s = None THEN {}
          ELSE {[about |-> about, student |-> s, chosen |-> chosen, wanted |-> TRUE]})

\* With one payer listed the picker reports that one, else the one chosen so far.
Reported(known, chosen) ==
    IF Cardinality(known) = 1 THEN CHOOSE a \in known : TRUE ELSE chosen

\* Another choice of payer forgets the account that was created for the one before.
SetPayer(d, known, payer) ==
    /\ picker' = [picker EXCEPT ![d] = [known |-> known, payer |-> payer]]
    /\ memory' = IF payer = picker[d].payer THEN memory ELSE [memory EXCEPT ![d].account = None]

Topping(d) == form[d].mode = "top-up"
PickerShown(d) == Topping(d) /\ form[d].invoice

\* Another student: the choice of payer is cleared, and the picker, while its list is
\* still that of the student before, reports from it at once.  The purchase that was
\* chosen stays so until the new list is there.
ChooseStudent(d, s) ==
    /\ Hands(d) /\ Edit(d) /\ s # form[d].student
    /\ form' = [form EXCEPT ![d].student = s]
    /\ memory' = [memory EXCEPT ![d].account = None]
    /\ picker' = [picker EXCEPT ![d].payer = IF PickerShown(d) THEN Reported(picker[d].known, None) ELSE None]
    /\ lookups' = [lookups EXCEPT ![d] =
           IF ~Topping(d) THEN Ask(d, "sources", s, form[d].source)
           ELSE IF PickerShown(d) THEN Ask(d, "payers", s, None) ELSE @]
    /\ UNCHANGED <<server, sources, busy, dialog, ops, told, sent>>

ChoosePack(d, p) ==
    /\ Hands(d) /\ Edit(d) /\ Topping(d) /\ p # form[d].pack
    /\ form' = [form EXCEPT ![d].pack = p]
    /\ UNCHANGED <<server, picker, lookups, sources, memory, busy, dialog, ops, told, sent>>

\* The picker appears with an empty list and asks for the student's payers, or goes.
TickInvoice(d) ==
    /\ Hands(d) /\ Edit(d) /\ Topping(d)
    /\ form' = [form EXCEPT ![d].invoice = ~@]
    /\ IF form[d].invoice
       THEN /\ picker' = [picker EXCEPT ![d].known = {}] /\ UNCHANGED memory
            /\ lookups' = [lookups EXCEPT ![d] = Ask(d, "payers", None, None)]
       ELSE LET kept == IF picker[d].payer = New THEN None ELSE picker[d].payer
            IN /\ SetPayer(d, {}, kept)
               /\ lookups' = [lookups EXCEPT ![d] = Ask(d, "payers", form[d].student, kept)]
    /\ UNCHANGED <<server, sources, busy, dialog, ops, told, sent>>

\* The form of refunds asks for the purchases of its student, and forgets them when left.
ChooseMode(d, mode) ==
    /\ Hands(d) /\ Edit(d) /\ form[d].mode # mode
    /\ form' = [form EXCEPT ![d].mode = mode, ![d].source = None]
    /\ picker' = [picker EXCEPT ![d].known = {}]
    /\ lookups' = [lookups EXCEPT ![d] =
           {l \in Ask(d, "sources", IF mode = "refund" THEN form[d].student ELSE None, None) : l.about = "sources"}
           \cup {[l EXCEPT !.wanted = FALSE] : l \in {l \in @ : l.about = "payers"}}
           \cup {[about |-> "payers", student |-> s, chosen |-> picker[d].payer, wanted |-> TRUE] :
                   s \in IF mode = "top-up" /\ form[d].invoice THEN {form[d].student} \ {None} ELSE {}}]
    /\ sources' = [sources EXCEPT ![d] = {}]
    /\ UNCHANGED <<server, memory, busy, dialog, ops, told, sent>>

\* A choice that the list does not hold, as it was when the list was asked for, is undone.
LookupArrives(d, l) ==
    /\ lookups' = [lookups EXCEPT ![d] = @ \ {l}]
    /\ \/ ~l.wanted /\ UNCHANGED <<form, picker, memory, sources>>
       \/ /\ l.wanted /\ l.about = "payers"
          /\ LET known == links[l.student]
                 kept == IF l.chosen \in known THEN picker[d].payer ELSE None
             IN SetPayer(d, known, Reported(known, kept))
          /\ UNCHANGED <<form, sources>>
       \/ /\ l.wanted /\ l.about = "sources"
          /\ sources' = [sources EXCEPT ![d] = Refundable(l.student)]
          /\ form' = [form EXCEPT ![d].source =
                        IF \E src \in Refundable(l.student) : src.of = l.chosen THEN @ ELSE None]
          /\ UNCHANGED <<picker, memory>>
    /\ intent' = [intent EXCEPT ![d] = IF <<form', picker'>> = <<form, picker>> THEN @ ELSE @ + 1]
    /\ UNCHANGED <<server, busy, dialog, ops, told, sent>>

\* What was listed stays listed.
LookupFails(d, l) ==
    /\ Losses
    /\ lookups' = [lookups EXCEPT ![d] = @ \ {l}]
    /\ UNCHANGED <<server, form, picker, sources, intent, memory, busy, dialog, ops, told, sent>>

\* One of several payers, or a new one, which the form creates only after it was told to.
PickPayer(d, a) ==
    /\ Hands(d) /\ Edit(d) /\ PickerShown(d) /\ form[d].student # None
    /\ ~\E l \in lookups[d] : l.wanted /\ l.about = "payers"
    /\ a \in IF picker[d].known = {} THEN {New} ELSE picker[d].known
    /\ a # picker[d].payer /\ SetPayer(d, picker[d].known, a)
    /\ UNCHANGED <<server, form, lookups, sources, busy, dialog, ops, told, sent>>

\* A purchase with something left; the credits offered may be lowered.
ChooseSource(d, src, p) ==
    /\ Hands(d) /\ Edit(d) /\ ~Topping(d)
    /\ src \in sources[d] /\ p <= src.left
    /\ form' = [form EXCEPT ![d].source = src.of, ![d].credits = p]
    /\ UNCHANGED <<server, picker, lookups, sources, memory, busy, dialog, ops, told, sent>>

-----------------------------------------------------------------------------
(* Submitting. *)

Signed(d) ==
    IF Topping(d)
    THEN [student |-> form[d].student, credits |-> form[d].pack, invoice |-> form[d].invoice,
          payer |-> picker[d].payer, source |-> None]
    ELSE [student |-> form[d].student, credits |-> form[d].credits, invoice |-> FALSE,
          payer |-> None, source |-> form[d].source]

SameRequest_Never(d) == FALSE   \* mutant: a new id for every submission
\* The id of the request before, if that was made for this form.
SameRequest(d) == memory[d].slot[form[d].mode].sig = Signed(d)
RequestId(d) == IF SameRequest(d) THEN memory[d].slot[form[d].mode].id ELSE sent + 1

\* What the handlers refuse before they ask for confirmation.
Complete(d) ==
    /\ Signed(d).student # None /\ Signed(d).credits # None
    /\ ~Topping(d) => \E src \in sources[d] : src.of = form[d].source /\ form[d].credits <= src.left

Submit(d) ==
    /\ Hands(d) /\ ~busy[d] /\ Send /\ Complete(d)
    /\ memory' = [memory EXCEPT ![d].slot[form[d].mode] = [sig |-> Signed(d), id |-> RequestId(d)]]
    /\ dialog' = [dialog EXCEPT ![d] = [sig |-> Signed(d), id |-> RequestId(d), intent |-> <<d, intent[d]>>]]
    /\ UNCHANGED <<server, screen, busy, ops, told>>

Cancel(d) ==
    /\ dialog[d] # None
    /\ dialog' = [dialog EXCEPT ![d] = None]
    /\ UNCHANGED <<server, screen, memory, busy, ops, told, sent>>

\* The account a top-up is billed to: the one created for this form, else the one chosen.
Billed(d, sig) == IF memory[d].account # None THEN memory[d].account ELSE sig.payer

Confirm(d) ==
    /\ dialog[d] # None
    /\ LET g == dialog[d]
           op == [sig |-> g.sig, id |-> g.id, intent |-> g.intent, account |-> None, at |-> "book"]
           who == Billed(d, g.sig)
       IN \/ ~g.sig.invoice /\ Start(d, op)
          \/ g.sig.invoice /\ who = New /\ Start(d, [op EXCEPT !.at = "account"])
          \/ g.sig.invoice /\ who \in Accounts /\ Start(d, [op EXCEPT !.account = who])
          \/ g.sig.invoice /\ who = None /\ UNCHANGED <<busy, ops>>
    /\ dialog' = [dialog EXCEPT ![d] = None]
    /\ UNCHANGED <<server, screen, memory, told, sent>>

\* A ping succeeds after one had failed: the load it starts clears busy in the end.
Reconnect(d) ==
    /\ Send
    /\ Start(d, [sig |-> None, id |-> None, intent |-> None, account |-> None, at |-> "loading"])
    /\ UNCHANGED <<server, screen, memory, dialog, told>>

-----------------------------------------------------------------------------
(* The calls. *)

Heard == IF Losses THEN BOOLEAN ELSE {TRUE}
\* After a success the desk loads; after an error the form stays as it is.
Proceed(d, op, ok) ==
    IF ok THEN Move(d, op, [op EXCEPT !.at = "loading"]) /\ UNCHANGED busy ELSE Finish(d, op)

\* Creating a payer has no request id: sent again it creates another.
ServeAccount(d, op) ==
    /\ op.at = "account"
    /\ \E a \in Accounts \ UNION {links[s] : s \in Students} :
          /\ links' = [links EXCEPT ![op.sig.student] = @ \cup {a}]
          /\ \E heard \in Heard :
                IF heard THEN /\ Move(d, op, [op EXCEPT !.at = "book", !.account = a])
                              /\ memory' = [memory EXCEPT ![d].account = a]
                              /\ UNCHANGED busy
                         ELSE Finish(d, op) /\ UNCHANGED memory
    /\ UNCHANGED <<balance, moves, claims, screen, dialog, told, sent>>

\* What the id is claimed for: the body of the request.  The body of a refund is hashed
\* with its student, that of a top-up without.
Digest(op) == <<op.sig.source, op.sig.credits, op.account,
                IF op.sig.source = None THEN None ELSE op.sig.student>>
Replays(op) == claims[op.id] # None /\ claims[op.id] = Digest(op)
Fits_Purchase(op) ==            \* mutant: without what was refunded before
    op.sig.source # None => /\ moves[op.sig.source].student = op.sig.student
                            /\ op.sig.credits <= moves[op.sig.source].credits
Fits(op) ==
    op.sig.source # None =>
        /\ moves[op.sig.source].student = op.sig.student
        /\ op.sig.credits <= moves[op.sig.source].credits - Refunded(op.sig.source)
Covered_Always(op) == TRUE      \* mutant: without the look at the balance
Covered(op) == op.sig.source # None => op.sig.credits <= balance[op.sig.student]

Book(op) ==
    LET s == op.sig.student
        change == IF op.sig.source = None THEN op.sig.credits ELSE -op.sig.credits
    IN /\ balance' = [balance EXCEPT ![s] = @ + change]
       /\ moves' = Append(moves, [student |-> s, credits |-> change, source |-> op.sig.source,
                                  account |-> op.account, intent |-> op.intent])
       /\ claims' = [claims EXCEPT ![op.id] = Digest(op)]

\* One transaction: claim, check, book.  An id that was claimed answers its first result;
\* claimed for something else, or over what is left, the request is refused.
Settle(op, ok) ==
    \/ /\ ok /\ claims[op.id] = None /\ Fits(op) /\ Covered(op)
       /\ Len(moves) < Cardinality(Indices) /\ Book(op)
    \/ ok /\ Replays(op) /\ UNCHANGED <<balance, moves, claims>>
    \/ /\ ~ok /\ UNCHANGED <<balance, moves, claims>>
       /\ IF claims[op.id] = None THEN ~(Fits(op) /\ Covered(op)) ELSE ~Replays(op)

ServeBooking(d, op) ==
    /\ op.at = "book"
    /\ \E ok \in BOOLEAN, heard \in Heard : Settle(op, ok) /\ Proceed(d, op, ok /\ heard)
    /\ UNCHANGED <<links, screen, memory, dialog, told, sent>>

\* The connection breaks: the call is lost, or the server gets to it when the desk has
\* given it up.
CallFails(d, op) ==
    /\ Losses /\ op.at \in {"account", "book"}
    /\ \/ Finish(d, op)
       \/ /\ op.at = "book" /\ Move(d, op, [op EXCEPT !.at = "adrift"])
          /\ busy' = [busy EXCEPT ![d] = FALSE]
    /\ UNCHANGED <<server, screen, memory, dialog, told, sent>>

ServeAdrift(d, op) ==
    /\ op.at = "adrift" /\ \E ok \in BOOLEAN : Settle(op, ok)
    /\ ops' = [ops EXCEPT ![d] = @ \ {op}]
    /\ UNCHANGED <<links, screen, memory, busy, dialog, told, sent>>

\* The load is over and the desk reports success: no student is chosen, and with that no
\* payers and no purchases are listed; a top-up also blanks its own half of the form, a
\* refund its own.  The remembered request ids stay.
LoadEnds(d, op) ==
    /\ op.at = "loading"
    /\ Finish(d, op)
    /\ IF op.sig = None THEN UNCHANGED <<screen, memory, told>>
       ELSE /\ told' = [told EXCEPT ![d] = @ \cup {op.intent[2]}]
            /\ intent' = [intent EXCEPT ![d] = @ + 1]
            /\ lookups' = [lookups EXCEPT ![d] = {[l EXCEPT !.wanted = FALSE] : l \in @}]
            /\ sources' = [sources EXCEPT ![d] = {}]
            /\ picker' = [picker EXCEPT ![d] = NoPicker]
            /\ memory' = [memory EXCEPT ![d].account = None]
            /\ form' = [form EXCEPT ![d] =
                   IF op.sig.source = None
                   THEN [@ EXCEPT !.student = None, !.source = None, !.pack = None, !.invoice = FALSE]
                   ELSE [@ EXCEPT !.student = None, !.source = None, !.credits = None]]
    /\ UNCHANGED <<server, dialog, sent>>

\* A check-in elsewhere takes a credit.
Attend(s) ==
    /\ balance[s] >= 1
    /\ balance' = [balance EXCEPT ![s] = @ - 1]
    /\ UNCHANGED <<moves, claims, links, screen, memory, busy, dialog, ops, told, sent>>

-----------------------------------------------------------------------------
Earlier(s) == [student |-> s, credits |-> Bought[s], source |-> None, account |-> None, intent |-> None]
Buyers == {s \in Students : Bought[s] > 0}

Init ==
    /\ balance = Bought
    /\ moves = LET order == SetToSeq(Buyers) IN [i \in DOMAIN order |-> Earlier(order[i])]
    /\ claims = [i \in Ids |-> None]
    /\ links = PaidBy
    /\ form = [d \in Desks |-> Blank]
    /\ picker = [d \in Desks |-> NoPicker]
    /\ lookups = [d \in Desks |-> {}] /\ sources = [d \in Desks |-> {}]
    /\ memory = [d \in Desks |-> [slot |-> [k \in Kinds |-> [sig |-> None, id |-> None]], account |-> None]]
    /\ busy = [d \in Desks |-> FALSE] /\ dialog = [d \in Desks |-> None]
    /\ ops = [d \in Desks |-> {}] /\ intent = [d \in Desks |-> 0] /\ told = [d \in Desks |-> {}]
    /\ sent = 0

Answer(d) ==
    \/ \E l \in lookups[d] : LookupArrives(d, l) \/ LookupFails(d, l)
    \/ \E op \in ops[d] : 
          \/ ServeAccount(d, op) \/ ServeBooking(d, op) \/ LoadEnds(d, op)
          \/ CallFails(d, op) \/ ServeAdrift(d, op)

Person(d) ==
    \/ \E s \in Students : ChooseStudent(d, s)
    \/ \E p \in Packs : ChoosePack(d, p) \/ \E src \in sources[d] : ChooseSource(d, src, p)
    \/ \E mode \in Kinds : ChooseMode(d, mode)
    \/ \E a \in Accounts \cup {New} : PickPayer(d, a)
    \/ TickInvoice(d) \/ Submit(d) \/ Cancel(d) \/ Confirm(d)

Next ==
    \/ \E d \in Desks : Answer(d) \/ Person(d) \/ Reconnect(d)
    \/ \E s \in Students : Attend(s)

Spec == Init /\ [][Next]_vars

-----------------------------------------------------------------------------
(* Properties. *)

\* Every variable keeps its shape, and no refund takes an account below zero.
TypeOK ==
    /\ balance \in [Students -> Nat]
    /\ Len(moves) <= Cardinality(Indices)
    /\ claims \in [Ids -> Digests \cup {None}]
    /\ links \in [Students -> SUBSET Accounts]
    /\ \A d \in Desks :
          /\ form[d].student \in Students \cup {None} /\ form[d].pack \in Packs \cup {None}
          /\ picker[d] \in [known : SUBSET Accounts, payer : Accounts \cup {New, None}]
          /\ dialog[d] # None => dialog[d].sig \in Signature
          /\ \A op \in ops[d] : op.sig \in Signature \cup {None} /\ op.id \in Ids \cup {None}
          /\ busy[d] \in BOOLEAN

\* One form is booked once: sent again because its answer was lost, or sent twice because
\* a reconnection cleared busy, it finds its request id claimed.
OneFormOneMove ==
    \A i, j \in DOMAIN moves :
        moves[i].intent = moves[j].intent /\ moves[i].intent # None => i = j

\* No purchase is refunded beyond its credits or to another student, however old the list
\* was that a desk chose it from, and whatever else is refunded of it meanwhile.
RefundsWithinPurchase ==
    \A i \in DOMAIN moves : moves[i].source = None =>
        /\ Refunded(i) <= moves[i].credits
        /\ \A j \in RefundsOf(i) : moves[j].student = moves[i].student

\* A form that a desk reported as booked is booked.
ToldIsBooked ==
    \A d \in Desks : \A n \in told[d] : \E i \in DOMAIN moves : moves[i].intent = <<d, n>>

\* A top-up is billed to a payer of its student.
BilledToOwnPayer ==
    \A i \in DOMAIN moves : moves[i].account # None => moves[i].account \in links[moves[i].student]

=============================================================================
