---------------------------- MODULE CmsDocument ----------------------------
(***************************************************************************)
(* The studio's document: what the staff console loads as one aggregate    *)
(* (students, credit packs, group templates) and saves back whole, under a *)
(* revision that the server compares.                                      *)
(*                                                                         *)
(* A field of the document is a part that one edit replaces, and its value *)
(* is the number of that edit.  lineage is a history variable: the edits   *)
(* each edit was made on top of.  gen and whole are history too: how many  *)
(* loads a tab has taken in, and whether what it holds and the revision it *)
(* would send belong together.                                             *)
(***************************************************************************)
EXTENDS Integers, Sequences, FiniteSets

CONSTANTS
    Tabs,
    Rows,       \* fields the server reads from tables of their own, before the revision
    Settings,   \* fields it reads in one statement with the revision
    Raising,    \* fields whose handlers look at the busy flag and raise it
    FirstRevs,  \* the stored revisions to begin with; 0 when nothing was ever saved
    MaxEdits,   \* bound: edits
    MaxLoads,   \* bound: loads of one tab
    Losses,     \* whether calls and answers can be lost
    None

ASSUME DocumentAssumption ==
    /\ Rows \cap Settings = {} /\ Raising \subseteq Rows
    /\ FirstRevs \subseteq Nat /\ MaxEdits \in Nat /\ MaxLoads \in Nat
    /\ Losses \in BOOLEAN

Fields == Rows \cup Settings
Edits == 0 .. MaxEdits
Document == [Fields -> Edits]

VARIABLES
    doc, stored,        \* server: the document and its revision
    lineage,            \* history: for each edit, those it was made on top of
    copy,               \* the document as the tab shows it
    rev,                \* the revision the tab would send
    busy, dialog,
    loads, asked,       \* loads in flight, and how many were started
    saves,              \* saves in flight
    refresh,            \* whether the tab waits to load because a save was refused
    dropped             \* history: edits a save replaced without being made on top of them

server == <<doc, stored, dropped>>
vars == <<server, lineage, copy, rev, busy, dialog, loads, asked, saves, refresh>>

Below(e) == IF e = 0 THEN {0} ELSE lineage[e]
\* The fields of before that are lost in after.
Forgotten(before, after) == {f \in Fields : before[f] \notin Below(after[f])}
Loaded(t) == copy[t].gen > 0

-----------------------------------------------------------------------------
(* Loading. *)

StartLoad(t) ==
    /\ asked[t] < MaxLoads
    /\ asked' = [asked EXCEPT ![t] = @ + 1]
    /\ loads' = [loads EXCEPT ![t] = @ \cup {[n |-> asked[t], at |-> "asked", got |-> None,
                                              rev |-> None, whole |-> FALSE]}]
    /\ busy' = [busy EXCEPT ![t] = TRUE]

\* After a login, a reconnection, or a call of another page.
Load(t) ==
    /\ StartLoad(t)
    /\ UNCHANGED <<server, lineage, copy, rev, dialog, saves, refresh>>

\* 800 ms after a save was refused.
Refresh(t) ==
    /\ refresh[t] /\ refresh' = [refresh EXCEPT ![t] = FALSE]
    /\ StartLoad(t)
    /\ UNCHANGED <<server, lineage, copy, rev, dialog, saves>>

ReadRows(t, l) ==
    /\ l.at = "asked"
    /\ loads' = [loads EXCEPT ![t] = (@ \ {l}) \cup {[l EXCEPT !.at = "rows", !.got = [f \in Rows |-> doc[f]]]}]
    /\ UNCHANGED <<server, lineage, copy, rev, busy, dialog, asked, saves, refresh>>

Revision_Stored == IF stored = 0 THEN None ELSE stored   \* mutant: without the clock
\* The revision a load answers: the clock, while nothing was ever saved.  1 is the second
\* of those loads; the first save may fall into it or come later.
Revision == IF stored = 0 THEN 1 ELSE stored
NextRevisions_Same == IF stored = 0 THEN {1, 2} ELSE {stored}   \* mutant: without + 1
NextRevisions == IF stored = 0 THEN {1, 2} ELSE {stored + 1}

ReadSettings(t, l) ==
    /\ l.at = "rows"
    /\ LET got == [f \in Fields |-> IF f \in Rows THEN l.got[f] ELSE doc[f]]
       IN loads' = [loads EXCEPT ![t] = (@ \ {l}) \cup
              {[l EXCEPT !.at = "read", !.got = got, !.rev = Revision,
                         !.whole = got = doc /\ stored # 0]}]
    /\ UNCHANGED <<server, lineage, copy, rev, busy, dialog, asked, saves, refresh>>

LoadArrives(t, l) ==
    /\ l.at = "read"
    /\ loads' = [loads EXCEPT ![t] = @ \ {l}]
    /\ copy' = [copy EXCEPT ![t] = [doc |-> l.got, gen |-> @.gen + 1, whole |-> l.whole]]
    /\ rev' = [rev EXCEPT ![t] = l.rev]
    /\ busy' = [busy EXCEPT ![t] = FALSE]
    /\ UNCHANGED <<server, lineage, dialog, asked, saves, refresh>>

LoadFails(t, l) ==
    /\ Losses
    /\ loads' = [loads EXCEPT ![t] = @ \ {l}]
    /\ busy' = [busy EXCEPT ![t] = FALSE]
    /\ UNCHANGED <<server, lineage, copy, rev, dialog, asked, saves, refresh>>

-----------------------------------------------------------------------------
(* Editing. *)

\* The document with one field edited goes on the screen and to the server, with the
\* revision of this moment, whatever the document it was made from.
Save(t, from, f) ==
    LET e == Len(lineage) + 1
        whole == from.whole /\ copy[t].whole /\ from.gen = copy[t].gen
        nd == [from.doc EXCEPT ![f] = e]
    IN /\ e <= MaxEdits
       /\ lineage' = Append(lineage, Below(from.doc[f]) \cup {e})
       /\ copy' = [copy EXCEPT ![t].doc = nd, ![t].whole = whole]
       /\ saves' = [saves EXCEPT ![t] = @ \cup
              {[doc |-> nd, rev |-> rev[t], raised |-> f \in Raising, gen |-> copy[t].gen,
                whole |-> whole, at |-> "sent", is |-> None, answer |-> None]}]
       /\ busy' = IF f \in Raising THEN [busy EXCEPT ![t] = TRUE] ELSE busy

\* A form: a student's profile, a credit pack.
Edit(t, f) ==
    /\ Loaded(t) /\ dialog[t] = None /\ ~busy[t] /\ f \in Rows
    /\ Save(t, copy[t], f)
    /\ UNCHANGED <<server, rev, dialog, loads, asked, refresh>>

\* An edit that asks first keeps the document it was made from.
Ask(t, f) ==
    /\ Loaded(t) /\ dialog[t] = None /\ Len(lineage) < MaxEdits
    /\ dialog' = [dialog EXCEPT ![t] = [field |-> f, from |-> copy[t], busy |-> f \in Raising /\ busy[t]]]
    /\ UNCHANGED <<server, lineage, copy, rev, busy, loads, asked, saves, refresh>>

Cancel(t) ==
    /\ dialog[t] # None
    /\ dialog' = [dialog EXCEPT ![t] = None]
    /\ UNCHANGED <<server, lineage, copy, rev, busy, loads, asked, saves, refresh>>

Confirm(t) ==
    /\ dialog[t] # None
    /\ ~dialog[t].busy
    /\ Save(t, dialog[t].from, dialog[t].field)
    /\ dialog' = [dialog EXCEPT ![t] = None]
    /\ UNCHANGED <<server, rev, loads, asked, refresh>>

-----------------------------------------------------------------------------
(* Saving. *)

Stale_Never(s) == FALSE         \* mutant: without the comparison
Stale(s) == stored # 0 /\ s.rev < stored

\* Under the lock of the studio's row: compare, write every field, raise the revision.
Accept(s) ==
    /\ ~Stale(s)
    /\ doc' = s.doc
    /\ stored' \in NextRevisions
    /\ dropped' = dropped \cup {[edit |-> doc[f], whole |-> s.whole] : f \in Forgotten(doc, s.doc)}

ServeSave(t, s) ==
    /\ \/ /\ Accept(s)
          /\ saves' = [saves EXCEPT ![t] = (@ \ {s}) \cup
                 IF s.at = "adrift" THEN {} ELSE {[s EXCEPT !.at = "saved", !.is = stored']}]
       \/ /\ Stale(s) /\ UNCHANGED <<doc, stored, dropped>>
          /\ saves' = [saves EXCEPT ![t] = (@ \ {s}) \cup
                 IF s.at = "adrift" THEN {} ELSE {[s EXCEPT !.at = "refused", !.gen = 0]}]
    /\ UNCHANGED <<lineage, copy, rev, busy, dialog, loads, asked, refresh>>

\* The revision in the answer is read again after the commit.
AnswerSave(t, s) ==
    /\ s.at = "saved"
    /\ saves' = [saves EXCEPT ![t] = (@ \ {s}) \cup {[s EXCEPT !.at = "read", !.answer = stored]}]
    /\ UNCHANGED <<server, lineage, copy, rev, busy, dialog, loads, asked, refresh>>

End(t, s) ==
    /\ saves' = [saves EXCEPT ![t] = @ \ {s}]
    /\ busy' = IF s.raised THEN [busy EXCEPT ![t] = FALSE] ELSE busy

SaveArrives(t, s) ==
    /\ s.at = "read" /\ End(t, s)
    /\ rev' = [rev EXCEPT ![t] = s.answer]
    /\ copy' = [copy EXCEPT ![t].whole = @ /\ s.gen = copy[t].gen /\ s.answer = s.is]
    /\ UNCHANGED <<server, lineage, dialog, loads, asked, refresh>>

\* Refused: reload, do not overwrite.
RefusalArrives(t, s) ==
    /\ s.at = "refused" /\ End(t, s)
    /\ refresh' = [refresh EXCEPT ![t] = TRUE]
    /\ UNCHANGED <<server, lineage, copy, rev, dialog, loads, asked>>

\* The tab gives up: the server gets to the call later or never, or has done so before.
\* The edit stays on the screen.  What the tab would have made of the answer is forgotten.
SaveFails(t, s) ==
    /\ Losses /\ s.at # "adrift"
    /\ IF s.at = "sent"
       THEN /\ saves' = [saves EXCEPT ![t] = (@ \ {s}) \cup {[s EXCEPT !.at = "adrift", !.raised = FALSE, !.gen = 0]}]
            /\ busy' = IF s.raised THEN [busy EXCEPT ![t] = FALSE] ELSE busy
       ELSE End(t, s)
    /\ UNCHANGED <<server, lineage, copy, rev, dialog, loads, asked, refresh>>

-----------------------------------------------------------------------------
Init ==
    /\ doc = [f \in Fields |-> 0] /\ stored \in FirstRevs
    /\ lineage = <<>> /\ dropped = {}
    /\ copy = [t \in Tabs |-> [doc |-> doc, gen |-> 0, whole |-> FALSE]]
    /\ rev = [t \in Tabs |-> 0] /\ busy = [t \in Tabs |-> FALSE]
    /\ dialog = [t \in Tabs |-> None]
    /\ loads = [t \in Tabs |-> {}] /\ asked = [t \in Tabs |-> 0]
    /\ saves = [t \in Tabs |-> {}] /\ refresh = [t \in Tabs |-> FALSE]

Person(t) ==
    \/ Load(t) \/ Refresh(t) \/ Confirm(t) \/ Cancel(t)
    \/ \E f \in Fields : Edit(t, f) \/ Ask(t, f)

Network(t) ==
    \/ \E l \in loads[t] : ReadRows(t, l) \/ ReadSettings(t, l) \/ LoadArrives(t, l) \/ LoadFails(t, l)
    \/ \E s \in saves[t] :
          \/ s.at \in {"sent", "adrift"} /\ ServeSave(t, s)
          \/ AnswerSave(t, s) \/ SaveArrives(t, s) \/ RefusalArrives(t, s) \/ SaveFails(t, s)

Next == \E t \in Tabs : Person(t) \/ Network(t)

Spec == Init /\ [][Next]_vars

-----------------------------------------------------------------------------
(* Properties. *)

TypeOK ==
    /\ doc \in Document /\ stored \in Nat
    /\ lineage \in Seq(SUBSET Edits) /\ Len(lineage) <= MaxEdits
    /\ \A t \in Tabs :
          /\ copy[t] \in [doc : Document, gen : 0 .. MaxLoads, whole : BOOLEAN]
          /\ rev[t] \in Nat /\ busy[t] \in BOOLEAN /\ refresh[t] \in BOOLEAN
          /\ asked[t] \in 0 .. MaxLoads
          /\ \A s \in saves[t] : s.doc \in Document /\ s.rev \in Nat

\* A tab whose revision would be accepted has every edit of the document under its own,
\* as long as what it holds and its revision belong together: they were read as one, no
\* load came between a save and its answer, and that answer spoke of this save.
WhoeverPassesTheLockKnows ==
    \A t \in Tabs : rev[t] >= stored /\ copy[t].whole => Forgotten(doc, copy[t].doc) = {}

\* No save replaces an edit it was not made on top of, under the same proviso and made
\* from what the tab held when it was sent.
KeptWhenWhole == \A x \in dropped : ~x.whole

\* No save replaces an edit it was not made on top of.
NoEditIsLost == dropped = {}
=============================================================================
