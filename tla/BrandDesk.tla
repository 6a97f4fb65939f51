----------------------------- MODULE BrandDesk -----------------------------
(***************************************************************************)
(* The website editor of Studio Admin: a form that is saved as a draft or  *)
(* published as the next version, checked against the public pages, and    *)
(* refilled from the server; and what the page says of the form meanwhile. *)
(*                                                                         *)
(* The content of the form is the number of the edit that made it; 0 is    *)
(* what was public to begin with.  Three variables are history: what the   *)
(* server stored, one store after the other; the store a page, or a call,  *)
(* last heard of; and whether the form changed under a call that will      *)
(* speak of it.                                                            *)
(***************************************************************************)
EXTENDS Integers, Sequences, FiniteSets

CONSTANTS
    Tabs,
    Incomplete,     \* contents that may be kept as a draft but not be published
    MaxEdits,       \* bound: edits
    MaxCalls,       \* bound: calls started
    Losses,         \* whether calls and answers can be lost
    None, Unread

Contents == 0 .. MaxEdits

ASSUME BrandAssumption ==
    /\ MaxEdits \in Nat /\ MaxCalls \in Nat /\ Incomplete \subseteq Contents
    /\ Losses \in BOOLEAN /\ None \notin Contents /\ Unread \notin Contents \cup {None}

VARIABLES
    live, versions, draft,      \* server: the published content, the ledger of versions, the draft
    stored,                     \* history: every content stored, in order
    page,                       \* the form and what the page says of it
    calls, started,             \* a tab's calls under way, and how many were started in all
    edits,
    crossed,                    \* history
    heard                       \* history: the last store a page was told of

server == <<live, versions, draft, stored>>
history == <<crossed, heard>>
vars == <<server, page, calls, started, edits, history>>

Stored == Contents \cup {None}
Kinds == {"save", "publish", "recheck", "restore", "refresh", "upload"}
Stages == {"sent", "patch", "committed", "done", "verify", "adrift"}
States == {"published", "draft", "pending", "error"}
Call == [op : Kinds, n : 1 .. MaxCalls, at : Stages, content : Contents, ver : Nat,
         row : Stored, workspace : Stored \cup {Unread}, seen : Nat]
Page == [form : Contents, dirty : BOOLEAN, state : States, label : Nat, last : Stored,
         signed : BOOLEAN, blocked : BOOLEAN]
Public == {0} \cup {versions[v] : v \in DOMAIN versions}

\* The editor is hidden from whoever is signed out, and after a refresh has failed.
Shown(p) == p.signed /\ ~p.blocked

\* Calls whose end says something of the form without looking at it.
Speaking(t) == {c \in calls[t] : c.op \in {"save", "publish", "recheck"} /\ c.at # "adrift"}
UnderWay(t, op) == \E c \in calls[t] : c.op = op /\ c.at # "adrift"

Replace(t, c, new) == calls' = [calls EXCEPT ![t] = (@ \ {c}) \cup new]
Say(t, p) == page' = [page EXCEPT ![t] = p]
Hear(t, c) == heard' = [heard EXCEPT ![t] = c.seen]

-----------------------------------------------------------------------------
(* What the page says. *)

Filled(p, c) == [p EXCEPT !.form = c, !.state = "published", !.label = 0, !.dirty = FALSE]
AsDraft_Filled(p, c) == Filled(p, c)        \* mutant: the state of fillSettings stays
AsDraft(p, c) == [Filled(p, c) EXCEPT !.state = "draft"]
Saved(p) == [p EXCEPT !.state = "draft", !.label = 0, !.dirty = FALSE]
Published_Next(p, c) == [Filled(p, c.row) EXCEPT !.label = c.ver + 1, !.last = c.content]   \* mutant: off by one
Published(p, c) == [Filled(p, c.row) EXCEPT !.label = c.ver, !.last = c.content]
Verified(p) == [p EXCEPT !.state = "published", !.dirty = FALSE]
Unverified(p, ver) == [p EXCEPT !.state = "pending", !.label = ver, !.dirty = FALSE]
Out(p) == [p EXCEPT !.signed = FALSE, !.blocked = FALSE]
Failed(p) == [p EXCEPT !.state = "error", !.label = 0, !.dirty = TRUE]

-----------------------------------------------------------------------------
(* The person at the editor. *)

Change(t) ==
    /\ edits < MaxEdits /\ edits' = edits + 1
    /\ Say(t, [page[t] EXCEPT !.form = edits', !.dirty = TRUE])
    /\ crossed' = [crossed EXCEPT ![t] = Speaking(t) # {}] /\ UNCHANGED heard

Type(t) ==
    /\ Shown(page[t]) /\ Change(t)
    /\ UNCHANGED <<server, calls, started>>

\* Numbers that tell calls of one kind apart.
Free(t, op) == {i \in 1 .. MaxCalls : \A c \in calls[t] : c.op = op => c.n # i}

Start(t, op, content, ver) ==
    /\ started < MaxCalls /\ Free(t, op) # {}
    /\ started' = started + 1
    /\ calls' = [calls EXCEPT ![t] = @ \cup {[op |-> op, n |-> CHOOSE i \in Free(t, op) : TRUE, at |-> "sent",
           content |-> content, ver |-> ver, row |-> None, workspace |-> Unread, seen |-> 0]}]

\* A button is disabled while its own call is under way; the others are not.
Press(t, op, content, ver) == ~UnderWay(t, op) /\ Start(t, op, content, ver)

\* mutant: clean at the press
Save_Optimistic(t) ==
    /\ Shown(page[t]) /\ Press(t, "save", page[t].form, 0) /\ Say(t, Saved(page[t]))
    /\ UNCHANGED <<server, edits, history>>
Save(t) ==
    /\ Shown(page[t]) /\ Press(t, "save", page[t].form, 0)
    /\ UNCHANGED <<server, page, edits, history>>

Publish(t) ==
    /\ Shown(page[t]) /\ page[t].form \notin Incomplete /\ Press(t, "publish", page[t].form, 0)
    /\ UNCHANGED <<server, page, edits, history>>

PublishIncomplete(t) ==
    /\ Shown(page[t]) /\ page[t].form \in Incomplete /\ ~UnderWay(t, "publish")
    /\ Say(t, Failed(page[t]))
    /\ UNCHANGED <<server, calls, started, edits, history>>

\* Recheck is offered while the last publication waits for its verification.
Recheck(t) ==
    /\ Shown(page[t]) /\ page[t].state = "pending" /\ page[t].last # None
    /\ Press(t, "recheck", 0, page[t].label)
    /\ crossed' = [crossed EXCEPT ![t] = @ \/ page[t].dirty] /\ UNCHANGED heard
    /\ UNCHANGED <<server, page, edits>>

Restore(t, v) ==
    /\ Shown(page[t]) /\ Start(t, "restore", versions[v], 0)
    /\ UNCHANGED <<server, page, edits, history>>

Refresh(t) ==
    /\ page[t].signed /\ Press(t, "refresh", 0, 0)
    /\ UNCHANGED <<server, page, edits, history>>

\* A picture for one of the fields.
Upload(t) ==
    /\ Shown(page[t]) /\ Start(t, "upload", 0, 0)
    /\ UNCHANGED <<server, page, edits, history>>

SignOut(t) ==
    /\ page[t].signed /\ Say(t, Out(page[t]))
    /\ UNCHANGED <<server, calls, started, edits, history>>

\* The form is shown again before the refresh has answered.
SignIn(t) ==
    /\ ~page[t].signed /\ Say(t, [page[t] EXCEPT !.signed = TRUE])
    /\ Start(t, "refresh", 0, 0)
    /\ UNCHANGED <<server, edits, history>>

-----------------------------------------------------------------------------
(* The server. *)

\* PUT brand-draft, by Save and as the first call of Publish; and POST restore.
StoreDraft(t, c) ==
    /\ c.op \in {"save", "publish", "restore"} /\ c.at \in {"sent", "adrift"} /\ c.row = None
    /\ draft' = c.content /\ stored' = Append(stored, c.content)
    /\ Replace(t, c, IF c.at = "adrift" THEN {}
                     ELSE {[c EXCEPT !.at = IF c.op = "publish" THEN "patch" ELSE "done", !.seen = Len(stored')]})
    /\ UNCHANGED <<live, versions, page, started, edits, history>>

\* PATCH tenant: the next version under the lock of the studio's row, and the draft goes.
StoreVersion(t, c) ==
    /\ c.op = "publish" /\ (IF c.at = "adrift" THEN c.row # None ELSE c.at = "patch")
    /\ live' = c.content /\ versions' = Append(versions, c.content) /\ draft' = None
    /\ stored' = Append(stored, c.content)
    /\ Replace(t, c, IF c.at = "adrift" THEN {}
                     ELSE {[c EXCEPT !.at = "committed", !.ver = Len(versions'), !.seen = Len(stored')]})
    /\ UNCHANGED <<page, started, edits, history>>

\* The row in the answer is read after the commit.
Row_Before(c) == IF c.ver = 1 THEN 0 ELSE versions[c.ver - 1]   \* mutant: as it was locked
Row(c) == live
ReadRow(t, c) ==
    /\ c.op = "publish" /\ c.at = "committed"
    /\ Replace(t, c, {[c EXCEPT !.at = "done", !.row = Row(c)]})
    /\ UNCHANGED <<server, page, started, edits, history>>

\* A refresh asks for the studio and for the workspace at once.
ReadStudio(t, c) ==
    /\ c.op = "refresh" /\ c.row = None
    /\ Replace(t, c, {[c EXCEPT !.row = live]})
    /\ UNCHANGED <<server, page, started, edits, history>>

ReadWorkspace(t, c) ==
    /\ c.op = "refresh" /\ c.workspace = Unread
    /\ Replace(t, c, {[c EXCEPT !.workspace = draft, !.seen = Len(stored)]})
    /\ UNCHANGED <<server, page, started, edits, history>>

-----------------------------------------------------------------------------
(* Answers. *)

SaveArrives(t, c) ==
    /\ c.op = "save" /\ c.at = "done"
    /\ Replace(t, c, {}) /\ Say(t, Saved(page[t])) /\ Hear(t, c)
    /\ UNCHANGED <<server, started, edits, crossed>>

\* The form is filled with the row of the answer, and the verification begins.
PublishArrives(t, c) ==
    /\ c.op = "publish" /\ c.at = "done"
    /\ Replace(t, c, {[c EXCEPT !.at = "verify"]})
    /\ Say(t, Published(page[t], c))
    /\ crossed' = [crossed EXCEPT ![t] = FALSE] /\ Hear(t, c)
    /\ UNCHANGED <<server, started, edits>>

\* The public pages are outside of the model: they confirm or they do not.
VerifySucceeds(t, c) ==
    /\ c.op = "publish" /\ c.at = "verify"
    /\ Replace(t, c, {})
    /\ UNCHANGED <<server, page, started, edits, history>>

VerifyFails(t, c) ==
    /\ c.op = "publish" /\ c.at = "verify"
    /\ Replace(t, c, {}) /\ Say(t, Unverified(page[t], c.ver))
    /\ UNCHANGED <<server, started, edits, history>>

RecheckSucceeds(t, c) ==
    /\ c.op = "recheck" /\ c.ver > 0
    /\ Replace(t, c, {}) /\ Say(t, Verified(page[t]))
    /\ UNCHANGED <<server, started, edits, history>>

RecheckFails(t, c) ==
    /\ c.op = "recheck"
    /\ Replace(t, c, {}) /\ Say(t, Unverified(page[t], page[t].label))
    /\ UNCHANGED <<server, started, edits, history>>

RestoreArrives(t, c) ==
    /\ c.op = "restore" /\ c.at = "done"
    /\ Replace(t, c, {}) /\ Say(t, AsDraft(page[t], c.content))
    /\ crossed' = [crossed EXCEPT ![t] = Speaking(t) # {}] /\ Hear(t, c)
    /\ UNCHANGED <<server, started, edits>>

RefreshArrives(t, c) ==
    /\ c.op = "refresh" /\ c.row # None /\ c.workspace # Unread
    /\ Replace(t, c, {})
    /\ LET p == [page[t] EXCEPT !.blocked = FALSE]
       IN Say(t, IF c.workspace = None THEN Filled(p, c.row) ELSE AsDraft(p, c.workspace))
    /\ crossed' = [crossed EXCEPT ![t] = Speaking(t) # {}] /\ Hear(t, c)
    /\ UNCHANGED <<server, started, edits>>

\* The editor is closed until a refresh succeeds, or the session is over.
RefreshFails(t, c) ==
    /\ Losses /\ c.op = "refresh" /\ Replace(t, c, {})
    /\ \/ Say(t, [page[t] EXCEPT !.blocked = TRUE])
       \/ Say(t, Out(page[t]))
    /\ UNCHANGED <<server, started, edits, history>>

\* The picture goes into the form whoever looks at it; a showcase picture is lost when the
\* form was refilled meanwhile, or when the upload fails, and the page is dirty all the same.
UploadEnds(t, c) ==
    /\ c.op = "upload" /\ Replace(t, c, {})
    /\ \/ Change(t)
       \/ Say(t, [page[t] EXCEPT !.dirty = TRUE]) /\ UNCHANGED <<edits, history>>
    /\ UNCHANGED <<server, started>>

\* The page gives up; the server gets to the call later or never, or has done so before.
\* The row of a publication adrift tells which of its two calls that is.
CallFails(t, c) ==
    /\ Losses /\ c.op \in {"save", "publish", "restore", "upload"} /\ c.at \notin {"adrift", "verify"}
    /\ Replace(t, c, IF c.op = "upload" \/ c.at \notin {"sent", "patch"} THEN {}
                     ELSE {[c EXCEPT !.at = "adrift", !.row = IF c.at = "patch" THEN 0 ELSE None]})
    /\ IF c.op = "publish" THEN Say(t, Failed(page[t])) ELSE UNCHANGED page
    /\ UNCHANGED <<server, started, edits, history>>

-----------------------------------------------------------------------------
Init ==
    /\ live = 0 /\ versions = <<>> /\ draft = None /\ stored = <<0>> /\ edits = 0
    /\ page = [t \in Tabs |-> [form |-> 0, dirty |-> FALSE, state |-> "published", label |-> 0,
                               last |-> None, signed |-> TRUE, blocked |-> FALSE]]
    /\ calls = [t \in Tabs |-> {}] /\ started = 0
    /\ crossed = [t \in Tabs |-> FALSE] /\ heard = [t \in Tabs |-> 1]

Owner(t) ==
    \/ Type(t) \/ Save(t) \/ Publish(t) \/ PublishIncomplete(t) \/ Recheck(t)
    \/ Refresh(t) \/ SignOut(t) \/ SignIn(t) \/ Upload(t)
    \/ \E v \in DOMAIN versions : Restore(t, v)

Server(t, c) == StoreDraft(t, c) \/ StoreVersion(t, c) \/ ReadRow(t, c) \/ ReadStudio(t, c) \/ ReadWorkspace(t, c)

Answer(t, c) ==
    \/ SaveArrives(t, c) \/ PublishArrives(t, c) \/ VerifySucceeds(t, c) \/ VerifyFails(t, c)
    \/ RecheckSucceeds(t, c) \/ RecheckFails(t, c) \/ RestoreArrives(t, c)
    \/ RefreshArrives(t, c) \/ RefreshFails(t, c)
    \/ UploadEnds(t, c) \/ CallFails(t, c)

Next == \E t \in Tabs : Owner(t) \/ \E c \in calls[t] : Server(t, c) \/ Answer(t, c)

Spec == Init /\ [][Next]_vars

-----------------------------------------------------------------------------
(* Properties. *)

\* Every variable has its type.
TypeOK ==
    /\ live \in Contents /\ versions \in Seq(Contents) /\ draft \in Stored
    /\ stored \in Seq(Contents) /\ edits \in Contents /\ started \in 0 .. MaxCalls
    /\ page \in [Tabs -> Page] /\ calls \in [Tabs -> SUBSET Call] /\ crossed \in [Tabs -> BOOLEAN]
    /\ heard \in [Tabs -> DOMAIN stored]
    /\ \A t \in Tabs :
          /\ page[t].label \in 0 .. Len(versions)
          /\ \A c \in calls[t] : c.ver \in 0 .. Len(versions) /\ c.seen \in 0 .. Len(stored)

\* A clean page, unless its form changed under a call, shows what is public or what the server
\* stored when the page last heard from it; and as long as nothing was stored since, by another
\* tab or by a call given up, that is public or the draft still.
CleanMeansKept ==
    \A t \in Tabs : ~page[t].dirty /\ ~crossed[t] => page[t].form \in
        Public \cup {IF heard[t] = Len(stored) THEN draft ELSE stored[heard[t]]}

\* What a clean page calls published was public, unless its form changed under a call.
PublishedMeansPublic ==
    \A t \in Tabs : page[t].state = "published" /\ ~page[t].dirty /\ ~crossed[t] => page[t].form \in Public

\* A clean page that names a version shows that version or a later one, unless its form changed
\* under a call.
PageNamesItsVersion ==
    \A t \in Tabs : page[t].label > 0 /\ ~page[t].dirty /\ ~crossed[t] =>
        \E v \in page[t].label .. Len(versions) : versions[v] = page[t].form

\* What a clean page calls published was public, without the proviso.  No run checks it (README).
TheEditorMatchesThePages ==
    \A t \in Tabs : page[t].state = "published" /\ ~page[t].dirty => page[t].form \in Public

\* Closing the page, which asks only while it is dirty, loses nothing.  No run checks it (README).
ClosingLosesNothing ==
    \A t \in Tabs : ~page[t].dirty => page[t].form \in Public \cup {draft}
=============================================================================
