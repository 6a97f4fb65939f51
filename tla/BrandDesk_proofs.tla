-------------------------- MODULE BrandDesk_proofs --------------------------
(***************************************************************************)
(* What a clean page says is true, for any number of tabs, edits and       *)
(* calls, as long as the form did not change under a call that speaks of   *)
(* it: the three safety invariants of BrandDesk.                           *)
(*                                                                         *)
(* A step touches one tab, and the server only ever stores more: what is   *)
(* true of the other tabs stays true (StepKeeps).  So each action has to   *)
(* answer for its own tab alone, and, as a call that has ended leaves      *)
(* nothing behind, only for the page and the call it changes.              *)
(***************************************************************************)
EXTENDS BrandDesk, TLAPS

-----------------------------------------------------------------------------
(* The inductive invariant. *)

\* Version k or a later one is x.
Since(k, x) == \E v \in k .. Len(versions) : versions[v] = x

\* The newest version is the live one, a draft is what was stored last, and what was stored last is
\* that or public.
StoreInv ==
    /\ live = IF Len(versions) = 0 THEN 0 ELSE versions[Len(versions)]
    /\ Len(stored) > 0 /\ draft \in {None, stored[Len(stored)]} /\ stored[Len(stored)] \in Public \cup {draft}

\* What a call carries was public, or was stored, when it says so.
CallOK(c) ==
    /\ c.row \in Public \cup {None}
    /\ c.workspace \notin {None, Unread} => c.seen > 0 /\ stored[c.seen] = c.workspace
    /\ c.op \in {"save", "restore"} /\ c.at = "done" => c.seen > 0 /\ stored[c.seen] = c.content
    /\ c.op = "publish" /\ c.at \in {"committed", "done"} => c.seen > 0
    /\ c.op = "refresh" /\ c.workspace # Unread => c.seen > 0
    /\ c.op = "publish" /\ c.at \in {"committed", "done", "verify"} => c.ver > 0
    /\ c.op = "publish" /\ c.at = "committed" => Since(c.ver, live)
    /\ c.op = "publish" /\ c.at = "done" => Since(c.ver, c.row)
    /\ c.op \in {"recheck", "refresh"} => c.at = "sent"
    /\ c.op # "refresh" => c.workspace = Unread

\* What a clean page says of the form is true already ...
CleanOK(t) ==
    ~crossed[t] /\ ~page[t].dirty =>
        /\ page[t].form \in Public \cup {stored[heard[t]]}
        /\ page[t].state \in {"published", "pending"} => page[t].form \in Public
        /\ page[t].label > 0 => Since(page[t].label, page[t].form)

\* ... and what a call will say of it will be.
SpeakOK(t, c) ==
    ~crossed[t] =>
        /\ c.op = "save" /\ c.at # "adrift" => page[t].form \in Public \cup {c.content}
        /\ c.op = "recheck" => /\ page[t].form \in Public
                               /\ page[t].label > 0 => Since(page[t].label, page[t].form)
        /\ c.op = "publish" /\ c.at = "verify" => Since(c.ver, page[t].form)

\* A publication that ends starts afresh, and so must be the only one of its tab.
Publishing(c) == c.op = "publish" /\ c.at # "adrift"
OneOf(cs) == \A c, d \in cs : Publishing(c) /\ Publishing(d) => c = d

TabOK(t) == CleanOK(t) /\ OneOf(calls[t]) /\ \A c \in calls[t] : CallOK(c) /\ SpeakOK(t, c)

IInv == TypeOK /\ StoreInv /\ \A t \in Tabs : TabOK(t)

-----------------------------------------------------------------------------
(* The server only ever stores more. *)

Grows ==
    /\ Len(stored) <= Len(stored') /\ \A k \in 1 .. Len(stored) : stored'[k] = stored[k]
    /\ Len(versions) <= Len(versions') /\ \A v \in 1 .. Len(versions) : versions'[v] = versions[v]

LEMMA SameServerGrows ==
  ASSUME TypeOK, UNCHANGED server
  PROVE  Grows
BY DEF TypeOK, Grows, server

\* A version that was there is there.
LEMMA SinceGrows ==
  ASSUME TypeOK, TypeOK', Grows, NEW k \in Nat, k > 0, NEW x, Since(k, x)
  PROVE  Since(k, x)'
<1>1. Len(versions) \in Nat /\ Len(versions') \in Nat
  BY DEF TypeOK
<1> QED
  BY <1>1 DEF Grows, Since

LEMMA SinceIsPublic ==
  ASSUME TypeOK, NEW k \in Nat, k > 0, NEW x, Since(k, x)
  PROVE  x \in Public
BY DEF TypeOK, Since, Public

LEMMA PublicGrows ==
  ASSUME TypeOK, TypeOK', Grows
  PROVE  Public \subseteq Public'
<1>1. /\ DOMAIN versions = 1 .. Len(versions) /\ DOMAIN versions' = 1 .. Len(versions')
      /\ Len(versions) \in Nat /\ Len(versions') \in Nat
  BY DEF TypeOK
<1> QED
  BY <1>1 DEF Grows, Public

\* The newest version is a version since any.
LEMMA LiveIsSince ==
  ASSUME TypeOK, StoreInv, NEW k \in 1 .. Len(versions)
  PROVE  Since(k, live)
<1>1. Len(versions) \in Nat /\ Len(versions) \in k .. Len(versions) /\ Len(versions) # 0
  BY DEF TypeOK
<1> QED
  BY <1>1 DEF StoreInv, Since

LEMMA LiveIsPublic ==
  ASSUME TypeOK, StoreInv
  PROVE  live \in Public
BY DEF TypeOK, StoreInv, Public

LEMMA CallKept ==
  ASSUME TypeOK, TypeOK', Grows, StoreInv', NEW t \in Tabs, NEW c \in calls[t], CallOK(c)
  PROVE  CallOK(c)'
<1>1. c \in Call /\ c.ver \in 0 .. Len(versions)
  BY DEF TypeOK
<1>2. c.ver \in Nat /\ Len(versions) \in Nat /\ Len(versions') \in Nat
  BY <1>1 DEF TypeOK, Call
<1>3. c.ver > 0 => Since(c.ver, live)'
  BY <1>1, <1>2, LiveIsSince DEF Grows, Since, StoreInv
<1>4. ASSUME c.ver > 0, Since(c.ver, c.row)
      PROVE  Since(c.ver, c.row)'
  BY <1>2, <1>4, SinceGrows
<1>5. Public \subseteq Public'
  BY PublicGrows
<1>6. c.seen \in Nat /\ (c.seen > 0 => stored'[c.seen] = stored[c.seen])
  BY <1>1 DEF TypeOK, Call, Grows
<1> QED
  BY <1>3, <1>4, <1>5, <1>6 DEF CallOK

LEMMA CleanKept ==
  ASSUME TypeOK, TypeOK', Grows, NEW t \in Tabs, CleanOK(t),
         page'[t] = page[t], crossed'[t] = crossed[t], heard'[t] = heard[t]
  PROVE  CleanOK(t)'
<1>1. page[t].label \in Nat
  BY DEF TypeOK, Page
<1>2. ASSUME page[t].label > 0, Since(page[t].label, page[t].form)
      PROVE  \E v \in page[t].label .. Len(versions') : versions'[v] = page[t].form
  BY <1>1, <1>2 DEF TypeOK, Grows, Since
<1>3. Public \subseteq Public'
  BY PublicGrows
<1>4. stored'[heard[t]] = stored[heard[t]]
  <2>1. heard[t] \in 1 .. Len(stored)
    BY DEF TypeOK
  <2> QED
    BY <2>1 DEF Grows
<1> QED
  BY <1>2, <1>3, <1>4 DEF CleanOK, Since

LEMMA SpeakKept ==
  ASSUME TypeOK, TypeOK', Grows, NEW t \in Tabs, NEW c \in calls[t], CallOK(c), SpeakOK(t, c),
         page'[t].form = page[t].form, page'[t].label = page[t].label, crossed'[t] = crossed[t]
  PROVE  SpeakOK(t, c)'
<1>1. page[t].label \in Nat /\ c.ver \in Nat
  BY DEF TypeOK, Page, Call
<1>2. ASSUME page[t].label > 0, Since(page[t].label, page[t].form)
      PROVE  \E v \in page[t].label .. Len(versions') : versions'[v] = page[t].form
  BY <1>1, <1>2 DEF TypeOK, Grows, Since
<1>3. ASSUME c.ver > 0, Since(c.ver, page[t].form)
      PROVE  \E v \in c.ver .. Len(versions') : versions'[v] = page[t].form
  BY <1>1, <1>3 DEF TypeOK, Grows, Since
<1>4. Public \subseteq Public'
  BY PublicGrows
<1>5. c.op = "publish" /\ c.at = "verify" => c.ver > 0
  BY DEF CallOK
<1> QED
  BY <1>2, <1>3, <1>4, <1>5 DEF SpeakOK, Since

\* A step of one tab leaves what is true of the others.
LEMMA StepKeeps ==
  ASSUME IInv, TypeOK', Grows, StoreInv', NEW t \in Tabs, TabOK(t)',
         \A u \in Tabs \ {t} : page'[u] = page[u] /\ calls'[u] = calls[u] /\ crossed'[u] = crossed[u] /\ heard'[u] = heard[u]
  PROVE  IInv'
<1> SUFFICES ASSUME NEW u \in Tabs, u # t PROVE TabOK(u)'
  BY DEF IInv
<1>1. TypeOK /\ CleanOK(u) /\ OneOf(calls[u]) /\ \A c \in calls[u] : CallOK(c) /\ SpeakOK(u, c)
  BY DEF IInv, TabOK
<1>2. page'[u] = page[u] /\ calls'[u] = calls[u] /\ crossed'[u] = crossed[u] /\ heard'[u] = heard[u]
  OBVIOUS
<1>3. CleanOK(u)'
  BY <1>1, <1>2, CleanKept
<1>4. \A c \in calls[u] : CallOK(c)' /\ SpeakOK(u, c)'
  BY <1>1, <1>2, CallKept, SpeakKept
<1> QED
  BY <1>1, <1>2, <1>3, <1>4 DEF TabOK, OneOf, Publishing

\* What a step that stores nothing has to show.
LEMMA QuietStep ==
  ASSUME IInv, TypeOK', UNCHANGED server, NEW t \in Tabs, TabOK(t)',
         \A u \in Tabs \ {t} : page'[u] = page[u] /\ calls'[u] = calls[u] /\ crossed'[u] = crossed[u] /\ heard'[u] = heard[u]
  PROVE  IInv'
<1>1. Grows /\ StoreInv'
  BY SameServerGrows DEF IInv, StoreInv, Public, server
<1> QED
  BY <1>1, StepKeeps

\* The calls of a tab that stay what they were, under an unchanged page.
LEMMA OldCallsKept ==
  ASSUME IInv, TypeOK', Grows, StoreInv', NEW t \in Tabs, NEW c \in calls[t],
         page'[t].form = page[t].form, page'[t].label = page[t].label, crossed'[t] = crossed[t]
  PROVE  CallOK(c)' /\ SpeakOK(t, c)'
<1>1. TypeOK /\ CallOK(c) /\ SpeakOK(t, c)
  BY DEF IInv, TabOK
<1> QED
  BY <1>1, CallKept, SpeakKept

LEMMA InitInv == Init => IInv
<1> SUFFICES ASSUME Init PROVE IInv
  OBVIOUS
<1> USE BrandAssumption DEF Init, Contents, Stored
<1>1. TypeOK
  BY DEF TypeOK, Page, States
<1>2. StoreInv /\ \A t \in Tabs : TabOK(t)
  BY DEF StoreInv, TabOK, CleanOK, OneOf, Public
<1> QED
  BY <1>1, <1>2 DEF IInv

-----------------------------------------------------------------------------
(* Steps that store nothing. *)

\* Such a step gives tab t the page p, the calls cs and the marks x and y.
LEMMA TabStep ==
  ASSUME IInv, UNCHANGED server, NEW t \in Tabs,
         NEW p \in Page, p.label <= Len(versions), page' = [page EXCEPT ![t] = p],
         NEW cs \in SUBSET Call, \A c \in cs : c.ver <= Len(versions) /\ c.seen <= Len(stored), calls' = [calls EXCEPT ![t] = cs],
         NEW x \in BOOLEAN, crossed' = [crossed EXCEPT ![t] = x],
         NEW y \in DOMAIN stored, heard' = [heard EXCEPT ![t] = y],
         edits' \in Contents, started' \in 0 .. MaxCalls,
         CleanOK(t)', \A c \in cs \ calls[t] : CallOK(c)', \A c \in cs : SpeakOK(t, c)', OneOf(cs)
  PROVE  IInv'
<1>1. TypeOK /\ UNCHANGED <<live, versions, draft, stored>>
  BY DEF IInv, server
<1>2. /\ page'[t] = p /\ calls'[t] = cs /\ crossed'[t] = x /\ heard'[t] = y
      /\ \A u \in Tabs \ {t} : page'[u] = page[u] /\ calls'[u] = calls[u] /\ crossed'[u] = crossed[u] /\ heard'[u] = heard[u]
  BY <1>1 DEF TypeOK
<1>3. /\ page' \in [Tabs -> Page] /\ calls' \in [Tabs -> SUBSET Call] /\ crossed' \in [Tabs -> BOOLEAN]
      /\ heard' \in [Tabs -> DOMAIN stored']
  BY <1>1 DEF TypeOK
<1>4. p.label \in Nat /\ \A c \in cs : c.ver \in Nat /\ c.seen \in Nat
  BY DEF Page, Call
<1>5. Len(versions) \in Nat /\ Len(stored) \in Nat
  BY <1>1 DEF TypeOK
<1>6. \A u \in Tabs : /\ page'[u].label \in 0 .. Len(versions')
                      /\ \A c \in calls'[u] : c.ver \in 0 .. Len(versions') /\ c.seen \in 0 .. Len(stored')
  <2> SUFFICES ASSUME NEW u \in Tabs
               PROVE  /\ page'[u].label \in 0 .. Len(versions')
                      /\ \A c \in calls'[u] : c.ver \in 0 .. Len(versions') /\ c.seen \in 0 .. Len(stored')
    OBVIOUS
  <2>1. CASE u = t
    BY <1>1, <1>2, <1>4, <1>5, <2>1
  <2>2. CASE u # t
    BY <1>1, <1>2, <2>2 DEF TypeOK
  <2> QED
    BY <2>1, <2>2
<1>7. TypeOK'
  BY <1>1, <1>3, <1>6 DEF TypeOK
<1>8. \A c \in calls[t] : CallOK(c)'
  <2> TAKE c \in calls[t]
  <2>1. CallOK(c)
    BY DEF IInv, TabOK
  <2> QED
    BY <1>1, <2>1 DEF CallOK, Since, Public
<1>9. TabOK(t)'
  BY <1>2, <1>8 DEF TabOK, OneOf, Publishing
<1> QED
  BY <1>2, <1>7, <1>9, QuietStep

\* What is known of a tab before the step.
LEMMA TabFacts ==
  ASSUME IInv, NEW t \in Tabs
  PROVE  /\ TypeOK /\ page[t] \in Page /\ page[t].label <= Len(versions) /\ Len(versions) \in Nat
         /\ calls[t] \in SUBSET Call /\ \A c \in calls[t] : c.ver <= Len(versions) /\ c.seen <= Len(stored)
         /\ crossed[t] \in BOOLEAN /\ edits \in Contents /\ started \in 0 .. MaxCalls
         /\ page = [page EXCEPT ![t] = page[t]] /\ calls = [calls EXCEPT ![t] = calls[t]]
         /\ crossed = [crossed EXCEPT ![t] = crossed[t]]
         /\ heard[t] \in DOMAIN stored /\ heard = [heard EXCEPT ![t] = heard[t]]
         /\ CleanOK(t) /\ OneOf(calls[t]) /\ \A c \in calls[t] : CallOK(c) /\ SpeakOK(t, c)
<1>1. TypeOK /\ TabOK(t)
  BY DEF IInv
<1>2. \A c \in calls[t] : c.ver \in 0 .. Len(versions) /\ c.seen \in 0 .. Len(stored)
  BY <1>1 DEF TypeOK
<1>3. page[t].label \in 0 .. Len(versions) /\ Len(versions) \in Nat
  BY <1>1 DEF TypeOK
<1>4. /\ page[t] \in Page /\ calls[t] \in SUBSET Call /\ crossed[t] \in BOOLEAN
      /\ page = [page EXCEPT ![t] = page[t]] /\ calls = [calls EXCEPT ![t] = calls[t]]
      /\ crossed = [crossed EXCEPT ![t] = crossed[t]]
      /\ heard[t] \in DOMAIN stored /\ heard = [heard EXCEPT ![t] = heard[t]]
  BY <1>1 DEF TypeOK
<1> QED
  BY <1>1, <1>2, <1>3, <1>4 DEF TabOK, TypeOK

\* A call is sent; the page shows the same.
LEMMA StartKeeps ==
  ASSUME IInv, NEW t \in Tabs, NEW op \in Kinds, NEW content \in Contents, NEW ver \in 0 .. Len(versions),
         Start(t, op, content, ver), UNCHANGED <<server, edits, heard>>,
         NEW p \in Page, page' = [page EXCEPT ![t] = p],
         p.form = page[t].form, p.label = page[t].label, p.state = page[t].state, p.dirty = page[t].dirty,
         NEW x \in BOOLEAN, crossed' = [crossed EXCEPT ![t] = x], crossed[t] => x,
         op = "save" => content = page[t].form, op = "publish" => ~UnderWay(t, "publish"),
         op = "recheck" /\ ~x => ~page[t].dirty /\ page[t].state = "pending"
  PROVE  IInv'
<1>1. PICK i \in 1 .. MaxCalls :
        calls' = [calls EXCEPT ![t] = calls[t] \cup {[op |-> op, n |-> i, at |-> "sent", content |-> content,
                    ver |-> ver, row |-> None, workspace |-> Unread, seen |-> 0]}]
  BY DEF Start, Free
<1> DEFINE new == [op |-> op, n |-> i, at |-> "sent", content |-> content, ver |-> ver,
                   row |-> None, workspace |-> Unread, seen |-> 0]
           cs == calls[t] \cup {new}
<1>2. started' \in 0 .. MaxCalls /\ edits' \in Contents
  BY BrandAssumption, TabFacts DEF Start
<1>3. new \in Call /\ cs \in SUBSET Call /\ \A c \in cs : c.ver <= Len(versions) /\ c.seen <= Len(stored)
  <2>1. new \in Call
    BY DEF Call, Stages, Stored
  <2>2. ver <= Len(versions) /\ 0 <= Len(stored)
    BY TabFacts DEF TypeOK
  <2> QED
    BY <2>1, <2>2, TabFacts
<1>4. UNCHANGED <<live, versions, draft, stored>>
  BY DEF server
<1>5. page'[t] = p /\ crossed'[t] = x /\ heard' = heard
  BY TabFacts DEF TypeOK
<1>6. CleanOK(t)'
  BY <1>4, <1>5, TabFacts DEF CleanOK, Since, Public
<1>7. CallOK(new)' /\ SpeakOK(t, new)'
  BY <1>4, <1>5, TabFacts DEF CallOK, SpeakOK, CleanOK, Since, Public
<1>8. ASSUME NEW c \in calls[t] PROVE SpeakOK(t, c)'
  <2>1. SpeakOK(t, c)
    BY TabFacts
  <2> QED
    BY <1>4, <1>5, <2>1, TabFacts DEF SpeakOK, Since, Public
<1>9. p.label <= Len(versions) /\ heard[t] \in DOMAIN stored /\ heard' = [heard EXCEPT ![t] = heard[t]]
  BY TabFacts
<1>10. OneOf(cs)
  BY TabFacts DEF OneOf, Publishing, UnderWay
<1> HIDE DEF new
<1> QED
  BY <1>1, <1>2, <1>3, <1>6, <1>7, <1>8, <1>9, <1>10, TabStep DEF new

\* A call ends, or none does, and what it says goes for the calls that stay.
LEMMA EndKeeps ==
  ASSUME IInv, UNCHANGED <<server, started>>, NEW t \in Tabs,
         NEW cs \in SUBSET calls[t], calls' = [calls EXCEPT ![t] = cs],
         NEW p \in Page, p.label <= Len(versions), page' = [page EXCEPT ![t] = p],
         NEW x \in BOOLEAN, crossed' = [crossed EXCEPT ![t] = x], edits' \in Contents,
         NEW y \in DOMAIN stored, heard' = [heard EXCEPT ![t] = y],
         CleanOK(t)', \A c \in cs : SpeakOK(t, c)'
  PROVE  IInv'
<1>1. cs \in SUBSET Call /\ \A c \in cs : c.ver <= Len(versions) /\ c.seen <= Len(stored)
  BY TabFacts
<1>2. started' \in 0 .. MaxCalls /\ OneOf(cs)
  BY TabFacts DEF OneOf
<1> QED
  BY <1>1, <1>2, TabStep

\* The calls that stay, when the form does.
LEMMA SameForm ==
  ASSUME IInv, UNCHANGED server, NEW t \in Tabs, NEW p \in Page, page' = [page EXCEPT ![t] = p],
         p.form = page[t].form, p.label \in {0, page[t].label},
         UNCHANGED crossed
  PROVE  \A c \in calls[t] : SpeakOK(t, c)'
<1> TAKE c \in calls[t]
<1>1. UNCHANGED <<live, versions, draft, stored>> /\ page'[t] = p /\ crossed'[t] = crossed[t]
  BY TabFacts DEF TypeOK, server
<1>2. SpeakOK(t, c)
  BY TabFacts
<1> QED
  BY <1>1, <1>2 DEF SpeakOK, Since, Public

\* The calls that stay when the form does not: the mark is put if one of them will speak of it.
LEMMA NewForm ==
  ASSUME IInv, NEW t \in Tabs, crossed' = [crossed EXCEPT ![t] = Speaking(t) # {}]
  PROVE  \A c \in calls[t] : SpeakOK(t, c)'
<1> TAKE c \in calls[t]
<1>1. crossed'[t] = (Speaking(t) # {})
  BY TabFacts DEF TypeOK
<1>2. c.op \in {"save", "publish", "recheck"} /\ c.at # "adrift" => c \in Speaking(t)
  BY DEF Speaking
<1>3. CallOK(c)
  BY TabFacts
<1> QED
  BY <1>1, <1>2, <1>3 DEF SpeakOK, CallOK

-----------------------------------------------------------------------------
(* The person at the editor. *)

LEMMA ChangeKeeps ==
  ASSUME IInv, NEW t \in Tabs, Change(t), UNCHANGED <<server, started>>,
         NEW cs \in SUBSET calls[t], calls' = [calls EXCEPT ![t] = cs]
  PROVE  IInv'
<1> DEFINE p == [page[t] EXCEPT !.form = edits', !.dirty = TRUE]
<1>1. edits' \in Contents
  BY BrandAssumption, TabFacts DEF Change, Contents
<1>2. p \in Page /\ p.label <= Len(versions) /\ page' = [page EXCEPT ![t] = p]
  BY <1>1, TabFacts DEF Page, Change, Say
<1>3. CleanOK(t)'
  BY <1>2, TabFacts DEF TypeOK, CleanOK
<1>4. \A c \in cs : SpeakOK(t, c)'
  BY NewForm DEF Change
<1>5. heard[t] \in DOMAIN stored /\ heard' = [heard EXCEPT ![t] = heard[t]]
  BY TabFacts DEF Change
<1> QED
  BY <1>1, <1>2, <1>3, <1>4, <1>5, EndKeeps DEF Change

\* A page whose form, label and state stay, or which turns dirty.
LEMMA PageKeeps ==
  ASSUME IInv, UNCHANGED <<server, started, edits, history>>, NEW t \in Tabs,
         NEW cs \in SUBSET calls[t], calls' = [calls EXCEPT ![t] = cs],
         NEW p \in Page, page' = [page EXCEPT ![t] = p],
         p.form = page[t].form, p.label \in {0, page[t].label},
         p.dirty \/ (p.dirty = page[t].dirty /\ p.state = page[t].state)
  PROVE  IInv'
<1>1. UNCHANGED <<live, versions, draft, stored, heard>> /\ page'[t] = p /\ crossed'[t] = crossed[t]
  BY TabFacts DEF TypeOK, server, history
<1>2. CleanOK(t)'
  BY <1>1, TabFacts DEF CleanOK, Since, Public
<1>3. \A c \in cs : SpeakOK(t, c)'
  BY SameForm DEF history
<1>4. /\ p.label <= Len(versions) /\ edits' \in Contents
      /\ crossed[t] \in BOOLEAN /\ crossed' = [crossed EXCEPT ![t] = crossed[t]]
      /\ heard[t] \in DOMAIN stored /\ heard' = [heard EXCEPT ![t] = heard[t]]
  <2>1. page[t].label <= Len(versions) /\ 0 <= Len(versions)
    BY TabFacts
  <2>2. p.label <= Len(versions)
    BY <2>1
  <2> QED
    BY <2>2, TabFacts DEF history
<1> QED
  BY <1>2, <1>3, <1>4, EndKeeps

LEMMA OwnerKeeps ==
  ASSUME IInv, NEW t \in Tabs, Owner(t)
  PROVE  IInv'
<1>0. TypeOK /\ page[t].form \in Contents /\ page[t].label \in 0 .. Len(versions) /\ 0 \in Contents
  BY BrandAssumption, TabFacts DEF TypeOK, Page, Contents
<1>1. CASE Type(t)
  BY <1>1, ChangeKeeps, TabFacts DEF Type
<1>2. ASSUME NEW op \in Kinds, NEW content \in Contents, NEW ver \in 0 .. Len(versions),
             Start(t, op, content, ver), UNCHANGED <<server, page, edits, history>>,
             op # "recheck", op = "save" => content = page[t].form,
             op = "publish" => ~UnderWay(t, "publish")
      PROVE  IInv'
  <2>1. /\ page[t] \in Page /\ page' = [page EXCEPT ![t] = page[t]] /\ heard' = heard
        /\ crossed[t] \in BOOLEAN /\ crossed' = [crossed EXCEPT ![t] = crossed[t]]
    BY <1>2, TabFacts DEF history
  <2> QED
    BY <1>2, <2>1, StartKeeps
<1>3. 0 \in 0 .. Len(versions)
  BY TabFacts
<1>4. CASE Save(t)
  BY <1>0, <1>2, <1>3, <1>4 DEF Save, Press, Kinds
<1>5. CASE Publish(t)
  BY <1>0, <1>2, <1>3, <1>5 DEF Publish, Press, Kinds
<1>6. CASE PublishIncomplete(t)
  <2> DEFINE p == Failed(page[t])
  <2>1. p \in Page /\ page' = [page EXCEPT ![t] = p]
    BY <1>6, TabFacts DEF PublishIncomplete, Say, Failed, Page, States
  <2>2. p.form = page[t].form /\ p.label = 0 /\ p.dirty
    BY TabFacts DEF Failed, Page
  <2> HIDE DEF p
  <2>3. calls' = [calls EXCEPT ![t] = calls[t]]
    BY <1>6, TabFacts DEF PublishIncomplete
  <2>4. p.label \in {0, page[t].label} /\ calls[t] \in SUBSET calls[t]
    BY <2>2
  <2>5. UNCHANGED <<server, started, edits, history>>
    BY <1>6 DEF PublishIncomplete
  <2> QED
    BY <2>1, <2>2, <2>3, <2>4, <2>5, PageKeeps
<1>7. CASE Recheck(t)
  <2> DEFINE x == crossed[t] \/ page[t].dirty
  <2>1. x \in BOOLEAN /\ crossed' = [crossed EXCEPT ![t] = x]
    BY <1>7, TabFacts DEF Recheck, Page
  <2>2. page' = [page EXCEPT ![t] = page[t]] /\ page[t] \in Page
    BY <1>7, TabFacts DEF Recheck
  <2>3. Start(t, "recheck", 0, page[t].label) /\ UNCHANGED <<server, edits, heard>> /\ page[t].state = "pending"
    BY <1>7 DEF Recheck, Press
  <2>4. (crossed[t] => x) /\ (~x => ~page[t].dirty)
    BY TabFacts
  <2> HIDE DEF x
  <2> QED
    BY <1>0, <2>1, <2>2, <2>3, <2>4, StartKeeps DEF Kinds
<1>8. CASE Refresh(t)
  BY <1>0, <1>2, <1>3, <1>8 DEF Refresh, Press, Kinds
<1>9. CASE Upload(t)
  BY <1>0, <1>2, <1>3, <1>9 DEF Upload, Kinds
<1>10. CASE SignOut(t)
  <2> DEFINE p == Out(page[t])
  <2>1. p \in Page /\ page' = [page EXCEPT ![t] = p]
    BY <1>10, TabFacts DEF SignOut, Say, Out, Page
  <2>2. p.form = page[t].form /\ p.label = page[t].label /\ p.dirty = page[t].dirty /\ p.state = page[t].state
    BY TabFacts DEF Out, Page
  <2> HIDE DEF p
  <2>3. calls' = [calls EXCEPT ![t] = calls[t]] /\ UNCHANGED <<server, started, edits, history>>
    BY <1>10, TabFacts DEF SignOut
  <2>4. p.label \in {0, page[t].label} /\ calls[t] \in SUBSET calls[t]
    BY <2>2
  <2> QED
    BY <2>1, <2>2, <2>3, <2>4, PageKeeps
<1>11. CASE SignIn(t)
  <2> DEFINE p == [page[t] EXCEPT !.signed = TRUE]
  <2>1. p \in Page /\ page' = [page EXCEPT ![t] = p]
    BY <1>11, TabFacts DEF SignIn, Say, Page
  <2>2. p.form = page[t].form /\ p.label = page[t].label /\ p.dirty = page[t].dirty /\ p.state = page[t].state
    BY TabFacts DEF Page
  <2> HIDE DEF p
  <2>3. /\ Start(t, "refresh", 0, 0) /\ UNCHANGED <<server, edits, heard>>
        /\ crossed' = [crossed EXCEPT ![t] = crossed[t]]
    BY <1>11, TabFacts DEF SignIn, history
  <2>4. crossed[t] \in BOOLEAN
    BY TabFacts
  <2> QED
    BY <1>0, <1>3, <2>1, <2>2, <2>3, <2>4, StartKeeps DEF Kinds
<1>12. ASSUME NEW v \in DOMAIN versions, Restore(t, v)
       PROVE  IInv'
  <2>1. versions[v] \in Contents
    BY <1>0 DEF TypeOK
  <2> QED
    BY <1>2, <1>3, <1>12, <2>1 DEF Restore, Kinds
<1> QED
  BY <1>1, <1>4, <1>5, <1>6, <1>7, <1>8, <1>9, <1>10, <1>11, <1>12 DEF Owner

-----------------------------------------------------------------------------
(* The server. *)

\* A step of the server changes one call.
LEMMA CallStep ==
  ASSUME IInv, NEW t \in Tabs, NEW c \in calls[t], NEW d \in Call, d.ver <= Len(versions), d.seen <= Len(stored),
         UNCHANGED <<server, page, started, edits, history>>, Replace(t, c, {d}),
         CallOK(d), SpeakOK(t, d), Publishing(d) => Publishing(c)
  PROVE  IInv'
<1> DEFINE cs == (calls[t] \ {c}) \cup {d}
<1>1. cs \in SUBSET Call /\ (\A e \in cs : e.ver <= Len(versions) /\ e.seen <= Len(stored)) /\ calls' = [calls EXCEPT ![t] = cs]
  BY TabFacts DEF Replace
<1>2. UNCHANGED <<live, versions, draft, stored, crossed, heard>>
  BY DEF server, history
<1>3. CleanOK(t)' /\ CallOK(d)' /\ SpeakOK(t, d)'
  BY <1>2, TabFacts DEF CleanOK, CallOK, SpeakOK, Since, Public
<1>4. page[t] \in Page /\ page' = [page EXCEPT ![t] = page[t]] /\ page[t].label \in {0, page[t].label}
  BY TabFacts
<1>5. \A e \in calls[t] : SpeakOK(t, e)'
  BY <1>2, <1>4, SameForm
<1>6. /\ crossed[t] \in BOOLEAN /\ crossed' = [crossed EXCEPT ![t] = crossed[t]]
      /\ heard[t] \in DOMAIN stored /\ heard' = [heard EXCEPT ![t] = heard[t]]
      /\ page[t].label <= Len(versions) /\ edits' \in Contents /\ started' \in 0 .. MaxCalls
  BY <1>2, TabFacts
<1>7. OneOf(cs)
  BY TabFacts DEF OneOf
<1> QED
  BY <1>1, <1>3, <1>4, <1>5, <1>6, <1>7, TabStep

\* A step of the server that stores: the call d stays of the call c, or nothing.
LEMMA StoreStep ==
  ASSUME IInv, NEW t \in Tabs, NEW c \in calls[t], NEW new \in SUBSET Call, Replace(t, c, new),
         UNCHANGED <<page, started, edits, history>>, Grows, StoreInv',
         live' \in Contents, versions' \in Seq(Contents), draft' \in Stored, stored' \in Seq(Contents),
         \A d \in new : d.ver <= Len(versions') /\ d.seen <= Len(stored') /\ CallOK(d)' /\ SpeakOK(t, d)',
         OneOf(new), \A d \in new : Publishing(d) => Publishing(c)
  PROVE  IInv'
<1> DEFINE cs == (calls[t] \ {c}) \cup new
<1>0. UNCHANGED <<crossed, heard>>
  BY DEF history
<1>1. /\ TypeOK /\ cs \in SUBSET Call /\ Len(versions') \in Nat /\ Len(versions) \in Nat
      /\ Len(stored') \in Nat /\ Len(stored) \in Nat
  BY TabFacts DEF TypeOK
<1>2. /\ calls'[t] = cs /\ calls' \in [Tabs -> SUBSET Call]
      /\ \A u \in Tabs \ {t} : calls'[u] = calls[u]
  BY <1>1 DEF Replace, TypeOK
<1>3. \A d \in new : d.ver \in 0 .. Len(versions') /\ d.seen \in 0 .. Len(stored')
  BY <1>1 DEF Call
<1>4. \A u \in Tabs : /\ page'[u].label \in 0 .. Len(versions')
                      /\ \A d \in calls'[u] : d.ver \in 0 .. Len(versions') /\ d.seen \in 0 .. Len(stored')
  <2> TAKE u \in Tabs
  <2>1. /\ page[u].label \in 0 .. Len(versions)
        /\ \A d \in calls[u] : d.ver \in 0 .. Len(versions) /\ d.seen \in 0 .. Len(stored)
    BY <1>1 DEF TypeOK
  <2>2. 0 .. Len(versions) \subseteq 0 .. Len(versions') /\ 0 .. Len(stored) \subseteq 0 .. Len(stored')
    BY <1>1 DEF Grows
  <2>3. \A d \in calls'[u] : d \in calls[u] \/ d \in new
    BY <1>2
  <2> QED
    BY <1>3, <2>1, <2>2, <2>3
<1>5. TypeOK'
  <2>1. heard' \in [Tabs -> DOMAIN stored']
    BY <1>0, <1>1 DEF TypeOK, Grows
  <2> QED
    BY <1>0, <1>1, <1>2, <1>4, <2>1 DEF TypeOK
<1>6. CleanOK(t)'
  BY <1>0, <1>1, <1>5, TabFacts, CleanKept
<1>7. \A d \in calls[t] : CallOK(d)' /\ SpeakOK(t, d)'
  BY <1>0, <1>5, OldCallsKept
<1>8. OneOf(cs)
  BY TabFacts DEF OneOf
<1>9. TabOK(t)'
  BY <1>2, <1>6, <1>7, <1>8 DEF TabOK, OneOf, Publishing
<1> QED
  BY <1>0, <1>2, <1>5, <1>9, StepKeeps

LEMMA StoreDraftKeeps ==
  ASSUME IInv, NEW t \in Tabs, NEW c \in calls[t], StoreDraft(t, c)
  PROVE  IInv'
<1>1. TypeOK /\ StoreInv /\ c \in Call /\ c.ver <= Len(versions) /\ CallOK(c) /\ SpeakOK(t, c)
  BY TabFacts DEF IInv
<1>0. /\ Len(stored) \in Nat /\ stored' = Append(stored, c.content) /\ c.content \in Contents
      /\ stored' \in Seq(Contents) /\ Len(stored') = Len(stored) + 1 /\ stored'[Len(stored')] = c.content
      /\ Len(stored') \in Nat /\ Len(stored') > 0
      /\ \A k \in 1 .. Len(stored) : stored'[k] = stored[k]
  BY <1>1 DEF StoreDraft, TypeOK, Call
<1>2. PICK d \in Call :
        /\ d = [c EXCEPT !.at = IF c.op = "publish" THEN "patch" ELSE "done", !.seen = Len(stored')]
        /\ d.ver = c.ver /\ d.row = c.row /\ d.workspace = c.workspace /\ d.seen = Len(stored')
        /\ d.content = c.content /\ d.op = c.op /\ d.at = IF c.op = "publish" THEN "patch" ELSE "done"
  <2> DEFINE e == [c EXCEPT !.at = IF c.op = "publish" THEN "patch" ELSE "done", !.seen = Len(stored')]
  <2>1. /\ e.ver = c.ver /\ e.row = c.row /\ e.workspace = c.workspace /\ e.seen = Len(stored')
        /\ e.content = c.content /\ e.op = c.op /\ e.at = IF c.op = "publish" THEN "patch" ELSE "done"
    BY <1>1 DEF Call
  <2>2. e \in Call
    BY <1>0, <1>1 DEF Call, Stages
  <2> QED
    BY <2>1, <2>2
<1>3. PICK new \in {{}, {d}} : Replace(t, c, new) /\ (c.at = "adrift" => new = {})
  BY <1>2 DEF StoreDraft
<1>4. /\ UNCHANGED <<live, versions, page, started, edits, history>>
      /\ draft' = c.content
      /\ c.op \in {"save", "publish", "restore"}
  BY DEF StoreDraft
<1>5. Grows /\ StoreInv'
  BY <1>0, <1>1, <1>4 DEF TypeOK, Grows, StoreInv, Public
<1>6. CallOK(d)'
  BY <1>0, <1>1, <1>2, <1>4 DEF CallOK, Public, Since
<1>7. new = {d} => SpeakOK(t, d)'
  BY <1>1, <1>2, <1>3, <1>4 DEF SpeakOK, Public, Since, history
<1>8. /\ new \in SUBSET Call
      /\ \A e \in new : e.ver <= Len(versions') /\ e.seen <= Len(stored') /\ CallOK(e)' /\ SpeakOK(t, e)'
  <2>1. d.ver <= Len(versions') /\ d.seen <= Len(stored')
    BY <1>0, <1>1, <1>2, <1>4
  <2>2. new \in SUBSET Call /\ \A e \in new : e = d
    BY <1>2, <1>3
  <2> QED
    BY <1>3, <1>6, <1>7, <2>1, <2>2
<1>9. live' \in Contents /\ versions' \in Seq(Contents) /\ draft' \in Stored /\ stored' \in Seq(Contents)
  BY <1>0, <1>1, <1>4 DEF TypeOK, Stored
<1>10. OneOf(new) /\ \A e \in new : Publishing(e) => Publishing(c)
  BY <1>2, <1>3 DEF OneOf, Publishing
<1> QED
  BY <1>3, <1>4, <1>5, <1>8, <1>9, <1>10, StoreStep

LEMMA StoreVersionKeeps ==
  ASSUME IInv, NEW t \in Tabs, NEW c \in calls[t], StoreVersion(t, c)
  PROVE  IInv'
<1>1. TypeOK /\ StoreInv /\ c \in Call /\ c.ver <= Len(versions) /\ CallOK(c) /\ SpeakOK(t, c)
  BY TabFacts DEF IInv
<1>2. /\ UNCHANGED <<page, started, edits, history>>
      /\ live' = c.content /\ versions' = Append(versions, c.content) /\ draft' = None
      /\ stored' = Append(stored, c.content) /\ c.content \in Contents /\ c.op = "publish"
  BY <1>1 DEF StoreVersion, Call
<1>0. /\ stored' \in Seq(Contents) /\ Len(stored) \in Nat /\ Len(stored') = Len(stored) + 1
      /\ stored'[Len(stored')] = c.content /\ Len(stored') \in Nat /\ Len(stored') > 0
      /\ \A k \in 1 .. Len(stored) : stored'[k] = stored[k]
  BY <1>1, <1>2 DEF TypeOK
<1>3. /\ versions' \in Seq(Contents) /\ Len(versions) \in Nat /\ Len(versions') = Len(versions) + 1
      /\ Len(versions') \in Nat /\ versions'[Len(versions')] = c.content
      /\ \A v \in 1 .. Len(versions) : versions'[v] = versions[v]
  BY <1>1, <1>2 DEF TypeOK
<1>4. Grows
  BY <1>0, <1>2, <1>3 DEF Grows
<1>5. Len(versions') \in DOMAIN versions' /\ c.content \in Public'
  BY <1>3 DEF Public
<1>7. StoreInv'
  BY <1>0, <1>2, <1>3, <1>5 DEF StoreInv
<1>8. PICK d \in Call :
        /\ d = [c EXCEPT !.at = "committed", !.ver = Len(versions'), !.seen = Len(stored')]
        /\ d.ver = Len(versions') /\ d.row = c.row /\ d.workspace = c.workspace
        /\ d.content = c.content /\ d.op = c.op /\ d.at = "committed" /\ d.seen = Len(stored')
  <2> DEFINE e == [c EXCEPT !.at = "committed", !.ver = Len(versions'), !.seen = Len(stored')]
  <2>1. /\ e.ver = Len(versions') /\ e.row = c.row /\ e.workspace = c.workspace
        /\ e.content = c.content /\ e.op = c.op /\ e.at = "committed" /\ e.seen = Len(stored')
    BY <1>1 DEF Call
  <2>2. e \in Call
    BY <1>0, <1>1, <1>3 DEF Call, Stages
  <2> QED
    BY <2>1, <2>2
<1>9. Public \subseteq Public'
  BY <1>1, <1>3 DEF Public
<1>10. CallOK(d)'
  BY <1>0, <1>1, <1>2, <1>3, <1>8, <1>9 DEF CallOK, Since
<1>11. SpeakOK(t, d)'
  BY <1>2, <1>8 DEF SpeakOK
<1>12. PICK new \in {{}, {d}} : Replace(t, c, new) /\ (c.at = "adrift" => new = {})
  BY <1>8 DEF StoreVersion
<1>13. /\ new \in SUBSET Call
       /\ \A e \in new : e.ver <= Len(versions') /\ e.seen <= Len(stored') /\ CallOK(e)' /\ SpeakOK(t, e)'
  <2>1. d.ver <= Len(versions') /\ d.seen <= Len(stored')
    BY <1>0, <1>3, <1>8
  <2>2. new \in SUBSET Call /\ \A e \in new : e = d
    BY <1>12
  <2> QED
    BY <1>10, <1>11, <2>1, <2>2
<1>14. live' \in Contents /\ draft' \in Stored /\ stored' \in Seq(Contents)
  BY <1>0, <1>1, <1>2 DEF TypeOK, Stored
<1>15. OneOf(new) /\ \A e \in new : Publishing(e) => Publishing(c)
  BY <1>8, <1>12 DEF OneOf, Publishing
<1> QED
  BY <1>2, <1>3, <1>4, <1>7, <1>12, <1>13, <1>14, <1>15, StoreStep

LEMMA ServerKeeps ==
  ASSUME IInv, NEW t \in Tabs, NEW c \in calls[t], Server(t, c)
  PROVE  IInv'
<1>1. /\ TypeOK /\ StoreInv /\ c \in Call /\ c.ver <= Len(versions) /\ c.seen <= Len(stored)
      /\ CallOK(c) /\ SpeakOK(t, c)
  BY TabFacts DEF IInv
<1>2. live \in Contents /\ live \in Public /\ draft \in Stored /\ Len(stored) \in Nat /\ Len(stored) > 0
  BY <1>1, LiveIsPublic DEF TypeOK, StoreInv
<1>3. CASE ReadRow(t, c)
  <2> DEFINE d == [c EXCEPT !.at = "done", !.row = live]
  <2>1. d \in Call /\ d.ver <= Len(versions) /\ d.seen <= Len(stored)
    BY <1>1, <1>2 DEF Call, Stages, Stored
  <2>2. CallOK(d) /\ SpeakOK(t, d) /\ (Publishing(d) => Publishing(c))
    BY <1>1, <1>2, <1>3 DEF ReadRow, Call, CallOK, Publishing, SpeakOK
  <2> HIDE DEF d
  <2>3. Replace(t, c, {d}) /\ UNCHANGED <<server, page, started, edits, history>>
    BY <1>3 DEF ReadRow, Row, d
  <2> QED
    BY <2>1, <2>2, <2>3, CallStep
<1>4. CASE ReadStudio(t, c)
  <2> DEFINE d == [c EXCEPT !.row = live]
  <2>1. d \in Call /\ d.ver <= Len(versions) /\ d.seen <= Len(stored)
    <3>1. live \in Stored
      BY <1>2 DEF Stored
    <3> QED
      BY <1>1, <3>1 DEF Call
  <2>2. CallOK(d) /\ SpeakOK(t, d) /\ (Publishing(d) => Publishing(c))
    BY <1>1, <1>2, <1>4 DEF ReadStudio, Call, CallOK, Publishing, SpeakOK
  <2> HIDE DEF d
  <2>3. Replace(t, c, {d}) /\ UNCHANGED <<server, page, started, edits, history>>
    BY <1>4 DEF ReadStudio, d
  <2> QED
    BY <2>1, <2>2, <2>3, CallStep
<1>5. CASE ReadWorkspace(t, c)
  <2> DEFINE d == [c EXCEPT !.workspace = draft, !.seen = Len(stored)]
  <2>1. d \in Call /\ d.ver <= Len(versions) /\ d.seen <= Len(stored)
    <3>1. draft \in Stored \cup {Unread} /\ Len(stored) \in Nat /\ Len(stored) <= Len(stored)
      BY <1>2
    <3>2. d.ver = c.ver /\ d.seen = Len(stored)
      BY <1>1 DEF Call
    <3>3. d \in Call
      BY <1>1, <3>1 DEF Call
    <3> QED
      BY <1>1, <3>1, <3>2, <3>3
  <2>2. CallOK(d) /\ SpeakOK(t, d) /\ (Publishing(d) => Publishing(c))
    BY <1>1, <1>2, <1>5 DEF ReadWorkspace, Call, CallOK, Publishing, SpeakOK, StoreInv
  <2> HIDE DEF d
  <2>3. Replace(t, c, {d}) /\ UNCHANGED <<server, page, started, edits, history>>
    BY <1>5 DEF ReadWorkspace, d
  <2> QED
    BY <2>1, <2>2, <2>3, CallStep
<1> QED
  BY <1>3, <1>4, <1>5, StoreDraftKeeps, StoreVersionKeeps DEF Server

-----------------------------------------------------------------------------
(* Answers. *)

\* A call ends and the page shows p, which it can vouch for; the form stays.
LEMMA SayKeeps ==
  ASSUME IInv, NEW t \in Tabs, NEW c \in calls[t], Replace(t, c, {}),
         UNCHANGED <<server, started, edits, crossed>>,
         NEW y \in DOMAIN stored, heard' = [heard EXCEPT ![t] = y],
         NEW p \in Page, p.label <= Len(versions), page' = [page EXCEPT ![t] = p],
         p.form = page[t].form,
         ~crossed[t] => /\ p.form \in Public \cup {stored[y]}
                        /\ p.state # "draft" => p.form \in Public
                        /\ p.label > 0 => Since(p.label, p.form)
  PROVE  IInv'
<1>1. UNCHANGED <<live, versions, draft, stored>> /\ page'[t] = p /\ crossed'[t] = crossed[t] /\ heard'[t] = y
  BY TabFacts DEF TypeOK, server
<1>2. CleanOK(t)'
  BY <1>1 DEF CleanOK, Since, Public
<1>3. ASSUME NEW e \in calls[t] PROVE SpeakOK(t, e)'
  <2>1. SpeakOK(t, e)
    BY TabFacts
  <2> QED
    BY <1>1, <2>1 DEF SpeakOK, Since, Public
<1>4. calls' = [calls EXCEPT ![t] = calls[t] \ {c}]
  BY DEF Replace
<1>5. crossed[t] \in BOOLEAN /\ crossed' = [crossed EXCEPT ![t] = crossed[t]] /\ edits' \in Contents
  BY TabFacts
<1> QED
  BY <1>2, <1>3, <1>4, <1>5, EndKeeps

\* A call ends and the form is filled with what was stored.
LEMMA FillKeeps ==
  ASSUME IInv, NEW t \in Tabs, NEW c \in calls[t], Replace(t, c, {}), UNCHANGED <<server, started, edits>>,
         NEW p \in Page, page' = [page EXCEPT ![t] = p], p.label = 0,
         NEW y \in DOMAIN stored, heard' = [heard EXCEPT ![t] = y],
         p.form \in Public \cup {stored[y]}, p.state # "draft" => p.form \in Public,
         crossed' = [crossed EXCEPT ![t] = Speaking(t) # {}]
  PROVE  IInv'
<1>1. UNCHANGED <<live, versions, draft, stored>> /\ page'[t] = p /\ heard'[t] = y
  BY TabFacts DEF TypeOK, server
<1>2. CleanOK(t)'
  BY <1>1 DEF CleanOK, Since, Public
<1>3. \A e \in calls[t] : SpeakOK(t, e)'
  BY NewForm
<1>4. calls' = [calls EXCEPT ![t] = calls[t] \ {c}] /\ p.label <= Len(versions) /\ edits' \in Contents
  BY TabFacts DEF Replace
<1> QED
  BY <1>2, <1>3, <1>4, EndKeeps

LEMMA PublishArrivesKeeps ==
  ASSUME IInv, NEW t \in Tabs, NEW c \in calls[t], PublishArrives(t, c)
  PROVE  IInv'
<1>1. TypeOK /\ StoreInv /\ c \in Call /\ c.ver <= Len(versions) /\ CallOK(c) /\ page[t] \in Page
  BY TabFacts DEF IInv
<1>2. c.op = "publish" /\ c.at = "done" /\ UNCHANGED <<live, versions, draft, stored, started, edits>>
  BY DEF PublishArrives, server
<1>3. c.ver \in Nat /\ c.ver > 0 /\ Since(c.ver, c.row)
  BY <1>1, <1>2 DEF CallOK, Call
<1>4. c.row \in Public
  BY <1>1, <1>3, SinceIsPublic
<1>5. c.row \in Contents /\ c.content \in Stored /\ c.seen \in DOMAIN stored
  <2>1. c.seen \in 1 .. Len(stored)
    BY <1>1, <1>2, TabFacts DEF CallOK, Call, TypeOK
  <2>2. Public \subseteq Contents
    BY <1>1, BrandAssumption DEF Public, TypeOK, Contents
  <2> QED
    BY <1>1, <1>4, <2>1, <2>2 DEF TypeOK, Call, Stored
<1> DEFINE d == [c EXCEPT !.at = "verify"]
           p == Published(page[t], c)
           cs == (calls[t] \ {c}) \cup {d}
<1>6. /\ d \in Call /\ d.ver = c.ver /\ d.row = c.row /\ d.workspace = c.workspace
      /\ d.op = c.op /\ d.at = "verify" /\ d.content = c.content /\ d.seen = c.seen
  BY <1>1 DEF Call, Stages
<1>7. p \in Page /\ p.form = c.row /\ p.label = c.ver
  BY <1>1, <1>3, <1>5 DEF Published, Filled, Page, States
<1>8. page' = [page EXCEPT ![t] = p] /\ calls' = [calls EXCEPT ![t] = cs]
  BY DEF PublishArrives, Say, Replace
<1> HIDE DEF d, p
<1>9. page'[t] = p /\ crossed' = [crossed EXCEPT ![t] = FALSE] /\ heard' = [heard EXCEPT ![t] = c.seen]
  BY <1>1, <1>8 DEF PublishArrives, Hear, TypeOK
<1>10. CleanOK(t)'
  BY <1>2, <1>3, <1>4, <1>5, <1>7, <1>9 DEF CleanOK, Since, Public
<1>11. CallOK(d)'
  BY <1>1, <1>2, <1>6 DEF CallOK, Since, Public
<1>12. SpeakOK(t, d)'
  BY <1>2, <1>3, <1>6, <1>7, <1>9 DEF SpeakOK, Since
<1>13. ASSUME NEW e \in calls[t], e # c PROVE SpeakOK(t, e)'
  <2>1. e.op = "publish" => e.at # "verify"
    BY <1>2, <1>13, TabFacts DEF OneOf, Publishing
  <2> QED
    BY <1>2, <1>3, <1>4, <1>5, <1>7, <1>9, <2>1 DEF SpeakOK, Since, Public
<1>14. cs \in SUBSET Call /\ (\A e \in cs : e.ver <= Len(versions) /\ e.seen <= Len(stored)) /\ p.label <= Len(versions)
  BY <1>1, <1>6, <1>7, TabFacts
<1>15. UNCHANGED server /\ edits' \in Contents /\ started' \in 0 .. MaxCalls /\ FALSE \in BOOLEAN
  BY <1>2, TabFacts DEF server
<1>16. OneOf(cs)
  BY <1>2, <1>6, TabFacts DEF OneOf, Publishing
<1> QED
  BY <1>5, <1>7, <1>8, <1>9, <1>10, <1>11, <1>12, <1>13, <1>14, <1>15, <1>16, TabStep

LEMMA CallFailsKeeps ==
  ASSUME IInv, NEW t \in Tabs, NEW c \in calls[t], CallFails(t, c)
  PROVE  IInv'
<1>1. TypeOK /\ StoreInv /\ c \in Call /\ c.ver <= Len(versions) /\ CallOK(c) /\ page[t] \in Page
  BY TabFacts DEF IInv
<1>2. /\ UNCHANGED <<server, started, edits, history>> /\ c.op \in {"save", "publish", "restore", "upload"}
      /\ UNCHANGED <<live, versions, draft, stored, crossed, heard>>
  BY DEF CallFails, server, history
<1>3. PICK p \in Page : /\ page' = [page EXCEPT ![t] = p] /\ p.form = page[t].form
                        /\ p.label \in {0, page[t].label} /\ (p.dirty \/ p = page[t])
  <2>1. CASE c.op = "publish"
    <3> DEFINE q == Failed(page[t])
    <3>1. q \in Page /\ q.form = page[t].form /\ q.label = 0 /\ q.dirty
      BY <1>1 DEF Failed, Page, States
    <3>2. page' = [page EXCEPT ![t] = q]
      BY <2>1 DEF CallFails, Say
    <3> QED
      BY <3>1, <3>2
  <2>2. CASE c.op # "publish"
    BY <1>1, <2>2, TabFacts DEF CallFails
  <2> QED
    BY <2>1, <2>2
<1> DEFINE d == [c EXCEPT !.at = "adrift", !.row = IF c.at = "patch" THEN 0 ELSE None]
<1>4. /\ d.ver = c.ver /\ d.workspace = c.workspace /\ d.op = c.op /\ d.at = "adrift" /\ d.seen = c.seen
      /\ d.row \in {0, None} /\ d.content = c.content
  BY <1>1 DEF Call
<1>5. d \in Call
  <2>1. 0 \in Contents
    BY BrandAssumption DEF Contents
  <2>2. (IF c.at = "patch" THEN 0 ELSE None) \in Stored
    BY <2>1 DEF Stored
  <2> QED
    BY <1>1, <2>2 DEF Call, Stages
<1>6. PICK new \in {{}, {d}} : Replace(t, c, new)
  BY DEF CallFails
<1> HIDE DEF d
<1> DEFINE cs == (calls[t] \ {c}) \cup new
<1>7. /\ calls' = [calls EXCEPT ![t] = cs] /\ cs \in SUBSET Call
      /\ \A e \in cs : e.ver <= Len(versions) /\ e.seen <= Len(stored)
  BY <1>1, <1>4, <1>5, <1>6, TabFacts DEF Replace
<1>8. page'[t] = p /\ crossed'[t] = crossed[t]
  BY <1>1, <1>2, <1>3 DEF TypeOK
<1>9. CleanOK(t)'
  <2>1. CleanOK(t)
    BY TabFacts
  <2> QED
    BY <1>1, <1>2, <1>3, <1>8, <2>1 DEF CleanOK, Since, Public
<1>10. CallOK(d)' /\ SpeakOK(t, d)'
  <2>1. 0 \in Public
    BY DEF Public
  <2> QED
    BY <1>1, <1>2, <1>4, <2>1 DEF CallOK, SpeakOK, Since, Public
<1>11. \A e \in calls[t] : SpeakOK(t, e)'
  BY <1>2, <1>3, SameForm
<1>12. OneOf(cs)
  BY <1>4, <1>6, TabFacts DEF OneOf, Publishing
<1>13. /\ crossed[t] \in BOOLEAN /\ crossed' = [crossed EXCEPT ![t] = crossed[t]]
       /\ heard[t] \in DOMAIN stored /\ heard' = [heard EXCEPT ![t] = heard[t]]
       /\ edits' \in Contents /\ started' \in 0 .. MaxCalls
  BY <1>2, TabFacts
<1>14. p.label <= Len(versions)
  <2>1. page[t].label <= Len(versions) /\ 0 <= Len(versions)
    BY TabFacts
  <2> QED
    BY <1>3, <2>1
<1>15. (\A e \in cs \ calls[t] : CallOK(e)') /\ \A e \in cs : SpeakOK(t, e)'
  <2>1. \A e \in cs : e \in calls[t] \/ e = d
    BY <1>6
  <2> QED
    BY <1>10, <1>11, <2>1
<1> HIDE DEF cs
<1> QED
  BY <1>2, <1>3, <1>7, <1>9, <1>12, <1>13, <1>14, <1>15, TabStep

LEMMA AnswerKeeps ==
  ASSUME IInv, NEW t \in Tabs, NEW c \in calls[t], Answer(t, c)
  PROVE  IInv'
<1>0. /\ TypeOK /\ StoreInv /\ c \in Call /\ c.ver <= Len(versions) /\ CallOK(c) /\ SpeakOK(t, c)
      /\ page[t] \in Page /\ page[t].label <= Len(versions) /\ CleanOK(t) /\ Len(versions) \in Nat
      /\ heard[t] \in DOMAIN stored /\ heard = [heard EXCEPT ![t] = heard[t]]
      /\ c.seen > 0 => c.seen \in DOMAIN stored
  BY TabFacts DEF IInv, TypeOK, Call
<1>1. CASE SaveArrives(t, c)
  <2> DEFINE p == Saved(page[t])
  <2>1. p \in Page /\ p.form = page[t].form /\ p.label = 0 /\ p.state = "draft"
    BY <1>0 DEF Saved, Page, States
  <2>2. /\ page' = [page EXCEPT ![t] = p] /\ Replace(t, c, {}) /\ UNCHANGED <<server, started, edits, crossed>>
        /\ heard' = [heard EXCEPT ![t] = c.seen] /\ c.seen \in DOMAIN stored
    BY <1>0, <1>1 DEF SaveArrives, Say, Hear, CallOK
  <2> HIDE DEF p
  <2>3. ~crossed[t] => p.form \in Public \cup {stored[c.seen]}
    BY <1>0, <1>1, <2>1 DEF SaveArrives, CallOK, SpeakOK
  <2>4. p.label <= Len(versions) /\ ~(p.label > 0)
    BY <1>0, <2>1
  <2> QED
    BY <2>1, <2>2, <2>3, <2>4, SayKeeps
<1>2. CASE VerifySucceeds(t, c)
  <2>1. page[t].label \in {0, page[t].label} /\ page' = [page EXCEPT ![t] = page[t]]
    BY <1>2, TabFacts DEF VerifySucceeds
  <2>2. calls' = [calls EXCEPT ![t] = calls[t] \ {c}] /\ UNCHANGED <<server, started, edits, history>>
    BY <1>2 DEF VerifySucceeds, Replace
  <2> QED
    BY <1>0, <2>1, <2>2, PageKeeps
<1>3. CASE VerifyFails(t, c)
  <2> DEFINE p == Unverified(page[t], c.ver)
  <2>1. c.ver \in Nat /\ c.ver > 0 /\ c.op = "publish" /\ c.at = "verify"
    BY <1>0, <1>3 DEF VerifyFails, CallOK, Call
  <2>2. p \in Page /\ p.form = page[t].form /\ p.label = c.ver
    BY <1>0, <2>1 DEF Unverified, Page, States
  <2>3. page' = [page EXCEPT ![t] = p] /\ Replace(t, c, {}) /\ UNCHANGED <<server, started, edits, crossed, heard>>
    BY <1>3 DEF VerifyFails, Say, history
  <2> HIDE DEF p
  <2>4. ~crossed[t] => Since(c.ver, p.form)
    BY <1>0, <2>1, <2>2 DEF SpeakOK
  <2>5. ~crossed[t] => p.form \in Public
    BY <1>0, <2>1, <2>4, SinceIsPublic
  <2>6. ~crossed[t] => (p.label > 0 => Since(p.label, p.form))
    BY <2>2, <2>4
  <2>7. p.label <= Len(versions)
    BY <1>0, <2>2
  <2> QED
    BY <1>0, <2>2, <2>3, <2>5, <2>6, <2>7, SayKeeps
<1>4. ASSUME c.op = "recheck" PROVE
        ~crossed[t] => /\ page[t].form \in Public
                       /\ page[t].label > 0 => Since(page[t].label, page[t].form)
  BY <1>0, <1>4 DEF SpeakOK
<1>5. CASE RecheckSucceeds(t, c)
  <2> DEFINE p == Verified(page[t])
  <2>1. p \in Page /\ p.form = page[t].form /\ p.label = page[t].label
    BY <1>0 DEF Verified, Page, States
  <2>2. /\ page' = [page EXCEPT ![t] = p] /\ Replace(t, c, {}) /\ c.op = "recheck"
        /\ UNCHANGED <<server, started, edits, crossed, heard>>
    BY <1>5 DEF RecheckSucceeds, Say, history
  <2> HIDE DEF p
  <2> QED
    BY <1>0, <1>4, <2>1, <2>2, SayKeeps
<1>6. CASE RecheckFails(t, c)
  <2> DEFINE p == Unverified(page[t], page[t].label)
  <2>1. p \in Page /\ p.form = page[t].form /\ p.label = page[t].label
    BY <1>0 DEF Unverified, Page, States
  <2>2. /\ page' = [page EXCEPT ![t] = p] /\ Replace(t, c, {}) /\ c.op = "recheck"
        /\ UNCHANGED <<server, started, edits, crossed, heard>>
    BY <1>6 DEF RecheckFails, Say, history
  <2> HIDE DEF p
  <2> QED
    BY <1>0, <1>4, <2>1, <2>2, SayKeeps
<1>7. CASE RestoreArrives(t, c)
  <2> DEFINE p == AsDraft(page[t], c.content)
  <2>1. p \in Page /\ p.form = c.content /\ p.label = 0 /\ p.state = "draft"
    BY <1>0 DEF AsDraft, Filled, Page, Call, States
  <2>2. /\ page' = [page EXCEPT ![t] = p] /\ Replace(t, c, {}) /\ UNCHANGED <<server, started, edits>>
        /\ crossed' = [crossed EXCEPT ![t] = Speaking(t) # {}] /\ heard' = [heard EXCEPT ![t] = c.seen]
        /\ c.seen \in DOMAIN stored /\ c.content = stored[c.seen]
    BY <1>0, <1>7 DEF RestoreArrives, Say, Hear, CallOK
  <2> HIDE DEF p
  <2> QED
    BY <2>1, <2>2, FillKeeps
<1>8. CASE RefreshArrives(t, c)
  <2>1. c.row \in Public /\ c.row \in Contents /\ c.seen \in DOMAIN stored
    BY <1>0, <1>8 DEF RefreshArrives, CallOK, Call, Stored
  <2>2. c.workspace # None => c.workspace = stored[c.seen] /\ c.workspace \in Contents
    BY <1>0, <1>8 DEF RefreshArrives, CallOK, TypeOK
  <2>3. PICK p \in Page : /\ page' = [page EXCEPT ![t] = p] /\ p.label = 0 /\ p.form \in Public \cup {stored[c.seen]}
                          /\ (p.state # "draft" => p.form \in Public)
    <3> DEFINE q == [page[t] EXCEPT !.blocked = FALSE]
               f == Filled(q, c.row)
               a == AsDraft(q, c.workspace)
    <3>1. q \in Page
      BY <1>0 DEF Page
    <3>2. f \in Page /\ f.label = 0 /\ f.form = c.row
      BY <2>1, <3>1 DEF Filled, Page, States
    <3>3. c.workspace # None => a \in Page /\ a.label = 0 /\ a.form = c.workspace /\ a.state = "draft"
      BY <2>2, <3>1 DEF AsDraft, Filled, Page, States
    <3>4. page' = [page EXCEPT ![t] = IF c.workspace = None THEN f ELSE a]
      BY <1>8 DEF RefreshArrives, Say
    <3> HIDE DEF f, a
    <3> QED
      BY <2>1, <2>2, <3>2, <3>3, <3>4
  <2>4. /\ Replace(t, c, {}) /\ UNCHANGED <<server, started, edits>>
        /\ crossed' = [crossed EXCEPT ![t] = Speaking(t) # {}] /\ heard' = [heard EXCEPT ![t] = c.seen]
    BY <1>8 DEF RefreshArrives, Hear
  <2> QED
    BY <2>1, <2>3, <2>4, FillKeeps
<1>9. CASE RefreshFails(t, c)
  <2>1. PICK p \in Page : /\ page' = [page EXCEPT ![t] = p] /\ p.form = page[t].form
                          /\ p.label = page[t].label /\ p.dirty = page[t].dirty /\ p.state = page[t].state
    <3> DEFINE b == [page[t] EXCEPT !.blocked = TRUE]
               o == Out(page[t])
    <3>1. /\ b \in Page /\ b.form = page[t].form /\ b.label = page[t].label
          /\ b.dirty = page[t].dirty /\ b.state = page[t].state
      BY <1>0 DEF Page
    <3>2. /\ o \in Page /\ o.form = page[t].form /\ o.label = page[t].label
          /\ o.dirty = page[t].dirty /\ o.state = page[t].state
      BY <1>0 DEF Page, Out
    <3>3. page' = [page EXCEPT ![t] = b] \/ page' = [page EXCEPT ![t] = o]
      BY <1>9 DEF RefreshFails, Say
    <3> QED
      BY <3>1, <3>2, <3>3
  <2>2. calls' = [calls EXCEPT ![t] = calls[t] \ {c}] /\ UNCHANGED <<server, started, edits, history>>
    BY <1>9 DEF RefreshFails, Replace
  <2> QED
    BY <2>1, <2>2, PageKeeps
<1>10. CASE UploadEnds(t, c)
  <2>1. calls' = [calls EXCEPT ![t] = calls[t] \ {c}] /\ UNCHANGED <<server, started>>
    BY <1>10 DEF UploadEnds, Replace
  <2>2. CASE Change(t)
    BY <2>1, <2>2, ChangeKeeps
  <2>3. CASE Say(t, [page[t] EXCEPT !.dirty = TRUE]) /\ UNCHANGED <<edits, history>>
    <3> DEFINE p == [page[t] EXCEPT !.dirty = TRUE]
    <3>1. p \in Page /\ p.form = page[t].form /\ p.label = page[t].label /\ p.dirty
      BY <1>0 DEF Page
    <3>2. page' = [page EXCEPT ![t] = p]
      BY <2>3 DEF Say
    <3> HIDE DEF p
    <3> QED
      BY <2>1, <2>3, <3>1, <3>2, PageKeeps
  <2> QED
    BY <1>10, <2>2, <2>3 DEF UploadEnds
<1> QED
  BY <1>1, <1>2, <1>3, <1>5, <1>6, <1>7, <1>8, <1>9, <1>10,
     PublishArrivesKeeps, CallFailsKeeps DEF Answer

-----------------------------------------------------------------------------
(* The theorems. *)

LEMMA NextInv == IInv /\ [Next]_vars => IInv'
<1> SUFFICES ASSUME IInv, [Next]_vars PROVE IInv'
  OBVIOUS
<1>1. ASSUME NEW t \in Tabs, NEW c \in calls[t], Server(t, c) \/ Answer(t, c)
      PROVE  IInv'
  BY <1>1, ServerKeeps, AnswerKeeps
<1>2. CASE UNCHANGED vars
  BY <1>2 DEF vars, server, history, IInv, TypeOK, StoreInv, TabOK, CleanOK, OneOf, Publishing, CallOK, SpeakOK,
              Since, Public
<1> QED
  BY <1>1, <1>2, OwnerKeeps DEF Next

\* The inductive invariant holds of every behaviour.
THEOREM Invariance == Spec => []IInv
<1> QED
  BY InitInv, NextInv, PTL DEF Spec

\* Every variable keeps its type, whatever the tabs, the edits and the calls.
THEOREM TypeCorrect == Spec => []TypeOK
<1>1. IInv => TypeOK
  BY DEF IInv
<1> QED
  BY <1>1, Invariance, PTL

\* A clean page whose form did not change under a call of its own shows what is public, or what
\* the server stored when the page last heard from it; while nobody has stored anything since, the
\* server has it still (saveDraft, restoreBrandVersion, refresh and the routes they call).
THEOREM CleanIsKept == Spec => []CleanMeansKept
<1>1. IInv => CleanMeansKept
  BY DEF IInv, TabOK, CleanOK, StoreInv, CleanMeansKept
<1> QED
  BY <1>1, Invariance, PTL

\* What a clean page calls published was public, if its form did not change under a call that speaks
\* of it: a fill from a draft or a version is not called published, and a fill from the public row
\* shows what was public, whatever is stored meanwhile (fillSettings, applyDraftToEditor, setPublicationState).
THEOREM PublishedIsPublic == Spec => []PublishedMeansPublic
<1>1. IInv => PublishedMeansPublic
  BY DEF IInv, TabOK, CleanOK, PublishedMeansPublic
<1> QED
  BY <1>1, Invariance, PTL

\* A clean page that names a version shows that version or a later one, under the same proviso
\* (publishSettings, retryPublishVerification).
THEOREM LabelIsItsVersion == Spec => []PageNamesItsVersion
<1>1. IInv => PageNamesItsVersion
  BY DEF IInv, TabOK, CleanOK, Since, PageNamesItsVersion
<1> QED
  BY <1>1, Invariance, PTL
=============================================================================
