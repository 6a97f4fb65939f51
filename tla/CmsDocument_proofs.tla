-------------------------- MODULE CmsDocument_proofs --------------------------
(***************************************************************************)
(* Proofs about CmsDocument, for any tabs, fields and bounds, with or      *)
(* without lost calls.                                                     *)
(*                                                                         *)
(* The argument is about lineage, the edits each edit was made on top of.  *)
(* Of every document that is somewhere on its way, with the revision it    *)
(* would be saved under, the invariant says that the server either has a   *)
(* later revision or has nothing that is not under it (Fresh), as long as  *)
(* the history variable whole says the two belong together.                *)
(***************************************************************************)
EXTENDS CmsDocument, FiniteSetTheorems, TLAPS

Written == 0 .. Len(lineage)
Documents == [Fields -> Written]
Copies == [doc : Documents, gen : Nat, whole : BOOLEAN]

\* Every edit that before holds is an edit of after, or one under it.
Under(before, after) == \A f \in Fields : before[f] \in Below(after[f])

\* What the edits were made on top of: an edit includes itself, and whatever the
\* edits under it were made on.
LineageIsClosed ==
    /\ lineage \in Seq(SUBSET Edits) /\ Len(lineage) <= MaxEdits
    /\ \A e \in Written : e \in Below(e)
    /\ \A e \in Written : \A g \in Below(e) : g \in Written /\ Below(g) \subseteq Below(e)

\* A document with the revision it would be saved under: the server has that
\* revision no more, or the document holds all that the server's does.
Fresh(d, r) == stored # 0 /\ r <= stored /\ (r = stored => Under(doc, d))

ServerTyped == doc \in Documents /\ stored \in Nat

TabsTyped ==
    /\ copy \in [Tabs -> Copies] /\ rev \in [Tabs -> Nat]
    /\ busy \in [Tabs -> BOOLEAN] /\ refresh \in [Tabs -> BOOLEAN]
    /\ asked \in [Tabs -> 0 .. MaxLoads]
    /\ DOMAIN dialog = Tabs /\ DOMAIN loads = Tabs /\ DOMAIN saves = Tabs

\* Each load that a tab has taken in, or may still, was asked for.
LoadsAreCounted ==
    \A t \in Tabs : IsFiniteSet(loads[t]) /\ copy[t].gen + Cardinality(loads[t]) <= asked[t]

GoodLoad(l) ==
    /\ l = [n |-> l.n, at |-> l.at, got |-> l.got, rev |-> l.rev, whole |-> l.whole]
    /\ l.at \in {"asked", "rows", "read"}
    /\ l.at = "rows" => l.got \in [Rows -> Written]
    /\ l.at = "read" => /\ l.got \in Documents /\ l.rev \in Nat /\ l.whole \in BOOLEAN
                        /\ l.whole => Fresh(l.got, l.rev)

\* What a tab holds as whole it has loaded, and could save under its revision.
GoodCopy(t) == copy[t].whole => copy[t].gen > 0 /\ Fresh(copy[t].doc, rev[t])

\* The document a question was asked about is still the tab's, unless a load was
\* taken in since.
GoodDialog(t) ==
    dialog[t] # None =>
      /\ dialog[t].field \in Fields /\ dialog[t].from \in Copies
      /\ dialog[t].from.gen <= copy[t].gen
      /\ dialog[t].from.gen = copy[t].gen => dialog[t].from.doc = copy[t].doc

\* A save on its way is fresh if it is whole; one that was accepted is what the
\* server has, or the server has a later revision; and what a tab has edited since
\* it sent a save lies on top of that save.
GoodSave(t, s) ==
    /\ s = [doc |-> s.doc, rev |-> s.rev, raised |-> s.raised, gen |-> s.gen, whole |-> s.whole,
            at |-> s.at, is |-> s.is, answer |-> s.answer]
    /\ s.at \in {"sent", "adrift", "saved", "read", "refused"}
    /\ s.doc \in Documents /\ s.rev \in Nat /\ s.whole \in BOOLEAN
    /\ s.gen \in Nat /\ s.gen <= copy[t].gen
    /\ s.gen = copy[t].gen /\ copy[t].whole => Under(s.doc, copy[t].doc)
    /\ s.at \in {"sent", "adrift"} /\ s.whole => Fresh(s.doc, s.rev)
    /\ s.at \in {"saved", "read"} =>
         s.is \in Nat /\ s.is # 0 /\ s.is <= stored /\ (s.is = stored => doc = s.doc)
    /\ s.at = "read" => s.answer \in Nat

IInv ==
    /\ ServerTyped /\ LineageIsClosed /\ TabsTyped /\ LoadsAreCounted /\ KeptWhenWhole
    /\ \A t \in Tabs : GoodCopy(t) /\ GoodDialog(t)
    /\ \A t \in Tabs : \A l \in loads[t] : GoodLoad(l)
    /\ \A t \in Tabs : \A s \in saves[t] : GoodSave(t, s)

-----------------------------------------------------------------------------
(* Lineage. *)

LEMMA BelowIsReflexive ==
  ASSUME LineageIsClosed, NEW d \in Documents
  PROVE  Under(d, d)
BY DEF LineageIsClosed, Documents, Under

LEMMA BelowIsTransitive ==
  ASSUME LineageIsClosed, NEW a \in Documents, NEW b \in Documents, NEW c \in Documents,
         Under(a, b), Under(b, c)
  PROVE  Under(a, c)
<1> SUFFICES ASSUME NEW f \in Fields
             PROVE  a[f] \in Below(c[f])
  BY DEF Under
<1>1. a[f] \in Below(b[f]) /\ b[f] \in Below(c[f])
  BY DEF Under
<1>2. c[f] \in Written
  BY DEF Documents
<1> QED
  BY <1>1, <1>2 DEF LineageIsClosed

LEMMA NothingForgotten ==
  \A before, after : Forgotten(before, after) = {} <=> Under(before, after)
BY DEF Forgotten, Under

-----------------------------------------------------------------------------
(* What every step leaves true of documents that it does not touch: edits  *)
(* are only added, and the server's document changes with its revision.    *)

Onwards ==
    /\ Len(lineage) <= Len(lineage')
    /\ \A e \in Written : Below(e)' = Below(e)
    /\ (doc' = doc /\ stored' = stored) \/ stored' > stored

LEMMA MoreIsWritten ==
  ASSUME IInv, Onwards, Len(lineage') \in Nat
  PROVE  /\ Written \subseteq Written'
         /\ Documents \subseteq Documents'
         /\ Copies \subseteq Copies'
         /\ [Rows -> Written] \subseteq [Rows -> Written]'
<1>1. Len(lineage) \in Nat
  BY DEF IInv, LineageIsClosed
<1>2. Written \subseteq Written'
  BY <1>1 DEF Written, Onwards
<1>3. Documents \subseteq Documents'
  BY <1>2 DEF Documents
<1>4. Copies \subseteq Copies'
  BY <1>3 DEF Copies
<1>5. [Rows -> Written] \subseteq [Rows -> Written]'
  BY <1>2
<1> QED
  BY <1>2, <1>3, <1>4, <1>5

LEMMA UnderStays ==
  ASSUME IInv, Onwards, NEW d \in Documents, NEW a, Under(a, d)
  PROVE  Under(a, d)'
BY DEF Under, Onwards, Documents

LEMMA FreshStays ==
  ASSUME IInv, Onwards, stored' \in Nat, NEW d \in Documents, NEW r \in Nat, Fresh(d, r)
  PROVE  Fresh(d, r)'
<1>1. stored \in Nat
  BY DEF IInv, ServerTyped
<1>2. CASE stored' > stored
  BY <1>1, <1>2 DEF Fresh
<1>3. CASE doc' = doc /\ stored' = stored
  BY <1>3, UnderStays DEF Fresh
<1> QED
  BY <1>2, <1>3 DEF Onwards

LEMMA LoadStays ==
  ASSUME IInv, Onwards, stored' \in Nat, Len(lineage') \in Nat, NEW l, GoodLoad(l)
  PROVE  GoodLoad(l)'
BY MoreIsWritten, FreshStays DEF GoodLoad

LEMMA CopyStays ==
  ASSUME IInv, Onwards, stored' \in Nat, NEW t \in Tabs, copy'[t] = copy[t], rev'[t] = rev[t]
  PROVE  GoodCopy(t)'
<1>1. GoodCopy(t) /\ copy[t].doc \in Documents /\ rev[t] \in Nat
  BY DEF IInv, TabsTyped, Copies
<1> QED
  BY <1>1, FreshStays DEF GoodCopy

LEMMA DialogStays ==
  ASSUME IInv, Onwards, Len(lineage') \in Nat, NEW t \in Tabs, dialog'[t] = dialog[t],
         copy'[t].gen = copy[t].gen, copy'[t].doc = copy[t].doc
  PROVE  GoodDialog(t)'
<1>1. GoodDialog(t)
  BY DEF IInv
<1> QED
  BY <1>1, MoreIsWritten DEF GoodDialog

LEMMA SaveStays ==
  ASSUME IInv, Onwards, stored' \in Nat, Len(lineage') \in Nat, NEW t \in Tabs, NEW s,
         GoodSave(t, s), copy'[t].gen = copy[t].gen, copy'[t].doc = copy[t].doc,
         copy'[t].whole => copy[t].whole
  PROVE  GoodSave(t, s)'
<1>1. stored \in Nat /\ copy[t].doc \in Documents
  BY DEF IInv, ServerTyped, TabsTyped, Copies
<1>2. s.doc \in Documents /\ s.doc \in Documents'
  BY MoreIsWritten DEF GoodSave
<1>3. ASSUME s.gen = copy'[t].gen, copy'[t].whole
      PROVE  \A f \in Fields : s.doc[f] \in Below(copy[t].doc[f])'
  <2>1. PICK d \in Documents : d = copy[t].doc
    BY <1>1
  <2>2. Under(s.doc, d) /\ d = copy'[t].doc
    BY <1>3, <2>1 DEF GoodSave
  <2>3. Under(s.doc, d)'
    BY <2>2, UnderStays
  <2> QED
    BY <2>2, <2>3 DEF Under
<1>4. s.at \in {"sent", "adrift"} /\ s.whole => Fresh(s.doc, s.rev)'
  BY <1>2, FreshStays DEF GoodSave
<1>5. s.at \in {"saved", "read"} =>
        s.is \in Nat /\ s.is # 0 /\ s.is <= stored' /\ (s.is = stored' => doc' = s.doc)
  BY <1>1 DEF GoodSave, Onwards
<1> QED
  BY <1>2, <1>3, <1>4, <1>5 DEF GoodSave, Under

-----------------------------------------------------------------------------
(* A step is one tab's: the others have what they had. *)

OthersKeep(t) ==
    \A u \in Tabs \ {t} :
      /\ copy'[u] = copy[u] /\ rev'[u] = rev[u] /\ dialog'[u] = dialog[u]
      /\ loads'[u] = loads[u] /\ saves'[u] = saves[u] /\ asked'[u] = asked[u]

LEMMA OneTab ==
  ASSUME IInv, Onwards, NEW t \in Tabs, OthersKeep(t),
         ServerTyped', LineageIsClosed', KeptWhenWhole', TabsTyped',
         IsFiniteSet(loads'[t]), copy'[t].gen + Cardinality(loads'[t]) <= asked'[t],
         GoodCopy(t)', GoodDialog(t)',
         \A l \in loads'[t] : GoodLoad(l)',
         \A s \in saves'[t] : GoodSave(t, s)'
  PROVE  IInv'
<1>1. stored' \in Nat /\ Len(lineage') \in Nat
  BY DEF ServerTyped, LineageIsClosed
<1>2. ASSUME NEW u \in Tabs \ {t}
      PROVE  /\ GoodCopy(u)' /\ GoodDialog(u)'
             /\ \A l \in loads'[u] : GoodLoad(l)'
             /\ \A s \in saves'[u] : GoodSave(u, s)'
  <2>1. /\ copy'[u] = copy[u] /\ rev'[u] = rev[u] /\ dialog'[u] = dialog[u]
        /\ loads'[u] = loads[u] /\ saves'[u] = saves[u]
    BY DEF OthersKeep
  <2>2. GoodCopy(u)'
    BY <1>1, <2>1, CopyStays
  <2>3. GoodDialog(u)'
    BY <1>1, <2>1, DialogStays
  <2>4. \A l \in loads'[u] : GoodLoad(l)'
    BY <1>1, <2>1, LoadStays DEF IInv
  <2>5. \A s \in saves'[u] : GoodSave(u, s)'
    BY <1>1, <2>1, SaveStays DEF IInv
  <2> QED
    BY <2>2, <2>3, <2>4, <2>5
<1>3. LoadsAreCounted'
  BY DEF LoadsAreCounted, OthersKeep, IInv
<1> QED
  BY <1>2, <1>3 DEF IInv

\* A step that leaves the server and the lineage alone.
Quiet == doc' = doc /\ stored' = stored /\ dropped' = dropped /\ lineage' = lineage

LEMMA QuietGoesOn ==
  ASSUME IInv, Quiet
  PROVE  /\ Onwards /\ ServerTyped' /\ LineageIsClosed' /\ KeptWhenWhole'
         /\ stored' \in Nat /\ Len(lineage') \in Nat /\ Written' = Written
         /\ Documents' = Documents /\ Copies' = Copies
<1>1. Len(lineage) \in Nat /\ Len(lineage) <= Len(lineage)
  BY DEF IInv, LineageIsClosed
<1>2. \A e : Below(e)' = Below(e)
  BY DEF Quiet, Below
<1>3. Written' = Written /\ Documents' = Documents /\ Copies' = Copies
  BY DEF Quiet, Written, Documents, Copies
<1>4. Onwards
  BY <1>1, <1>2 DEF Quiet, Onwards
<1>5. ServerTyped' /\ stored' \in Nat /\ KeptWhenWhole'
  BY <1>3 DEF IInv, ServerTyped, KeptWhenWhole, Quiet
<1>6. LineageIsClosed'
  BY <1>2, <1>3 DEF IInv, LineageIsClosed, Quiet
<1> QED
  BY <1>1, <1>3, <1>4, <1>5, <1>6 DEF Quiet

\* The tab itself, where a step leaves its loads, its saves, its dialog or its copy alone.
LEMMA LoadsStay ==
  ASSUME IInv, Quiet, NEW t \in Tabs
  PROVE  \A l \in loads[t] : GoodLoad(l)'
BY QuietGoesOn, LoadStays DEF IInv

LEMMA SavesStay ==
  ASSUME IInv, Quiet, NEW t \in Tabs, copy'[t].gen = copy[t].gen, copy'[t].doc = copy[t].doc,
         copy'[t].whole => copy[t].whole
  PROVE  \A s \in saves[t] : GoodSave(t, s)'
BY QuietGoesOn, SaveStays DEF IInv

-----------------------------------------------------------------------------
(* Loading. *)

LEMMA StartLoadStep ==
  ASSUME IInv, Quiet, NEW t \in Tabs, StartLoad(t),
         copy' = copy, rev' = rev, dialog' = dialog, saves' = saves,
         refresh' \in [Tabs -> BOOLEAN]
  PROVE  IInv'
<1> DEFINE new == [n |-> asked[t], at |-> "asked", got |-> None, rev |-> None, whole |-> FALSE]
<1>0. TabsTyped /\ LoadsAreCounted
  BY DEF IInv
<1>1. /\ asked[t] < MaxLoads /\ asked' = [asked EXCEPT ![t] = @ + 1]
      /\ loads' = [loads EXCEPT ![t] = @ \cup {new}]
      /\ busy' = [busy EXCEPT ![t] = TRUE]
  BY DEF StartLoad
<1>2. /\ loads'[t] = loads[t] \cup {new} /\ asked'[t] = asked[t] + 1
      /\ DOMAIN loads' = Tabs /\ asked' \in [Tabs -> 0 .. MaxLoads] /\ busy' \in [Tabs -> BOOLEAN]
      /\ asked[t] \in Nat
  <2>1. asked[t] \in 0 .. MaxLoads /\ MaxLoads \in Nat
    BY <1>0, DocumentAssumption DEF TabsTyped
  <2>2. asked[t] + 1 \in 0 .. MaxLoads
    BY <1>1, <2>1
  <2> HIDE DEF new
  <2> QED
    BY <1>0, <1>1, <2>1, <2>2 DEF TabsTyped
<1>3. TabsTyped'
  BY <1>0, <1>2, QuietGoesOn DEF TabsTyped
<1>4. OthersKeep(t)
  <2> HIDE DEF new
  <2> QED
    BY <1>0, <1>1 DEF OthersKeep, TabsTyped
<1>5. IsFiniteSet(loads'[t]) /\ copy'[t].gen + Cardinality(loads'[t]) <= asked'[t]
  <2>1. IsFiniteSet(loads[t]) /\ copy[t].gen + Cardinality(loads[t]) <= asked[t] /\ copy[t].gen \in Nat
    BY <1>0 DEF LoadsAreCounted, TabsTyped, Copies
  <2>2. /\ IsFiniteSet(loads[t] \cup {new}) /\ Cardinality(loads[t]) \in Nat
        /\ Cardinality(loads[t] \cup {new}) \in {Cardinality(loads[t]), Cardinality(loads[t]) + 1}
    <3> HIDE DEF new
    <3> QED
      BY <2>1, FS_AddElement, FS_CardinalityType
  <2> HIDE DEF new
  <2> QED
    BY <1>2, <2>1, <2>2
<1>6. \A l \in loads'[t] : GoodLoad(l)'
  <2>1. ASSUME NEW k, k = new
        PROVE  GoodLoad(k)'
    BY <2>1 DEF GoodLoad
  <2>2. ASSUME NEW k \in loads'[t]
        PROVE  k \in loads[t] \/ k = new
    BY <1>2
  <2> QED
    BY <2>1, <2>2, LoadsStay
<1> QED
  BY <1>3, <1>4, <1>5, <1>6, SavesStay, QuietGoesOn, OneTab, CopyStays, DialogStays

\* One load is replaced by what it has become.
LEMMA LoadMoves ==
  ASSUME IInv, Quiet, NEW t \in Tabs, NEW l \in loads[t], NEW m, GoodLoad(m)',
         loads' = [loads EXCEPT ![t] = (@ \ {l}) \cup {m}],
         copy' = copy, rev' = rev, busy' = busy, dialog' = dialog, asked' = asked, saves' = saves,
         refresh' = refresh
  PROVE  IInv'
<1>0. TabsTyped /\ LoadsAreCounted
  BY DEF IInv
<1>1. loads'[t] = (loads[t] \ {l}) \cup {m} /\ DOMAIN loads' = Tabs
  BY <1>0 DEF TabsTyped
<1>2. TabsTyped'
  BY <1>0, <1>1, QuietGoesOn DEF TabsTyped
<1>3. OthersKeep(t)
  BY <1>0 DEF OthersKeep, TabsTyped
<1>4. IsFiniteSet(loads'[t]) /\ copy'[t].gen + Cardinality(loads'[t]) <= asked'[t]
  <2>1. /\ IsFiniteSet(loads[t]) /\ copy[t].gen + Cardinality(loads[t]) <= asked[t]
        /\ copy[t].gen \in Nat /\ asked[t] \in Int
    BY <1>0, DocumentAssumption DEF LoadsAreCounted, TabsTyped, Copies
  <2>2. /\ IsFiniteSet(loads[t] \ {l}) /\ Cardinality(loads[t] \ {l}) = Cardinality(loads[t]) - 1
        /\ Cardinality(loads[t]) \in Nat
    BY <2>1, FS_RemoveElement, FS_CardinalityType
  <2>3. /\ IsFiniteSet(loads'[t])
        /\ Cardinality(loads'[t]) \in {Cardinality(loads[t]) - 1, Cardinality(loads[t])}
    BY <1>1, <2>2, FS_AddElement
  <2> QED
    BY <2>1, <2>2, <2>3
<1>5. \A k \in loads'[t] : GoodLoad(k)'
  BY <1>1, LoadsStay
<1> QED
  BY <1>2, <1>3, <1>4, <1>5, SavesStay, QuietGoesOn, OneTab, CopyStays, DialogStays

LEMMA ReadRowsStep ==
  ASSUME IInv, NEW t \in Tabs, NEW l \in loads[t], ReadRows(t, l)
  PROVE  IInv'
<1>1. Quiet
  BY DEF ReadRows, Quiet, server
<1>2. PICK m : m = [l EXCEPT !.at = "rows", !.got = [f \in Rows |-> doc[f]]]
  OBVIOUS
<1>3. GoodLoad(m)'
  <2>1. l = [n |-> l.n, at |-> l.at, got |-> l.got, rev |-> l.rev, whole |-> l.whole]
    BY DEF IInv, GoodLoad
  <2>2. [f \in Rows |-> doc[f]] \in [Rows -> Written]
    BY DEF IInv, ServerTyped, Documents, Fields
  <2>3. m = [n |-> l.n, at |-> "rows", got |-> [f \in Rows |-> doc[f]], rev |-> l.rev, whole |-> l.whole]
    BY <1>2, <2>1
  <2>4. m.at = "rows" /\ m.got \in [Rows -> Written]
    BY <2>2, <2>3
  <2>5. m = [n |-> m.n, at |-> m.at, got |-> m.got, rev |-> m.rev, whole |-> m.whole]
    BY <2>3
  <2>6. Written' = Written
    BY <1>1, QuietGoesOn
  <2> QED
    BY <2>4, <2>5, <2>6 DEF GoodLoad
<1> QED
  BY <1>1, <1>2, <1>3, LoadMoves DEF ReadRows

\* What one statement reads of everything is fresh.
LEMMA ReadSettingsStep ==
  ASSUME IInv, NEW t \in Tabs, NEW l \in loads[t], ReadSettings(t, l)
  PROVE  IInv'
<1>1. Quiet
  BY DEF ReadSettings, Quiet, server
<1> DEFINE got == [f \in Fields |-> IF f \in Rows THEN l.got[f] ELSE doc[f]]
<1>2. PICK m : m = [l EXCEPT !.at = "read", !.got = got, !.rev = Revision,
                             !.whole = (got = doc /\ stored # 0)]
  OBVIOUS
<1>3. GoodLoad(m)'
  <2>1. /\ l = [n |-> l.n, at |-> l.at, got |-> l.got, rev |-> l.rev, whole |-> l.whole]
        /\ l.got \in [Rows -> Written]
    BY DEF IInv, GoodLoad, ReadSettings
  <2>2. doc \in Documents /\ stored \in Nat
    BY DEF IInv, ServerTyped
  <2>3. got \in Documents
    BY <2>1, <2>2 DEF Documents
  <2>4. Revision \in Nat /\ (stored # 0 => Revision = stored)
    BY <2>2 DEF Revision
  <2>5. m = [n |-> l.n, at |-> "read", got |-> got, rev |-> Revision,
             whole |-> (got = doc /\ stored # 0)]
    BY <1>2, <2>1
  <2> HIDE DEF got
  <2>6. /\ m = [n |-> m.n, at |-> m.at, got |-> m.got, rev |-> m.rev, whole |-> m.whole]
        /\ m.at = "read" /\ m.got \in Documents /\ m.rev \in Nat /\ m.whole \in BOOLEAN
    BY <2>3, <2>4, <2>5
  <2>7. m.whole => m.got = doc /\ m.rev = stored /\ stored # 0
    BY <2>4, <2>5
  <2>8. m.whole => Fresh(m.got, m.rev)
    BY <2>2, <2>7, BelowIsReflexive DEF IInv, Fresh
  <2>9. m.whole => Fresh(m.got, m.rev)'
    BY <1>1, <2>6, <2>8, QuietGoesOn, FreshStays
  <2> QED
    BY <1>1, <2>6, <2>9, QuietGoesOn DEF GoodLoad
<1> QED
  BY <1>1, <1>2, <1>3, LoadMoves DEF ReadSettings

\* A load that is over, with what it leaves of the copy and the revision.
LEMMA LoadEnds ==
  ASSUME IInv, NEW t \in Tabs, NEW l \in loads[t], LoadArrives(t, l) \/ LoadFails(t, l)
  PROVE  IInv'
<1>0. TabsTyped /\ LoadsAreCounted
  BY DEF IInv
<1>1. Quiet /\ loads' = [loads EXCEPT ![t] = @ \ {l}] /\ busy' = [busy EXCEPT ![t] = FALSE]
  BY DEF LoadArrives, LoadFails, Quiet, server
<1>2. dialog' = dialog /\ asked' = asked /\ saves' = saves /\ refresh' = refresh
  BY DEF LoadArrives, LoadFails
<1>3. loads'[t] = loads[t] \ {l} /\ DOMAIN loads' = Tabs /\ busy' \in [Tabs -> BOOLEAN]
  BY <1>0, <1>1 DEF TabsTyped
<1>4. /\ IsFiniteSet(loads[t]) /\ copy[t].gen + Cardinality(loads[t]) <= asked[t]
      /\ copy[t].gen \in Nat /\ asked[t] \in Int
  BY <1>0, DocumentAssumption DEF LoadsAreCounted, TabsTyped, Copies
<1>5. /\ IsFiniteSet(loads'[t]) /\ Cardinality(loads'[t]) = Cardinality(loads[t]) - 1
      /\ Cardinality(loads[t]) \in Nat
  BY <1>3, <1>4, FS_RemoveElement, FS_CardinalityType
<1>6. \A k \in loads'[t] : GoodLoad(k)'
  BY <1>1, <1>3, LoadsStay
<1>7. CASE LoadFails(t, l)
  <2>1. copy' = copy /\ rev' = rev
    BY <1>7 DEF LoadFails
  <2>2. TabsTyped'
    BY <1>0, <1>1, <1>2, <1>3, <2>1, QuietGoesOn DEF TabsTyped
  <2>3. OthersKeep(t)
    BY <1>0, <1>1, <1>2, <2>1 DEF OthersKeep, TabsTyped
  <2>4. copy'[t].gen + Cardinality(loads'[t]) <= asked'[t]
    BY <1>2, <1>4, <1>5, <2>1
  <2> QED
    BY <1>1, <1>2, <1>5, <1>6, <2>1, <2>2, <2>3, <2>4, SavesStay, QuietGoesOn, OneTab, CopyStays,
       DialogStays
<1>8. CASE LoadArrives(t, l)
  <2>1. l.got \in Documents /\ l.rev \in Nat /\ l.whole \in BOOLEAN /\ (l.whole => Fresh(l.got, l.rev))
    BY <1>8 DEF LoadArrives, IInv, GoodLoad
  <2>2. /\ copy' = [copy EXCEPT ![t] = [doc |-> l.got, gen |-> @.gen + 1, whole |-> l.whole]]
        /\ rev' = [rev EXCEPT ![t] = l.rev]
    BY <1>8 DEF LoadArrives
  <2>3. /\ copy'[t] = [doc |-> l.got, gen |-> copy[t].gen + 1, whole |-> l.whole]
        /\ rev'[t] = l.rev
    BY <1>0, <2>2 DEF TabsTyped
  <2>4. copy'[t].gen = copy[t].gen + 1 /\ copy'[t].doc = l.got /\ copy'[t].whole = l.whole
    BY <2>3
  <2>5. copy'[t] \in Copies
    BY <1>4, <2>1, <2>3 DEF Copies
  <2>6. copy' \in [Tabs -> Copies] /\ rev' \in [Tabs -> Nat]
    BY <1>0, <2>1, <2>2, <2>3, <2>5 DEF TabsTyped
  <2>7. TabsTyped'
    BY <1>0, <1>1, <1>2, <1>3, <2>6, QuietGoesOn DEF TabsTyped
  <2>8. OthersKeep(t)
    BY <1>0, <1>1, <1>2, <2>2 DEF OthersKeep, TabsTyped
  <2>9. copy'[t].gen + Cardinality(loads'[t]) <= asked'[t]
    BY <1>2, <1>4, <1>5, <2>4
  <2>10. GoodCopy(t)'
    <3>1. l.whole => Fresh(l.got, l.rev)'
      BY <1>1, <2>1, FreshStays, QuietGoesOn
    <3>2. copy'[t].gen > 0
      BY <1>4, <2>4
    <3> QED
      BY <2>3, <2>4, <3>1, <3>2 DEF GoodCopy
  <2>11. GoodDialog(t)'
    <3>1. dialog[t] # None => /\ dialog[t].field \in Fields /\ dialog[t].from \in Copies
                              /\ dialog[t].from.gen <= copy[t].gen
      BY DEF IInv, GoodDialog
    <3>2. dialog[t] # None => dialog[t].from.gen \in Nat
      BY <3>1 DEF Copies
    <3>3. dialog[t] # None => /\ dialog[t].from.gen <= copy'[t].gen
                              /\ dialog[t].from.gen # copy'[t].gen
      BY <1>4, <2>4, <3>1, <3>2
    <3> QED
      BY <1>1, <1>2, <3>1, <3>3, QuietGoesOn DEF GoodDialog
  <2>12. ASSUME NEW s \in saves'[t]
         PROVE  GoodSave(t, s)'
    <3>1. GoodSave(t, s)
      BY <1>2 DEF IInv
    <3>2. s.gen \in Nat /\ s.gen <= copy'[t].gen /\ s.gen # copy'[t].gen
      BY <1>4, <2>4, <3>1 DEF GoodSave
    <3>3. s.at \in {"sent", "adrift"} /\ s.whole => Fresh(s.doc, s.rev)'
      BY <1>1, <3>1, FreshStays, QuietGoesOn DEF GoodSave
    <3> QED
      BY <1>1, <3>1, <3>2, <3>3, QuietGoesOn DEF GoodSave, Quiet
  <2> QED
    BY <1>1, <1>5, <1>6, <2>7, <2>8, <2>9, <2>10, <2>11, <2>12, QuietGoesOn, OneTab
<1> QED
  BY <1>7, <1>8

-----------------------------------------------------------------------------
(* Editing. *)

LEMMA LineageGrows ==
  ASSUME IInv, NEW h \in Written, NEW e, e = Len(lineage) + 1, e <= MaxEdits,
         lineage' = Append(lineage, Below(h) \cup {e}), doc' = doc, stored' = stored
  PROVE  /\ LineageIsClosed' /\ Onwards /\ Len(lineage') \in Nat
         /\ Written' = Written \cup {e} /\ e \notin Written
         /\ Below(e)' = Below(h) \cup {e}
<1> DEFINE X == Below(h) \cup {e}
<1>1. /\ lineage \in Seq(SUBSET Edits) /\ Len(lineage) \in Nat /\ Len(lineage) <= MaxEdits
      /\ MaxEdits \in Nat
      /\ \A k \in Written : k \in Below(k)
      /\ \A k \in Written : \A g \in Below(k) : g \in Written /\ Below(g) \subseteq Below(k)
  BY DocumentAssumption DEF IInv, LineageIsClosed
<1>2. e \in Nat /\ e # 0 /\ e \notin Written /\ e \in Edits
  BY <1>1 DEF Written, Edits
<1>3. Written \subseteq Edits
  BY <1>1 DEF Written, Edits
<1>4. X \in SUBSET Edits
  BY <1>1, <1>2, <1>3
<1> HIDE DEF X
<1>5. /\ lineage' \in Seq(SUBSET Edits) /\ Len(lineage') = Len(lineage) + 1
      /\ lineage'[e] = X /\ \A k \in 1 .. Len(lineage) : lineage'[k] = lineage[k]
  BY <1>1, <1>4 DEF X
<1>6. Written' = Written \cup {e}
  BY <1>1, <1>5 DEF Written
<1>7. \A k \in Written : Below(k)' = Below(k)
  BY <1>1, <1>5 DEF Written, Below
<1>8. Below(e)' = X
  BY <1>2, <1>5 DEF Below
<1>9. Onwards
  BY <1>1, <1>5, <1>7 DEF Onwards
<1>10. \A k \in Written' : k \in Below(k)'
  BY <1>1, <1>6, <1>7, <1>8 DEF X
<1>11. ASSUME NEW k \in Written', NEW g \in Below(k)'
       PROVE  g \in Written' /\ Below(g)' \subseteq Below(k)'
  <2>1. CASE k \in Written
    BY <1>1, <1>6, <1>7, <1>11, <2>1
  <2>2. CASE k = e /\ g = e
    BY <1>6, <2>2
  <2>3. CASE k = e /\ g # e
    <3>1. g \in Below(h)
      BY <1>8, <1>11, <2>3 DEF X
    <3>2. g \in Written /\ Below(g) \subseteq Below(h)
      BY <1>1, <3>1
    <3>3. Below(g)' \subseteq X
      BY <1>7, <3>2 DEF X
    <3> QED
      BY <1>6, <1>8, <2>3, <3>2, <3>3
  <2> QED
    BY <1>6, <2>1, <2>2, <2>3
<1>12. LineageIsClosed'
  BY <1>1, <1>5, <1>10, <1>11 DEF LineageIsClosed, Edits
<1> QED
  BY <1>1, <1>2, <1>5, <1>6, <1>8, <1>9, <1>12 DEF X

\* What is saved was made on top of what the tab holds, when it was made from that;
\* so whatever was under the tab's document is under the new one.
LEMMA SaveStep ==
  ASSUME IInv, NEW t \in Tabs, NEW from \in Copies, from.gen = copy[t].gen => from.doc = copy[t].doc,
         NEW f \in Fields, Save(t, from, f),
         doc' = doc, stored' = stored, dropped' = dropped, rev' = rev,
         dialog'[t] = None, \A u \in Tabs \ {t} : dialog'[u] = dialog[u], DOMAIN dialog' = Tabs,
         loads' = loads, asked' = asked, refresh' = refresh
  PROVE  IInv'
<1>0. /\ TabsTyped /\ LoadsAreCounted /\ LineageIsClosed
      /\ copy[t] \in Copies /\ copy[t].doc \in Documents /\ copy[t].gen \in Nat /\ copy[t].whole \in BOOLEAN
      /\ from.doc \in Documents /\ from.doc[f] \in Written
  BY DEF IInv, TabsTyped, Copies, Documents
<1>1. PICK e : e = Len(lineage) + 1
  OBVIOUS
<1>2. PICK h \in Written : h = from.doc[f]
  BY <1>0
<1>3. PICK nd : nd = [from.doc EXCEPT ![f] = e]
  OBVIOUS
<1>4. PICK whole \in BOOLEAN : whole = (from.whole /\ copy[t].whole /\ from.gen = copy[t].gen)
  OBVIOUS
<1>5. PICK s : s = [doc |-> nd, rev |-> rev[t], raised |-> f \in Raising, gen |-> copy[t].gen,
                    whole |-> whole, at |-> "sent", is |-> None, answer |-> None]
  OBVIOUS
<1>6. /\ e <= MaxEdits /\ lineage' = Append(lineage, Below(h) \cup {e})
      /\ copy' = [copy EXCEPT ![t].doc = nd, ![t].whole = whole]
      /\ saves' = [saves EXCEPT ![t] = @ \cup {s}]
      /\ busy' = IF f \in Raising THEN [busy EXCEPT ![t] = TRUE] ELSE busy
  BY <1>1, <1>2, <1>3, <1>4, <1>5 DEF Save
<1>7. /\ LineageIsClosed' /\ Onwards /\ Len(lineage') \in Nat
      /\ Written' = Written \cup {e} /\ e \notin Written /\ Below(e)' = Below(h) \cup {e}
  BY <1>1, <1>6, LineageGrows
<1>8. Documents \subseteq Documents' /\ Copies \subseteq Copies'
  BY <1>7, MoreIsWritten
<1>9. nd \in Documents' /\ \A g \in Fields : nd[g] = IF g = f THEN e ELSE from.doc[g]
  BY <1>0, <1>3, <1>7 DEF Documents
<1>10. stored' \in Nat /\ ServerTyped' /\ KeptWhenWhole'
  BY <1>8 DEF IInv, ServerTyped, KeptWhenWhole
<1>11. /\ copy'[t] = [doc |-> nd, gen |-> copy[t].gen, whole |-> whole]
       /\ saves'[t] = saves[t] \cup {s} /\ DOMAIN saves' = Tabs /\ busy' \in [Tabs -> BOOLEAN]
  BY <1>0, <1>6 DEF TabsTyped, Copies
<1>12. copy'[t] \in Copies' /\ \A u \in Tabs \ {t} : copy'[u] = copy[u]
  BY <1>0, <1>6, <1>9, <1>11 DEF TabsTyped, Copies
<1>13. copy' \in [Tabs -> Copies']
  BY <1>0, <1>6, <1>8, <1>12 DEF TabsTyped
<1>14. TabsTyped'
  BY <1>0, <1>11, <1>13 DEF TabsTyped
<1>15. OthersKeep(t)
  BY <1>0, <1>6, <1>12 DEF OthersKeep, TabsTyped
<1>16. IsFiniteSet(loads'[t]) /\ copy'[t].gen + Cardinality(loads'[t]) <= asked'[t]
  BY <1>0, <1>11 DEF LoadsAreCounted
\* Whatever was under the copy is under what is saved.
<1>17. ASSUME NEW a \in Documents, NEW c \in Documents, c = copy[t].doc, Under(a, c), whole
       PROVE  \A g \in Fields : a[g] \in Below(nd[g])'
  <2>1. from.doc = c
    BY <1>4, <1>17
  <2>2. \A g \in Fields : a[g] \in Below(c[g]) /\ c[g] \in Written
    BY <1>17 DEF Under, Documents
  <2>3. \A g \in Fields \ {f} : a[g] \in Below(nd[g])'
    BY <1>7, <1>9, <2>1, <2>2 DEF Onwards
  <2>4. a[f] \in Below(nd[f])'
    BY <1>2, <1>7, <1>9, <2>1, <2>2
  <2> QED
    BY <2>3, <2>4
<1>18. whole => stored # 0 /\ rev[t] <= stored /\ copy[t].gen > 0 /\
                (rev[t] = stored => \A g \in Fields : doc[g] \in Below(nd[g])')
  <2> SUFFICES ASSUME whole
               PROVE  /\ stored # 0 /\ rev[t] <= stored /\ copy[t].gen > 0
                      /\ rev[t] = stored => \A g \in Fields : doc[g] \in Below(nd[g])'
    OBVIOUS
  <2>1. copy[t].gen > 0 /\ Fresh(copy[t].doc, rev[t])
    BY <1>4 DEF IInv, GoodCopy
  <2>2. doc \in Documents
    BY DEF IInv, ServerTyped
  <2>3. PICK a \in Documents, c \in Documents : a = doc /\ c = copy[t].doc
    BY <1>0, <2>2
  <2> QED
    BY <1>17, <2>1, <2>3 DEF Fresh
<1>19. GoodCopy(t)'
  BY <1>11, <1>18 DEF GoodCopy, Fresh, Under
<1>20. GoodDialog(t)'
  BY DEF GoodDialog
<1>21. \A l \in loads'[t] : GoodLoad(l)'
  BY <1>7, <1>10, LoadStays DEF IInv
<1>22. GoodSave(t, s)'
  <2>1. /\ s = [doc |-> s.doc, rev |-> s.rev, raised |-> s.raised, gen |-> s.gen, whole |-> s.whole,
                at |-> s.at, is |-> s.is, answer |-> s.answer]
        /\ s.doc = nd /\ s.rev = rev[t] /\ s.gen = copy[t].gen /\ s.whole = whole /\ s.at = "sent"
    BY <1>5
  <2>2. \A g \in Fields : nd[g] \in Below(nd[g])'
    BY <1>7, <1>9 DEF LineageIsClosed, Documents
  <2>3. rev[t] \in Nat /\ copy[t].gen <= copy[t].gen
    BY <1>0 DEF TabsTyped
  <2>4. s.whole => stored' # 0 /\ s.rev <= stored' /\ (s.rev = stored' => \A g \in Fields : doc'[g] \in Below(s.doc[g])')
    BY <1>18, <2>1
  <2> QED
    BY <1>0, <1>9, <1>11, <2>1, <2>2, <2>3, <2>4 DEF GoodSave, Fresh, Under
<1>23. ASSUME NEW r \in saves[t]
       PROVE  GoodSave(t, r)'
  <2>1. GoodSave(t, r)
    BY DEF IInv
  <2>2. r.doc \in Documents /\ r.doc \in Documents'
    BY <1>8, <2>1 DEF GoodSave
  <2>3. r.gen = copy'[t].gen /\ copy'[t].whole => \A g \in Fields : r.doc[g] \in Below(nd[g])'
    <3> SUFFICES ASSUME r.gen = copy'[t].gen, copy'[t].whole
                 PROVE  \A g \in Fields : r.doc[g] \in Below(nd[g])'
      OBVIOUS
    <3>1. PICK c \in Documents : c = copy[t].doc
      BY <1>0
    <3>0. copy'[t].whole = whole /\ copy'[t].gen = copy[t].gen
      BY <1>11
    <3>2. whole /\ copy[t].whole /\ r.gen = copy[t].gen
      <4>1. whole
        BY <3>0, Zenon
      <4> QED
        BY <1>4, <3>0, <4>1
    <3>3. Under(r.doc, c)
      BY <2>1, <3>1, <3>2 DEF GoodSave
    <3> QED
      BY <1>17, <2>2, <3>1, <3>2, <3>3
  <2>4. r.at \in {"sent", "adrift"} /\ r.whole => Fresh(r.doc, r.rev)'
    BY <1>7, <1>10, <2>1, <2>2, FreshStays DEF GoodSave
  <2> QED
    BY <1>11, <2>1, <2>2, <2>3, <2>4 DEF GoodSave, Under
<1>24. \A r \in saves'[t] : GoodSave(t, r)'
  BY <1>11, <1>22, <1>23
<1> QED
  BY <1>7, <1>10, <1>14, <1>15, <1>16, <1>19, <1>20, <1>21, <1>24, OneTab

LEMMA EditStep ==
  ASSUME IInv, NEW t \in Tabs, NEW f \in Fields, Edit(t, f)
  PROVE  IInv'
<1>1. copy[t] \in Copies /\ DOMAIN dialog = Tabs
  BY DEF IInv, TabsTyped
<1> QED
  BY <1>1, SaveStep DEF Edit, server

LEMMA ConfirmStep ==
  ASSUME IInv, NEW t \in Tabs, Confirm(t)
  PROVE  IInv'
<1>1. /\ dialog[t].field \in Fields /\ dialog[t].from \in Copies
      /\ dialog[t].from.gen = copy[t].gen => dialog[t].from.doc = copy[t].doc
      /\ DOMAIN dialog = Tabs
  BY DEF Confirm, IInv, GoodDialog, TabsTyped
<1>2. dialog'[t] = None /\ (\A u \in Tabs \ {t} : dialog'[u] = dialog[u]) /\ DOMAIN dialog' = Tabs
  BY <1>1 DEF Confirm
<1>3. PICK from \in Copies, f \in Fields : from = dialog[t].from /\ f = dialog[t].field
  BY <1>1
<1>4. Save(t, from, f)
  BY <1>3 DEF Confirm
<1> QED
  BY <1>1, <1>2, <1>3, <1>4, SaveStep DEF Confirm, server

\* A question, asked or put away.
LEMMA DialogStep ==
  ASSUME IInv, NEW t \in Tabs, (\E f \in Fields : Ask(t, f)) \/ Cancel(t)
  PROVE  IInv'
<1>0. TabsTyped /\ LoadsAreCounted /\ copy[t] \in Copies /\ copy[t].gen \in Nat
  BY DEF IInv, TabsTyped, Copies
<1>1. /\ Quiet /\ copy' = copy /\ rev' = rev /\ busy' = busy /\ loads' = loads /\ asked' = asked
      /\ saves' = saves /\ refresh' = refresh
  BY DEF Ask, Cancel, Quiet, server
<1>2. /\ \A u \in Tabs \ {t} : dialog'[u] = dialog[u]
      /\ DOMAIN dialog' = Tabs
      /\ \/ dialog'[t] = None
         \/ \E f \in Fields : dialog'[t] = [field |-> f, from |-> copy[t], busy |-> f \in Raising /\ busy[t]]
  BY <1>0 DEF Ask, Cancel, TabsTyped
<1>3. TabsTyped' /\ OthersKeep(t)
  BY <1>0, <1>1, <1>2, QuietGoesOn DEF TabsTyped, OthersKeep
<1>4. GoodDialog(t)'
  BY <1>0, <1>1, <1>2, QuietGoesOn DEF GoodDialog
<1>5. IsFiniteSet(loads'[t]) /\ copy'[t].gen + Cardinality(loads'[t]) <= asked'[t]
  BY <1>0, <1>1 DEF LoadsAreCounted
<1> QED
  BY <1>1, <1>3, <1>4, <1>5, LoadsStay, SavesStay, CopyStays, QuietGoesOn, OneTab

-----------------------------------------------------------------------------
(* Saving. *)

\* A save that passed the comparison: what it replaces is under it, if it is whole.
LEMMA AcceptGoesOn ==
  ASSUME IInv, NEW t \in Tabs, NEW s \in saves[t], s.at \in {"sent", "adrift"},
         Accept(s), lineage' = lineage
  PROVE  /\ Onwards /\ ServerTyped' /\ LineageIsClosed' /\ KeptWhenWhole'
         /\ stored' > 0 /\ doc' = s.doc
<1>1. /\ GoodSave(t, s) /\ s.doc \in Documents /\ s.rev \in Nat /\ s.whole \in BOOLEAN
      /\ stored \in Nat /\ Len(lineage) \in Nat /\ KeptWhenWhole
  BY DEF IInv, GoodSave, ServerTyped, LineageIsClosed
<1>2. stored' \in Nat /\ stored' > stored /\ stored' > 0
  BY <1>1 DEF Accept, NextRevisions
<1>3. /\ \A e : Below(e)' = Below(e)
      /\ Written' = Written /\ Documents' = Documents
  BY DEF Below, Written, Documents
<1>4. LineageIsClosed'
  BY <1>3 DEF IInv, LineageIsClosed
<1>5. Onwards /\ ServerTyped' /\ doc' = s.doc
  BY <1>1, <1>2, <1>3 DEF Onwards, ServerTyped, Accept
<1>6. s.whole => Forgotten(doc, s.doc) = {}
  <2>1. s.whole => Fresh(s.doc, s.rev)
    BY <1>1 DEF GoodSave
  <2>2. s.whole => Under(doc, s.doc)
    BY <1>1, <2>1 DEF Fresh, Accept, Stale
  <2> QED
    BY <2>2, NothingForgotten
<1>7. KeptWhenWhole'
  <2>1. dropped' = dropped \cup {[edit |-> doc[f], whole |-> s.whole] : f \in Forgotten(doc, s.doc)}
    BY DEF Accept
  <2>2. ASSUME NEW x \in dropped'
        PROVE  ~x.whole
    <3>1. CASE x \in dropped
      BY <1>1, <3>1 DEF KeptWhenWhole
    <3>2. CASE x \notin dropped
      <4>1. PICK f \in Forgotten(doc, s.doc) : x = [edit |-> doc[f], whole |-> s.whole]
        BY <2>1, <3>2
      <4> QED
        BY <1>6, <4>1
    <3> QED
      BY <3>1, <3>2
  <2> QED
    BY <2>2 DEF KeptWhenWhole
<1> QED
  BY <1>2, <1>4, <1>5, <1>7

\* One save is replaced by what it has become, or is over.
LEMMA SaveMoves ==
  ASSUME IInv, Onwards, ServerTyped', LineageIsClosed', KeptWhenWhole',
         NEW t \in Tabs, NEW s \in saves[t], NEW N, \A n \in N : GoodSave(t, n)',
         saves' = [saves EXCEPT ![t] = (@ \ {s}) \cup N],
         lineage' = lineage, copy' = copy, rev' = rev, dialog' = dialog, loads' = loads,
         asked' = asked, busy' \in [Tabs -> BOOLEAN], refresh' \in [Tabs -> BOOLEAN]
  PROVE  IInv'
<1>0. TabsTyped /\ LoadsAreCounted
  BY DEF IInv
<1>1. saves'[t] = (saves[t] \ {s}) \cup N /\ DOMAIN saves' = Tabs
  BY <1>0 DEF TabsTyped
<1>2. stored' \in Nat /\ Len(lineage') \in Nat
  BY DEF ServerTyped, LineageIsClosed
<1>3. Copies' = Copies
  BY DEF Copies, Documents, Written
<1>4. TabsTyped' /\ OthersKeep(t)
  BY <1>0, <1>1, <1>3 DEF TabsTyped, OthersKeep
<1>5. IsFiniteSet(loads'[t]) /\ copy'[t].gen + Cardinality(loads'[t]) <= asked'[t]
  BY <1>0 DEF LoadsAreCounted
<1>6. \A r \in saves[t] : GoodSave(t, r)'
  BY <1>2, SaveStays DEF IInv
<1>7. \A r \in saves'[t] : GoodSave(t, r)'
  BY <1>1, <1>6
<1>8. \A l \in loads'[t] : GoodLoad(l)'
  BY <1>2, LoadStays DEF IInv
<1>9. GoodCopy(t)' /\ GoodDialog(t)'
  BY <1>2, CopyStays, DialogStays
<1> QED
  BY <1>4, <1>5, <1>7, <1>8, <1>9, OneTab

LEMMA AcceptStep ==
  ASSUME IInv, NEW t \in Tabs, NEW s \in saves[t], s.at \in {"sent", "adrift"}, Accept(s),
         saves' = [saves EXCEPT ![t] = (@ \ {s}) \cup
              IF s.at = "adrift" THEN {} ELSE {[s EXCEPT !.at = "saved", !.is = stored']}],
         lineage' = lineage, copy' = copy, rev' = rev, dialog' = dialog, loads' = loads,
         asked' = asked, busy' = busy, refresh' = refresh
  PROVE  IInv'
<1>1. /\ Onwards /\ ServerTyped' /\ LineageIsClosed' /\ KeptWhenWhole'
      /\ stored' > 0 /\ doc' = s.doc
  BY AcceptGoesOn
<1>2. PICK is : is = stored'
  OBVIOUS
<1>3. PICK m : m = [s EXCEPT !.at = "saved", !.is = is]
  OBVIOUS
<1>4. stored' \in Nat /\ Len(lineage') \in Nat
  BY <1>1 DEF ServerTyped, LineageIsClosed
<1>5. GoodSave(t, s) /\ GoodSave(t, s)'
  BY <1>1, <1>4, SaveStays DEF IInv
<1>6. m = [doc |-> s.doc, rev |-> s.rev, raised |-> s.raised, gen |-> s.gen, whole |-> s.whole,
           at |-> "saved", is |-> is, answer |-> s.answer]
  <2>1. s = [doc |-> s.doc, rev |-> s.rev, raised |-> s.raised, gen |-> s.gen, whole |-> s.whole,
             at |-> s.at, is |-> s.is, answer |-> s.answer]
    BY <1>5 DEF GoodSave
  <2> QED
    BY <1>3, <2>1
<1>7. /\ m = [doc |-> m.doc, rev |-> m.rev, raised |-> m.raised, gen |-> m.gen, whole |-> m.whole,
              at |-> m.at, is |-> m.is, answer |-> m.answer]
      /\ m.doc = s.doc /\ m.rev = s.rev /\ m.gen = s.gen /\ m.whole = s.whole
      /\ m.at = "saved" /\ m.is = is
  BY <1>6
<1>8. is \in Nat /\ is # 0 /\ is <= stored' /\ doc' = s.doc
  BY <1>1, <1>2, <1>4
<1>9. GoodSave(t, m)'
  BY <1>5, <1>7, <1>8 DEF GoodSave
<1>10. PICK N : N = IF s.at = "adrift" THEN {} ELSE {m}
  OBVIOUS
<1>11. \A n \in N : GoodSave(t, n)'
  BY <1>9, <1>10
<1>12. saves' = [saves EXCEPT ![t] = (@ \ {s}) \cup N]
  BY <1>2, <1>3, <1>10
<1>13. busy' \in [Tabs -> BOOLEAN] /\ refresh' \in [Tabs -> BOOLEAN]
  BY DEF IInv, TabsTyped
<1> QED
  BY <1>1, <1>11, <1>12, <1>13, SaveMoves

\* What a save has become that no longer says anything of the server.
LEMMA LaterSave ==
  ASSUME IInv, Quiet, copy' = copy, NEW t \in Tabs, NEW s \in saves[t], NEW m,
         \/ s.at = "sent" /\ m = [s EXCEPT !.at = "adrift", !.raised = FALSE, !.gen = 0]
         \/ s.at \in {"sent", "adrift"} /\ m = [s EXCEPT !.at = "refused", !.gen = 0]
         \/ s.at = "saved" /\ m = [s EXCEPT !.at = "read", !.answer = stored],
         GoodCopy(t)
  PROVE  GoodSave(t, m)'
<1>1. /\ GoodSave(t, s) /\ GoodSave(t, s)' /\ copy[t].gen \in Nat /\ stored \in Nat /\ 0 \in Nat
  BY SavesStay DEF IInv, TabsTyped, Copies, ServerTyped
<1>2. s = [doc |-> s.doc, rev |-> s.rev, raised |-> s.raised, gen |-> s.gen, whole |-> s.whole,
           at |-> s.at, is |-> s.is, answer |-> s.answer]
  BY <1>1 DEF GoodSave
<1>3. CASE s.at = "saved" /\ m = [s EXCEPT !.at = "read", !.answer = stored]
  <2>1. m = [doc |-> s.doc, rev |-> s.rev, raised |-> s.raised, gen |-> s.gen, whole |-> s.whole,
             at |-> "read", is |-> s.is, answer |-> stored]
    BY <1>2, <1>3
  <2>2. /\ m = [doc |-> m.doc, rev |-> m.rev, raised |-> m.raised, gen |-> m.gen, whole |-> m.whole,
                at |-> m.at, is |-> m.is, answer |-> m.answer]
        /\ m.doc = s.doc /\ m.rev = s.rev /\ m.gen = s.gen /\ m.whole = s.whole
        /\ m.at = "read" /\ m.is = s.is /\ m.answer = stored
    BY <2>1
  <2> QED
    BY <1>1, <1>3, <2>2 DEF GoodSave
<1>4. CASE \/ s.at = "sent" /\ m = [s EXCEPT !.at = "adrift", !.raised = FALSE, !.gen = 0]
           \/ s.at \in {"sent", "adrift"} /\ m = [s EXCEPT !.at = "refused", !.gen = 0]
  <2>0. PICK at \in {"adrift", "refused"} : \E raised :
          m = [doc |-> s.doc, rev |-> s.rev, raised |-> raised, gen |-> 0, whole |-> s.whole,
               at |-> at, is |-> s.is, answer |-> s.answer]
    <3>1. CASE m = [s EXCEPT !.at = "adrift", !.raised = FALSE, !.gen = 0]
      <4>1. m = [doc |-> s.doc, rev |-> s.rev, raised |-> FALSE, gen |-> 0, whole |-> s.whole,
                 at |-> "adrift", is |-> s.is, answer |-> s.answer]
        BY <1>2, <3>1
      <4> QED
        BY <4>1
    <3>2. CASE m = [s EXCEPT !.at = "refused", !.gen = 0]
      <4>1. m = [doc |-> s.doc, rev |-> s.rev, raised |-> s.raised, gen |-> 0, whole |-> s.whole,
                 at |-> "refused", is |-> s.is, answer |-> s.answer]
        BY <1>2, <3>2
      <4> QED
        BY <4>1
    <3> QED
      BY <1>4, <3>1, <3>2
  <2>1. PICK raised :
          m = [doc |-> s.doc, rev |-> s.rev, raised |-> raised, gen |-> 0, whole |-> s.whole,
               at |-> at, is |-> s.is, answer |-> s.answer]
    BY <2>0
  <2>2. /\ m = [doc |-> m.doc, rev |-> m.rev, raised |-> m.raised, gen |-> m.gen, whole |-> m.whole,
                at |-> m.at, is |-> m.is, answer |-> m.answer]
        /\ m.doc = s.doc /\ m.rev = s.rev /\ m.gen = 0 /\ m.whole = s.whole
        /\ m.at = at
    BY <2>1
  <2>3. m.gen \in Nat /\ m.gen <= copy'[t].gen /\ ~(m.gen = copy'[t].gen /\ copy'[t].whole)
    BY <1>1, <2>2 DEF GoodCopy
  <2>4. s.at \in {"sent", "adrift"}
    BY <1>4
  <2> QED
    BY <1>1, <2>2, <2>3, <2>4 DEF GoodSave
<1> QED
  BY <1>3, <1>4

\* A step of a save that leaves the server alone.
LEMMA QuietSaveStep ==
  ASSUME IInv, NEW t \in Tabs, NEW s \in saves[t],
         \/ /\ s.at \in {"sent", "adrift"} /\ Stale(s) /\ ServeSave(t, s)
            /\ UNCHANGED <<doc, stored, dropped>>
            /\ saves' = [saves EXCEPT ![t] = (@ \ {s}) \cup
                   IF s.at = "adrift" THEN {} ELSE {[s EXCEPT !.at = "refused", !.gen = 0]}]
         \/ AnswerSave(t, s) \/ RefusalArrives(t, s) \/ SaveFails(t, s)
  PROVE  IInv'
<1>0. TabsTyped /\ GoodCopy(t)
  BY DEF IInv
<1>1. /\ Quiet /\ copy' = copy /\ rev' = rev /\ dialog' = dialog /\ loads' = loads /\ asked' = asked
  BY DEF ServeSave, AnswerSave, RefusalArrives, SaveFails, End, Quiet, server
<1>2. busy' \in [Tabs -> BOOLEAN] /\ refresh' \in [Tabs -> BOOLEAN]
  BY <1>0 DEF ServeSave, AnswerSave, RefusalArrives, SaveFails, End, TabsTyped
<1>3. \/ saves' = [saves EXCEPT ![t] = @ \ {s}]
      \/ \E m : /\ saves' = [saves EXCEPT ![t] = (@ \ {s}) \cup {m}]
                /\ \/ s.at = "sent" /\ m = [s EXCEPT !.at = "adrift", !.raised = FALSE, !.gen = 0]
                   \/ s.at \in {"sent", "adrift"} /\ m = [s EXCEPT !.at = "refused", !.gen = 0]
                   \/ s.at = "saved" /\ m = [s EXCEPT !.at = "read", !.answer = stored]
  <2>1. CASE AnswerSave(t, s)
    BY <2>1 DEF AnswerSave
  <2>2. CASE RefusalArrives(t, s)
    BY <2>2 DEF RefusalArrives, End
  <2>3. CASE SaveFails(t, s) /\ s.at = "sent"
    BY <2>3 DEF SaveFails
  <2>4. CASE SaveFails(t, s) /\ s.at # "sent"
    BY <2>4 DEF SaveFails, End
  <2>5. CASE /\ s.at = "adrift" /\ saves' = [saves EXCEPT ![t] = (@ \ {s}) \cup
                   IF s.at = "adrift" THEN {} ELSE {[s EXCEPT !.at = "refused", !.gen = 0]}]
    BY <2>5
  <2>6. CASE /\ s.at = "sent" /\ saves' = [saves EXCEPT ![t] = (@ \ {s}) \cup
                   IF s.at = "adrift" THEN {} ELSE {[s EXCEPT !.at = "refused", !.gen = 0]}]
    BY <2>6
  <2> QED
    BY <2>1, <2>2, <2>3, <2>4, <2>5, <2>6
<1>4. ASSUME NEW N, saves' = [saves EXCEPT ![t] = (@ \ {s}) \cup N], \A n \in N : GoodSave(t, n)'
      PROVE  IInv'
  BY <1>1, <1>2, <1>4, QuietGoesOn, SaveMoves DEF Quiet
<1>5. CASE saves' = [saves EXCEPT ![t] = @ \ {s}]
  <2>1. PICK N : N = {}
    OBVIOUS
  <2>2. saves' = [saves EXCEPT ![t] = (@ \ {s}) \cup N] /\ \A n \in N : GoodSave(t, n)'
    BY <1>5, <2>1
  <2> QED
    BY <1>4, <2>2
<1>6. CASE saves' # [saves EXCEPT ![t] = @ \ {s}]
  <2>1. PICK m : /\ saves' = [saves EXCEPT ![t] = (@ \ {s}) \cup {m}]
                 /\ \/ s.at = "sent" /\ m = [s EXCEPT !.at = "adrift", !.raised = FALSE, !.gen = 0]
                    \/ s.at \in {"sent", "adrift"} /\ m = [s EXCEPT !.at = "refused", !.gen = 0]
                    \/ s.at = "saved" /\ m = [s EXCEPT !.at = "read", !.answer = stored]
    BY <1>3, <1>6
  <2>2. GoodSave(t, m)'
    BY <1>0, <1>1, <2>1, LaterSave
  <2>3. PICK N : N = {m}
    OBVIOUS
  <2>4. saves' = [saves EXCEPT ![t] = (@ \ {s}) \cup N] /\ \A n \in N : GoodSave(t, n)'
    BY <2>1, <2>2, <2>3
  <2> QED
    BY <1>4, <2>4
<1> QED
  BY <1>5, <1>6

LEMMA ServeSaveStep ==
  ASSUME IInv, NEW t \in Tabs, NEW s \in saves[t], s.at \in {"sent", "adrift"}, ServeSave(t, s)
  PROVE  IInv'
<1>1. CASE Accept(s)
  BY <1>1, AcceptStep DEF ServeSave, Accept
<1>2. CASE ~Accept(s)
  BY <1>2, QuietSaveStep DEF ServeSave
<1> QED
  BY <1>1, <1>2

\* The answer takes the revision the tab would send to the stored one: what the tab holds
\* stays whole only when it holds that save and all it edited since.
LEMMA SaveArrivesStep ==
  ASSUME IInv, NEW t \in Tabs, NEW s \in saves[t], SaveArrives(t, s)
  PROVE  IInv'
<1>0. /\ TabsTyped /\ LoadsAreCounted /\ GoodCopy(t) /\ GoodDialog(t) /\ GoodSave(t, s)
      /\ copy[t] \in Copies /\ copy[t].doc \in Documents /\ copy[t].gen \in Nat /\ copy[t].whole \in BOOLEAN
      /\ stored \in Nat
  BY DEF IInv, TabsTyped, Copies, ServerTyped
<1>1. PICK whole \in BOOLEAN : whole = (copy[t].whole /\ s.gen = copy[t].gen /\ s.answer = s.is)
  OBVIOUS
<1>2. /\ Quiet /\ s.at = "read" /\ saves' = [saves EXCEPT ![t] = @ \ {s}]
      /\ rev' = [rev EXCEPT ![t] = s.answer]
      /\ copy' = [copy EXCEPT ![t].whole = whole]
      /\ dialog' = dialog /\ loads' = loads /\ asked' = asked /\ refresh' = refresh
  BY <1>1 DEF SaveArrives, End, Quiet, server
<1>3. /\ saves'[t] = saves[t] \ {s} /\ DOMAIN saves' = Tabs /\ busy' \in [Tabs -> BOOLEAN]
      /\ rev'[t] = s.answer /\ s.answer \in Nat /\ rev' \in [Tabs -> Nat]
  BY <1>0, <1>2 DEF SaveArrives, End, TabsTyped, GoodSave
<1>4. copy'[t] = [doc |-> copy[t].doc, gen |-> copy[t].gen, whole |-> whole]
  BY <1>0, <1>2 DEF TabsTyped, Copies
<1>5. copy'[t].doc = copy[t].doc /\ copy'[t].gen = copy[t].gen /\ copy'[t].whole = whole /\ copy'[t] \in Copies
  BY <1>0, <1>4 DEF Copies
<1>6. copy' \in [Tabs -> Copies]
  BY <1>0, <1>2, <1>5 DEF TabsTyped
<1>7. TabsTyped'
  BY <1>0, <1>2, <1>3, <1>6, QuietGoesOn DEF TabsTyped
<1>8. OthersKeep(t)
  BY <1>0, <1>2 DEF OthersKeep, TabsTyped
<1>9. IsFiniteSet(loads'[t]) /\ copy'[t].gen + Cardinality(loads'[t]) <= asked'[t]
  BY <1>0, <1>2, <1>5 DEF LoadsAreCounted
<1>10. GoodCopy(t)'
  <2>1. CASE whole
    <3>1. /\ copy[t].gen > 0 /\ Under(s.doc, copy[t].doc) /\ s.answer = s.is
          /\ s.is \in Nat /\ s.is # 0 /\ s.is <= stored /\ (s.is = stored => doc = s.doc)
      BY <1>0, <1>1, <1>2, <2>1 DEF GoodCopy, GoodSave
    <3>2. Fresh(copy[t].doc, s.answer)
      BY <1>0, <3>1 DEF Fresh
    <3>3. PICK d \in Documents : d = copy[t].doc
      BY <1>0
    <3>4. Fresh(d, s.answer)'
      BY <1>2, <1>3, <3>2, <3>3, QuietGoesOn, FreshStays
    <3> QED
      BY <1>3, <1>5, <3>1, <3>3, <3>4 DEF GoodCopy
  <2>2. CASE ~whole
    <3>1. ~copy'[t].whole
      BY <1>5, <2>2, Zenon
    <3> QED
      BY <3>1 DEF GoodCopy
  <2> QED
    BY <2>1, <2>2
<1>11. GoodDialog(t)'
  BY <1>2, <1>5, QuietGoesOn, DialogStays
<1>12. copy'[t].whole => copy[t].whole
  <2>1. whole => copy[t].whole
    BY <1>1, Zenon
  <2> QED
    BY <1>5, <2>1, Zenon
<1>13. \A r \in saves'[t] : GoodSave(t, r)'
  BY <1>2, <1>3, <1>5, <1>12, SavesStay
<1> QED
  BY <1>2, <1>7, <1>8, <1>9, <1>10, <1>11, <1>13, LoadsStay, QuietGoesOn, OneTab

-----------------------------------------------------------------------------
LEMMA LoadOrRefreshStep ==
  ASSUME IInv, NEW t \in Tabs, Load(t) \/ Refresh(t)
  PROVE  IInv'
<1>1. /\ Quiet /\ StartLoad(t) /\ copy' = copy /\ rev' = rev /\ dialog' = dialog /\ saves' = saves
      /\ refresh' \in [Tabs -> BOOLEAN]
  BY DEF Load, Refresh, Quiet, server, IInv, TabsTyped
<1> QED
  BY <1>1, StartLoadStep

LEMMA UnchangedStep ==
  ASSUME IInv, UNCHANGED vars
  PROVE  IInv'
BY DEF vars, server, IInv, ServerTyped, TabsTyped, Copies, Documents, Written, Below, LineageIsClosed,
       LoadsAreCounted, KeptWhenWhole, GoodCopy, GoodDialog, GoodLoad, GoodSave, Fresh, Under

LEMMA InitIInv == Init => IInv
<1> SUFFICES ASSUME Init
             PROVE  IInv
  OBVIOUS
<1>1. Written = {0} /\ Len(lineage) = 0 /\ doc \in Documents
  BY DEF Init, Written, Documents
<1>2. ServerTyped /\ KeptWhenWhole
  BY <1>1, DocumentAssumption DEF Init, ServerTyped, KeptWhenWhole
<1>3. LineageIsClosed
  BY <1>1, DocumentAssumption DEF Init, LineageIsClosed, Below
<1>4. TabsTyped
  BY <1>1, DocumentAssumption DEF Init, TabsTyped, Copies
<1>5. LoadsAreCounted
  BY FS_EmptySet DEF Init, LoadsAreCounted
<1>6. \A t \in Tabs : GoodCopy(t) /\ GoodDialog(t)
  BY DEF Init, GoodCopy, GoodDialog
<1>7. \A t \in Tabs : loads[t] = {} /\ saves[t] = {}
  BY DEF Init
<1> QED
  BY <1>2, <1>3, <1>4, <1>5, <1>6, <1>7 DEF IInv

LEMMA NextIInv == IInv /\ [Next]_vars => IInv'
<1> SUFFICES ASSUME IInv, [Next]_vars
             PROVE  IInv'
  OBVIOUS
<1>1. ASSUME NEW t \in Tabs, Person(t)
      PROVE  IInv'
  BY <1>1, LoadOrRefreshStep, ConfirmStep, DialogStep, EditStep DEF Person
<1>2. ASSUME NEW t \in Tabs, NEW l \in loads[t],
             ReadRows(t, l) \/ ReadSettings(t, l) \/ LoadArrives(t, l) \/ LoadFails(t, l)
      PROVE  IInv'
  BY <1>2, ReadRowsStep, ReadSettingsStep, LoadEnds
<1>3. ASSUME NEW t \in Tabs, NEW s \in saves[t],
             \/ s.at \in {"sent", "adrift"} /\ ServeSave(t, s)
             \/ AnswerSave(t, s) \/ SaveArrives(t, s) \/ RefusalArrives(t, s) \/ SaveFails(t, s)
      PROVE  IInv'
  BY <1>3, ServeSaveStep, QuietSaveStep, SaveArrivesStep
<1>4. CASE UNCHANGED vars
  BY <1>4, UnchangedStep
<1>5. CASE Next
  BY <1>1, <1>2, <1>3, <1>5 DEF Next, Network
<1> QED
  BY <1>4, <1>5

LEMMA Invariance == Spec => []IInv
BY InitIInv, NextIInv, PTL DEF Spec

\* What is on the server and on the screens is always a document of edits that were
\* made, under a revision; the history that the other two properties speak of stays
\* within the bounds; and a tab never takes in more loads than it asked for.
THEOREM TypeCorrect == Spec => []TypeOK
<1>1. IInv => TypeOK
  <2> SUFFICES ASSUME IInv
               PROVE  TypeOK
    OBVIOUS
  <2>1. Written \subseteq Edits /\ Documents \subseteq Document
    BY DocumentAssumption DEF IInv, LineageIsClosed, Written, Edits, Documents, Document
  <2>2. doc \in Document /\ stored \in Nat /\ lineage \in Seq(SUBSET Edits) /\ Len(lineage) <= MaxEdits
    BY <2>1 DEF IInv, ServerTyped, LineageIsClosed
  <2>3. ASSUME NEW t \in Tabs
        PROVE  /\ copy[t] \in [doc : Document, gen : 0 .. MaxLoads, whole : BOOLEAN]
               /\ rev[t] \in Nat /\ busy[t] \in BOOLEAN /\ refresh[t] \in BOOLEAN
               /\ asked[t] \in 0 .. MaxLoads
    <3>1. /\ copy[t] \in Copies /\ copy[t].gen \in Nat /\ asked[t] \in 0 .. MaxLoads /\ MaxLoads \in Nat
          /\ rev[t] \in Nat /\ busy[t] \in BOOLEAN /\ refresh[t] \in BOOLEAN
      BY DocumentAssumption DEF IInv, TabsTyped, Copies
    <3>2. Cardinality(loads[t]) \in Nat /\ copy[t].gen + Cardinality(loads[t]) <= asked[t]
      BY FS_CardinalityType DEF IInv, LoadsAreCounted
    <3>3. copy[t].gen \in 0 .. MaxLoads
      BY <3>1, <3>2
    <3> QED
      BY <2>1, <3>1, <3>3 DEF Copies
  <2>4. \A t \in Tabs : \A s \in saves[t] : s.doc \in Document /\ s.rev \in Nat
    BY <2>1 DEF IInv, GoodSave
  <2> QED
    BY <2>2, <2>3, <2>4 DEF TypeOK
<1> QED
  BY <1>1, Invariance, PTL

\* The lock on the revision does what it is there for, as long as what a tab holds and
\* its revision belong together: whoever it would let save has every edit of the
\* server's document under its own.
THEOREM WhoeverPassesKnows == Spec => []WhoeverPassesTheLockKnows
<1>1. IInv => WhoeverPassesTheLockKnows
  <2> SUFFICES ASSUME IInv, NEW t \in Tabs, rev[t] >= stored, copy[t].whole
               PROVE  Forgotten(doc, copy[t].doc) = {}
    BY DEF WhoeverPassesTheLockKnows
  <2>1. Fresh(copy[t].doc, rev[t]) /\ stored \in Nat /\ rev[t] \in Nat
    BY DEF IInv, GoodCopy, ServerTyped, TabsTyped
  <2>2. Under(doc, copy[t].doc)
    BY <2>1 DEF Fresh
  <2> QED
    BY <2>2, NothingForgotten
<1> QED
  BY <1>1, Invariance, PTL

\* No save replaces an edit it was not made on top of, under the same proviso, whatever
\* the tabs do meanwhile and whichever calls and answers are lost.
THEOREM WholeSavesKeep == Spec => []KeptWhenWhole
<1>1. IInv => KeptWhenWhole
  BY DEF IInv
<1> QED
  BY <1>1, Invariance, PTL
=============================================================================
