---------------------- MODULE WorkspaceDocument_proofs ----------------------
(***************************************************************************)
(* Theorems about the workspace document, for any number of tabs, edits    *)
(* and faults: what says saved is what the server confirmed, what is       *)
(* accepted was known, and what is refused is stale.                       *)
(***************************************************************************)
EXTENDS WorkspaceDocument, TLAPS

Doc == [rev : Nat, marks : SUBSET Nat]

TabType == [doc : Doc, past : Seq(Doc), future : Seq(Doc), rev : Nat,
            state : {"saved", "unsaved", "saving", "failed", "conflict"},
            conflict : Doc, loaded : BOOLEAN, knows : Nat, offered : Nat,
            base : SUBSET Nat]

PutType == [ver : Nat, tab : Tabs, rev : Nat, sent : Doc,
            at : {"sent", "compared", "stale", "written"}, was : Nat,
            heard : BOOLEAN, loaded : BOOLEAN, knows : Nat]

GetType == [tab : Tabs, why : {"load", "conflict"}, at : {"sent", "answered"},
            ver : Nat, doc : Doc]

Typed ==
  /\ file \in [ver : Nat, doc : Doc] /\ tab \in [Tabs -> TabType]
  /\ puts \in SUBSET PutType /\ gets \in SUBSET GetType
  /\ writes \in Nat /\ outdated \in SUBSET Nat
  /\ left \in [{"edit", "fault"} -> Nat]

-----------------------------------------------------------------------------
(* What a tab, a request or an answer knows: a write and its revision. *)

\* No write ahead has its number; if it is of the document stored, so is the
\* revision; and unless it was replaced when a save raced or a reset came, its
\* revision is at most the one stored, and that of no other document.
Sound(v, r) ==
  /\ v \in 0..writes /\ r \in Nat /\ (v = 0 => r = 0)
  /\ v = file.ver => r = file.doc.rev
  /\ v \in outdated \/ (r <= file.doc.rev /\ (r = file.doc.rev => v = file.ver))
  /\ \A q \in puts : q.at \in {"sent", "compared"} => q.ver # v

Distinct == \A q \in puts : q.ver \in 1..writes /\ \A p \in puts : p.ver = q.ver => p = q

SoundTab(t) ==
  /\ tab[t].loaded => Sound(tab[t].knows, tab[t].rev)
  /\ tab[t].conflict # NoDoc => Sound(tab[t].offered, tab[t].conflict.rev)

SoundPut(q) ==
  /\ q.loaded => Sound(q.knows, q.rev)
  /\ q.at = "compared" => Sound(q.was, q.rev)
  /\ q.at = "written" => Sound(q.ver, q.rev + 1)

Known ==
  /\ Sound(file.ver, file.doc.rev)
  /\ \A t \in Tabs : SoundTab(t)
  /\ \A q \in puts : SoundPut(q)
  /\ \A g \in gets : g.at = "answered" => Sound(g.ver, g.doc.rev)

IInv == Typed /\ Distinct /\ Known

-----------------------------------------------------------------------------
(* Types *)

LEMMA DocTypes == DefaultDoc \in Doc /\ DemoDoc \in Doc /\ NoDoc \in Doc
BY DEF DefaultDoc, DemoDoc, NoDoc, Demo, Doc

LEMMA AdoptType == \A s \in TabType, d \in Doc : Adopt(s, d) \in TabType
<1> TAKE s \in TabType, d \in Doc
<1>1. <<>> \in Seq(Doc) /\ d.rev \in Nat /\ d.marks \in SUBSET Nat
  BY DEF Doc
<1>2. QED
  BY <1>1 DEF Adopt, TabType

LEMMA MarkedType ==
  \A s \in TabType, e \in {"edited", "saveStarted", "saveFailed", "conflictSeen",
                           "saveSucceeded", "adopted"} : Marked(s, e) \in TabType
<1> TAKE s \in TabType, e \in {"edited", "saveStarted", "saveFailed", "conflictSeen",
                              "saveSucceeded", "adopted"}
<1>1. nextSaveState(s.state, e) \in {"saved", "unsaved", "saving", "failed", "conflict"}
  BY DEF nextSaveState
<1>2. Marked(s, e) = [s EXCEPT !.state = nextSaveState(s.state, e)]
  BY DEF Marked, TabType
<1>3. QED
  BY <1>1, <1>2 DEF TabType

LEMMA ChangeType ==
  ASSUME Typed, NEW t \in Tabs, NEW s \in TabType, Change(t, s)
  PROVE  Typed'
<1>1. Marked(s, "edited") \in TabType
  BY MarkedType
<1>2. QED
  BY <1>1 DEF Typed, Change, Spend

LEMMA SendType ==
  ASSUME Typed, NEW t \in Tabs, NEW s \in TabType, Send(t, s)
  PROVE  Typed'
<1> DEFINE q == [ver |-> writes', tab |-> t, rev |-> s.rev, sent |-> s.doc, at |-> "sent",
                 was |-> 0, heard |-> TRUE, loaded |-> s.loaded, knows |-> s.knows]
<1>1. Marked(s, "saveStarted") \in TabType
  BY MarkedType
<1>2. writes' \in Nat
  BY DEF Typed, Send
<1>3. q \in PutType
  BY <1>2 DEF TabType, PutType
<1>4. puts' = puts \cup {q}
  BY DEF Send
<1> HIDE DEF q
<1>5. puts' \in SUBSET PutType
  BY <1>3, <1>4 DEF Typed
<1>6. QED
  BY <1>1, <1>2, <1>5 DEF Typed, Send

\* An edit changes the document, what can be undone and what can be redone.
LEMMA EditMade ==
  ASSUME Typed, NEW t \in Tabs, Edits(t)
  PROVE  \E doc \in Doc, past, future \in Seq(Doc) :
           Change(t, [tab[t] EXCEPT !.doc = doc, !.past = past, !.future = future])
<1> DEFINE s == tab[t]
<1>0. s \in TabType
  BY DEF Typed
<1>1. CASE Edit(t)
  <2>1. left["edit"] \in Nat
    BY DEF Typed
  <2>2. s.past \in Seq(Doc) /\ s.doc \in Doc
    BY <1>0 DEF TabType
  <2>3. Append(s.past, s.doc) \in Seq(Doc) /\ <<>> \in Seq(Doc)
    BY <2>2
  <2>4. [s.doc EXCEPT !.marks = @ \cup {left["edit"]}] \in Doc
    BY <2>1, <2>2 DEF Doc
  <2>5. [s EXCEPT !.past = Append(@, s.doc), !.future = <<>>,
                  !.doc.marks = @ \cup {left["edit"]}]
        = [s EXCEPT !.doc = [s.doc EXCEPT !.marks = @ \cup {left["edit"]}],
                    !.past = Append(s.past, s.doc), !.future = <<>>]
    BY <1>0 DEF TabType
  <2>6. QED
    BY <1>1, <2>3, <2>4, <2>5 DEF Edit
<1>2. CASE Undo(t)
  <2> DEFINE n == Len(s.past)
  <2>1. s.past \in Seq(Doc) /\ s.future \in Seq(Doc) /\ s.doc \in Doc
    BY <1>0 DEF TabType
  <2>2. n \in Nat /\ n > 0
    BY <1>2, <2>1 DEF Undo
  <2>3. s.past[n] \in Doc /\ SubSeq(s.past, 1, n - 1) \in Seq(Doc)
    BY <2>1, <2>2
  <2>4. <<s.doc>> \o s.future \in Seq(Doc)
    BY <2>1
  <2>5. [s EXCEPT !.doc = s.past[n], !.past = SubSeq(s.past, 1, n - 1),
                  !.future = <<s.doc>> \o @]
        = [s EXCEPT !.doc = s.past[n], !.past = SubSeq(s.past, 1, n - 1),
                    !.future = <<s.doc>> \o s.future]
    BY <1>0 DEF TabType
  <2>6. QED
    BY <1>2, <2>3, <2>4, <2>5 DEF Undo
<1>3. CASE Redo(t)
  <2>1. s.past \in Seq(Doc) /\ s.future \in Seq(Doc) /\ s.future # <<>> /\ s.doc \in Doc
    BY <1>0, <1>3 DEF TabType, Redo
  <2>2. Head(s.future) \in Doc /\ Tail(s.future) \in Seq(Doc) /\ Append(s.past, s.doc) \in Seq(Doc)
    BY <2>1
  <2>3. [s EXCEPT !.doc = Head(s.future), !.future = Tail(@),
                  !.past = Append(@, s.doc)]
        = [s EXCEPT !.doc = Head(s.future), !.past = Append(s.past, s.doc),
                    !.future = Tail(s.future)]
    BY <1>0 DEF TabType
  <2>4. QED
    BY <1>3, <2>2, <2>3 DEF Redo
<1>4. QED
  BY <1>1, <1>2, <1>3 DEF Edits

LEMMA EditsType == ASSUME Typed, NEW t \in Tabs, Edits(t) PROVE Typed'
<1>1. PICK doc \in Doc, past \in Seq(Doc), future \in Seq(Doc) :
        Change(t, [tab[t] EXCEPT !.doc = doc, !.past = past, !.future = future])
  BY EditMade
<1>2. [tab[t] EXCEPT !.doc = doc, !.past = past, !.future = future] \in TabType
  BY DEF Typed, TabType
<1>3. QED
  BY <1>1, <1>2, ChangeType

\* What a request, an answer or the user does to a tab keeps its type.
LEMMA TabTypes ==
  ASSUME Typed, NEW t \in Tabs
  PROVE  /\ tab[t] \in TabType
         /\ \A d \in Doc, v \in Nat : [Adopt(tab[t], d) EXCEPT !.loaded = TRUE, !.knows = v] \in TabType
         /\ \A d \in Doc, v \in Nat : [Adopt(tab[t], d) EXCEPT !.conflict = NoDoc, !.loaded = TRUE,
                                                    !.knows = v] \in TabType
         /\ \A r, v \in Nat : [tab[t] EXCEPT !.conflict = NoDoc, !.rev = r, !.knows = v] \in TabType
         /\ \A r, v \in Nat, b \in SUBSET Nat :
              [tab[t] EXCEPT !.rev = r, !.knows = v, !.base = b] \in TabType
         /\ \A d \in Doc, v \in Nat : [tab[t] EXCEPT !.conflict = d, !.offered = v] \in TabType
<1>1. tab[t] \in TabType
  BY DEF Typed
<1>2. \A d \in Doc : Adopt(tab[t], d) \in TabType
  BY <1>1, AdoptType
<1>3. NoDoc \in Doc
  BY DocTypes
<1> DEFINE s == tab[t]
<1>4. ASSUME NEW a \in TabType, NEW v \in Nat
      PROVE  /\ [a EXCEPT !.loaded = TRUE, !.knows = v] \in TabType
             /\ [a EXCEPT !.conflict = NoDoc, !.loaded = TRUE, !.knows = v] \in TabType
             /\ \A r \in Nat : [a EXCEPT !.conflict = NoDoc, !.rev = r, !.knows = v] \in TabType
             /\ \A r \in Nat, b \in SUBSET Nat :
                  [a EXCEPT !.rev = r, !.knows = v, !.base = b] \in TabType
             /\ \A d \in Doc : [a EXCEPT !.conflict = d, !.offered = v] \in TabType
  <2>1. [a EXCEPT !.loaded = TRUE, !.knows = v] \in TabType
    BY DEF TabType
  <2>2. [a EXCEPT !.conflict = NoDoc, !.loaded = TRUE, !.knows = v] \in TabType
    BY <1>3 DEF TabType
  <2>3. \A r \in Nat : [a EXCEPT !.conflict = NoDoc, !.rev = r, !.knows = v] \in TabType
    BY <1>3 DEF TabType
  <2>4. \A r \in Nat, b \in SUBSET Nat :
          [a EXCEPT !.rev = r, !.knows = v, !.base = b] \in TabType
    BY DEF TabType
  <2>5. \A d \in Doc : [a EXCEPT !.conflict = d, !.offered = v] \in TabType
    BY DEF TabType
  <2>6. QED
    BY <2>1, <2>2, <2>3, <2>4, <2>5
<1>5. QED
  BY <1>1, <1>2, <1>4

LEMMA ResolveType == ASSUME Typed, NEW t \in Tabs, Resolve(t) PROVE Typed'
<1>0. tab[t] \in TabType /\ tab[t].conflict \in Doc /\ tab[t].conflict.rev \in Nat /\ tab[t].offered \in Nat
  BY DEF Typed, TabType, Doc
<1>1. CASE Save(t)
  BY <1>0, <1>1, SendType DEF Save
<1>2. CASE Overwrite(t)
  <2>1. [tab[t] EXCEPT !.conflict = NoDoc, !.rev = tab[t].conflict.rev,
                       !.knows = tab[t].offered] \in TabType
    BY <1>0, TabTypes
  <2>2. QED
    BY <1>2, <2>1, SendType DEF Overwrite
<1>3. CASE LoadTheirs(t)
  <2> DEFINE s == [Adopt(tab[t], tab[t].conflict) EXCEPT
                     !.conflict = NoDoc, !.loaded = TRUE, !.knows = tab[t].offered]
  <2>1. Marked(s, "adopted") \in TabType
    BY <1>0, TabTypes, MarkedType
  <2>2. QED
    BY <1>3, <2>1 DEF LoadTheirs, Typed
<1>4. QED
  BY <1>1, <1>2, <1>3 DEF Resolve

\* The steps of a save under way change nothing of it that a tab asked for.
LEMMA PutTypes ==
  ASSUME Typed, NEW q \in puts
  PROVE  /\ q \in PutType /\ [q EXCEPT !.heard = FALSE] \in PutType
         /\ [q EXCEPT !.at = "written"] \in PutType
         /\ \A at \in {"compared", "stale"} : [q EXCEPT !.at = at, !.was = file.ver] \in PutType
BY DEF Typed, PutType

LEMMA AnswerType ==
  ASSUME Typed, NEW q \in puts, Answer(q) \/ SaveFails(q)
  PROVE  Typed'
<1>0. /\ q \in PutType /\ q.tab \in Tabs /\ q.rev + 1 \in Nat /\ q.ver \in Nat
      /\ q.sent.marks \in SUBSET Nat /\ [q EXCEPT !.heard = FALSE] \in PutType
  <2>1. q \in PutType /\ [q EXCEPT !.heard = FALSE] \in PutType
    BY PutTypes
  <2>2. q.sent \in Doc /\ q.tab \in Tabs /\ q.rev \in Nat /\ q.ver \in Nat
    BY <2>1 DEF PutType
  <2>3. QED
    BY <2>1, <2>2 DEF Doc
<1>1. CASE Saved(q)
  <2> DEFINE s == [tab[q.tab] EXCEPT !.rev = q.rev + 1, !.knows = q.ver, !.base = q.sent.marks]
  <2> DEFINE e == IF tab[q.tab].doc = q.sent THEN "saveSucceeded" ELSE "edited"
  <2>1. Marked(s, e) \in TabType
    BY <1>0, TabTypes, MarkedType
  <2>2. tab' = [tab EXCEPT ![q.tab] = Marked(s, e)]
    BY <1>1, <1>0 DEF Saved, Typed
  <2> HIDE DEF s, e
  <2>3. tab' \in [Tabs -> TabType]
    BY <2>1, <2>2 DEF Typed
  <2>4. QED
    BY <1>1, <2>3 DEF Saved, Typed
<1>2. CASE Conflicted(q)
  <2>1. Marked(tab[q.tab], "conflictSeen") \in TabType
    BY <1>0, TabTypes, MarkedType
  <2>2. Get(q.tab, "conflict") \in GetType
    BY <1>0, DocTypes DEF Get, GetType
  <2>3. QED
    BY <1>2, <2>1, <2>2 DEF Conflicted, Typed
<1>3. CASE SaveFails(q)
  <2>1. Marked(tab[q.tab], "saveFailed") \in TabType
    BY <1>0, TabTypes, MarkedType
  <2>2. left' \in [{"edit", "fault"} -> Nat]
    BY <1>3 DEF SaveFails, Spend, Typed
  <2>3. puts' \in SUBSET PutType
    BY <1>0, <1>3 DEF SaveFails, Typed
  <2>4. QED
    BY <1>3, <2>1, <2>2, <2>3 DEF SaveFails, Typed
<1>4. QED
  BY <1>1, <1>2, <1>3 DEF Answer

LEMMA ReadType ==
  ASSUME Typed, NEW g \in gets, Arrive(g) \/ ReadFails(g)
  PROVE  Typed'
<1>0. g \in GetType /\ g.tab \in Tabs /\ g.doc \in Doc /\ g.ver \in Nat
  BY DEF Typed, GetType
<1>1. CASE Loaded(g)
  BY <1>0, <1>1, TabTypes DEF Loaded, Typed
<1>2. CASE Offered(g)
  <2>1. tab' = [tab EXCEPT ![g.tab] = [tab[g.tab] EXCEPT !.conflict = g.doc, !.offered = g.ver]]
    BY <1>0, <1>2 DEF Offered, Typed, TabType
  <2>2. [tab[g.tab] EXCEPT !.conflict = g.doc, !.offered = g.ver] \in TabType
    BY <1>0, TabTypes
  <2>3. tab' \in [Tabs -> TabType]
    BY <2>1, <2>2 DEF Typed
  <2>4. QED
    BY <1>2, <2>3 DEF Offered, Typed
<1>3. CASE Read(g)
  <2>1. [g EXCEPT !.at = "answered", !.ver = file.ver, !.doc = file.doc] \in GetType
    BY <1>0 DEF GetType, Typed
  <2>2. QED
    BY <1>3, <2>1 DEF Read, Typed
<1>4. CASE ReadFails(g)
  BY <1>4 DEF ReadFails, Spend, Typed
<1>5. QED
  BY <1>1, <1>2, <1>3, <1>4 DEF Arrive

LEMMA ServeType == ASSUME Typed, NEW q \in puts, Serve(q) PROVE Typed'
<1>1. CASE Compare(q)
  BY <1>1, PutTypes DEF Compare, At, Typed
<1>2. CASE Write(q)
  <2>1. q.sent \in Doc /\ q.rev \in Nat /\ q.ver \in Nat
    BY PutTypes DEF PutType
  <2>2. [rev |-> q.rev + 1, marks |-> q.sent.marks] \in Doc
    BY <2>1 DEF Doc
  <2>3. file' \in [ver : Nat, doc : Doc]
    BY <1>2, <2>1, <2>2 DEF Write
  <2>4. outdated' \in SUBSET Nat
    BY <1>2 DEF Write, Typed, Stored
  <2>5. puts' \in SUBSET PutType
    BY <1>2, PutTypes DEF Write, Typed
  <2>6. QED
    BY <1>2, <2>3, <2>4, <2>5 DEF Write, Typed
<1>3. QED
  BY <1>1, <1>2 DEF Serve

LEMMA TypedStep == Typed /\ [Next]_vars => Typed'
<1> SUFFICES ASSUME Typed, [Next]_vars PROVE Typed'
  OBVIOUS
<1>1. CASE Reset
  <2>1. Stored \subseteq Nat
    BY DEF Stored, Typed
  <2>2. QED
    BY <1>1, <2>1, DocTypes DEF Reset, Spend, Typed
<1>2. CASE UNCHANGED vars
  BY <1>2 DEF vars, Typed
<1>3. QED
  BY <1>1, <1>2, EditsType, ResolveType, AnswerType, ReadType, ServeType DEF Next, Working

-----------------------------------------------------------------------------
(* How the saves under way move *)

Ahead(q) == q.at \in {"sent", "compared"}

LEMMA PutsMove ==
  ASSUME Typed, [Next]_vars
  PROVE  \/ puts' \subseteq puts /\ writes' = writes
         \/ \E r : /\ puts' = puts \cup {r} /\ r.ver = writes + 1
                  /\ writes' = writes + 1
         \/ \E q \in puts : \E r :
              /\ puts' = (puts \ {q}) \cup {r} /\ r.ver = q.ver
              /\ (Ahead(r) => Ahead(q)) /\ writes' = writes
<1>1. ASSUME NEW t \in Tabs, NEW s, Send(t, s)
      PROVE  \E r : puts' = puts \cup {r} /\ r.ver = writes + 1 /\ writes' = writes + 1
  BY <1>1 DEF Send
<1>2. ASSUME NEW t \in Tabs, Resolve(t)
      PROVE  \/ puts' \subseteq puts /\ writes' = writes
             \/ \E r : puts' = puts \cup {r} /\ r.ver = writes + 1 /\ writes' = writes + 1
  BY <1>1, <1>2 DEF Resolve, Save, Overwrite, LoadTheirs
<1>3. ASSUME NEW q \in puts, Compare(q) \/ Write(q) \/ SaveFails(q), ~(puts' \subseteq puts)
      PROVE  \E r : /\ puts' = (puts \ {q}) \cup {r} /\ r.ver = q.ver
                   /\ (Ahead(r) => Ahead(q)) /\ writes' = writes
  <2>0. q \in PutType
    BY DEF Typed
  <2>1. CASE Compare(q)
    <3> DEFINE at == IF q.rev = file.doc.rev THEN "compared" ELSE "stale"
    <3> DEFINE p == [q EXCEPT !.at = at, !.was = file.ver]
    <3>1. p.ver = q.ver /\ Ahead(q)
      BY <2>0, <2>1 DEF Compare, Ahead, PutType
    <3>2. puts' = (puts \ {q}) \cup {p} /\ writes' = writes
      BY <2>1 DEF Compare, At
    <3> HIDE DEF p
    <3>3. QED
      BY <3>1, <3>2
  <2>2. CASE Write(q)
    BY <1>3, <2>0, <2>2 DEF Write, Ahead, PutType
  <2>3. CASE SaveFails(q)
    <3> DEFINE p == [q EXCEPT !.heard = FALSE]
    <3>1. p.ver = q.ver /\ p.at = q.at
      BY <2>0 DEF PutType
    <3>2. puts' = (puts \ {q}) \cup {p} /\ writes' = writes
      BY <1>3, <2>3 DEF SaveFails
    <3>3. QED
      BY <3>1, <3>2 DEF Ahead
  <2>4. QED
    BY <1>3, <2>1, <2>2, <2>3
<1>4. CASE puts' \subseteq puts /\ writes' = writes
  BY <1>4
<1>5. ASSUME NEW q \in puts, Compare(q) \/ Write(q) \/ SaveFails(q) PROVE writes' = writes
  BY <1>5 DEF Compare, Write, SaveFails
<1>6. ASSUME NEW q \in puts, Saved(q) \/ Conflicted(q) PROVE puts' \subseteq puts /\ writes' = writes
  BY <1>6 DEF Saved, Conflicted
<1>7. ASSUME NEW t \in Tabs, Edits(t) PROVE puts' \subseteq puts /\ writes' = writes
  BY <1>7 DEF Edits, Edit, Undo, Redo, Change
<1>8. ASSUME NEW g \in gets, Arrive(g) \/ ReadFails(g) PROVE puts' \subseteq puts /\ writes' = writes
  BY <1>8 DEF Arrive, Loaded, Offered, Read, ReadFails
<1>9. CASE Reset \/ UNCHANGED vars
  BY <1>9, <1>4 DEF Reset, vars
<1>10. QED
  BY <1>2, <1>3, <1>4, <1>5, <1>6, <1>7, <1>8, <1>9 DEF Next, Working, Answer, Serve

LEMMA DistinctStep == Typed /\ Distinct /\ [Next]_vars => Distinct'
<1> SUFFICES ASSUME Typed, Distinct, [Next]_vars PROVE Distinct'
  OBVIOUS
<1>0. writes \in Nat
  BY DEF Typed
<1>1. CASE puts' \subseteq puts /\ writes' = writes
  BY <1>1 DEF Distinct
<1>2. ASSUME NEW r, puts' = puts \cup {r}, r.ver = writes + 1, writes' = writes + 1
      PROVE  Distinct'
  BY <1>0, <1>2 DEF Distinct
<1>3. ASSUME NEW q \in puts, NEW r, puts' = (puts \ {q}) \cup {r}, r.ver = q.ver,
             writes' = writes
      PROVE  Distinct'
  BY <1>3 DEF Distinct
<1>4. QED
  BY <1>1, <1>2, <1>3, PutsMove

\* Only a write and a reset change the document.
LEMMA Quiet ==
  ASSUME [Next]_vars
  PROVE  UNCHANGED <<file, outdated>> \/ Reset \/ \E q \in puts : Write(q)
BY DEF Next, Working, vars, Resolve, Save, Overwrite, LoadTheirs, Send, Answer, Saved,
       Conflicted, SaveFails, Serve, Compare, Arrive, Loaded, Offered, Read, ReadFails,
       Edits, Edit, Undo, Redo, Change

\* What is known stays known, whatever is written.
LEMMA SoundKept ==
  ASSUME Typed, Distinct, Known, [Next]_vars, NEW v \in Nat, NEW r \in Nat, Sound(v, r)
  PROVE  Sound(v, r)'
<1>0. writes \in Nat /\ writes' \in Nat /\ writes <= writes'
  BY PutsMove DEF Typed
<1>1. \A q \in puts' : Ahead(q) => q.ver # v
  <2>1. CASE puts' \subseteq puts /\ writes' = writes
    BY <2>1 DEF Sound, Ahead
  <2>2. ASSUME NEW p, puts' = puts \cup {p}, p.ver = writes + 1
        PROVE  \A q \in puts' : Ahead(q) => q.ver # v
    BY <1>0, <2>2 DEF Sound, Ahead
  <2>3. ASSUME NEW q \in puts, NEW p, puts' = (puts \ {q}) \cup {p}, p.ver = q.ver,
               Ahead(p) => Ahead(q)
        PROVE  \A o \in puts' : Ahead(o) => o.ver # v
    BY <2>3 DEF Sound, Ahead
  <2>4. QED
    BY <2>1, <2>2, <2>3, PutsMove
<1>2. v \in 0..writes'
  BY <1>0 DEF Sound
<1>3. CASE UNCHANGED <<file, outdated>>
  BY <1>1, <1>2, <1>3 DEF Sound, Ahead
<1>s. v \in Stored
  BY DEF Sound, Stored
<1>4. CASE Reset
  <2>1. v # 0 => v \in outdated'
    BY <1>4, <1>s DEF Reset
  <2>2. file'.ver = 0 /\ file'.doc.rev = 0
    BY <1>4 DEF Reset, DefaultDoc
  <2>3. v = 0 => r = 0
    BY DEF Sound
  <2>4. QED
    BY <1>1, <1>2, <2>1, <2>2, <2>3 DEF Sound, Ahead
<1>5. ASSUME NEW q \in puts, Write(q) PROVE Sound(v, r)'
  <2>1. q.at = "compared" /\ q.ver # v /\ q.rev \in Nat /\ Sound(q.was, q.rev)
    BY <1>5 DEF Write, Sound, Known, SoundPut, Typed, PutType
  <2>2. file'.ver = q.ver /\ file'.doc.rev = q.rev + 1
    BY <1>5 DEF Write
  <2>3. v \notin outdated' => v \notin outdated /\ file.ver = q.was
    BY <1>5, <1>s DEF Write
  <2>4. v \notin outdated' => r < q.rev + 1
    BY <2>1, <2>2, <2>3 DEF Sound, Typed, Doc
  <2>5. r \in Nat /\ (v = 0 => r = 0)
    BY DEF Sound
  <2>6. QED
    BY <1>1, <1>2, <2>1, <2>2, <2>4, <2>5 DEF Sound, Ahead
<1>6. QED
  BY <1>3, <1>4, <1>5, Quiet

-----------------------------------------------------------------------------
(* What each tab and each request knows *)

Same(t) == /\ tab'[t].loaded = tab[t].loaded /\ tab'[t].knows = tab[t].knows
           /\ tab'[t].rev = tab[t].rev /\ tab'[t].conflict = tab[t].conflict
           /\ tab'[t].offered = tab[t].offered

LEMMA SameKept ==
  ASSUME Typed, Distinct, Known, [Next]_vars, NEW t \in Tabs, Same(t)
  PROVE  SoundTab(t)'
<1>0. /\ tab[t].knows \in Nat /\ tab[t].rev \in Nat /\ tab[t].offered \in Nat
      /\ tab[t].conflict.rev \in Nat
  BY DEF Typed, TabType, Doc
<1>1. PICK k \in Nat, r \in Nat, o \in Nat, c \in Nat :
        k = tab[t].knows /\ r = tab[t].rev /\ o = tab[t].offered /\ c = tab[t].conflict.rev
  BY <1>0
<1>2. (tab[t].loaded => Sound(k, r)) /\ (tab[t].conflict # NoDoc => Sound(o, c))
  BY <1>1 DEF Known, SoundTab
<1>3. (tab[t].loaded => Sound(k, r)') /\ (tab[t].conflict # NoDoc => Sound(o, c)')
  BY <1>2, SoundKept
<1>4. QED
  BY <1>1, <1>3 DEF Same, SoundTab, Sound

LEMMA MarkedFields ==
  ASSUME NEW s \in TabType, NEW e
  PROVE  LET m == Marked(s, e) IN
         /\ m.loaded = s.loaded /\ m.knows = s.knows /\ m.rev = s.rev
         /\ m.conflict = s.conflict /\ m.offered = s.offered
BY DEF Marked, TabType

\* A tab that is told of a write and its revision.
LEMMA Told ==
  ASSUME Typed, Distinct, Known, [Next]_vars, NEW t \in Tabs, NEW u \in Tabs,
         NEW a, tab' = [tab EXCEPT ![u] = a],
         NEW v \in Nat, NEW r \in Nat, Sound(v, r), a.knows = v, a.rev = r,
         a.conflict = NoDoc \/ (a.conflict = tab[u].conflict /\ a.offered = tab[u].offered)
  PROVE  SoundTab(t)'
<1>1. CASE t # u
  <2>1. Same(t)
    BY <1>1 DEF Same, Typed
  <2>2. QED
    BY <2>1, SameKept
<1>2. CASE t = u
  <2>0. tab' [t] = a
    BY <1>2 DEF Typed
  <2>1. Sound(v, r)'
    BY SoundKept
  <2>2. PICK o \in Nat, c \in Nat : o = tab[t].offered /\ c = tab[t].conflict.rev
    BY DEF Typed, TabType, Doc
  <2>3. tab[t].conflict # NoDoc => Sound(o, c)'
    BY <2>2, SoundKept DEF Known, SoundTab
  <2>4. QED
    BY <1>2, <2>0, <2>1, <2>2, <2>3 DEF SoundTab, Sound
<1>3. QED
  BY <1>1, <1>2

\* A change of the document or of the state of saving teaches a tab nothing.
LEMMA MarkedSame ==
  ASSUME Typed, NEW t \in Tabs, NEW u \in Tabs, NEW s \in TabType, NEW e,
         tab' = [tab EXCEPT ![u] = Marked(s, e)],
         s.loaded = tab[u].loaded, s.knows = tab[u].knows, s.rev = tab[u].rev,
         s.conflict = tab[u].conflict, s.offered = tab[u].offered
  PROVE  Same(t)
BY MarkedFields DEF Same, Typed

LEMMA EditsKeep ==
  ASSUME Typed, Distinct, Known, [Next]_vars, NEW t \in Tabs, NEW u \in Tabs, Edits(u)
  PROVE  SoundTab(t)'
<1>1. PICK doc \in Doc, past \in Seq(Doc), future \in Seq(Doc) :
        Change(u, [tab[u] EXCEPT !.doc = doc, !.past = past, !.future = future])
  BY EditMade
<1> DEFINE s == [tab[u] EXCEPT !.doc = doc, !.past = past, !.future = future]
<1>2. /\ s \in TabType /\ s.loaded = tab[u].loaded /\ s.knows = tab[u].knows
      /\ s.rev = tab[u].rev /\ s.conflict = tab[u].conflict /\ s.offered = tab[u].offered
  BY DEF Typed, TabType
<1>3. tab' = [tab EXCEPT ![u] = Marked(s, "edited")]
  BY <1>1 DEF Change
<1> HIDE DEF s
<1>4. Same(t)
  BY <1>2, <1>3, MarkedSame
<1>5. QED
  BY <1>4, SameKept

LEMMA ResolveKeeps ==
  ASSUME Typed, Distinct, Known, [Next]_vars, NEW t \in Tabs, NEW u \in Tabs, Resolve(u)
  PROVE  SoundTab(t)'
<1>0. tab[u] \in TabType /\ tab[u].conflict \in Doc /\ tab[u].conflict.rev \in Nat /\ tab[u].offered \in Nat
  BY DEF Typed, TabType, Doc
<1>1. CASE Save(u)
  <2>1. Same(t)
    BY <1>0, <1>1, MarkedSame DEF Save, Send
  <2>2. QED
    BY <2>1, SameKept
<1>2. PICK v \in Nat, r \in Nat : v = tab[u].offered /\ r = tab[u].conflict.rev
  BY <1>0
<1>3. tab[u].conflict # NoDoc => Sound(v, r)
  BY <1>2 DEF Known, SoundTab
<1>4. CASE Overwrite(u)
  <2> DEFINE s == [tab[u] EXCEPT !.conflict = NoDoc, !.rev = tab[u].conflict.rev,
                                 !.knows = tab[u].offered]
  <2> DEFINE a == Marked(s, "saveStarted")
  <2>1. s \in TabType
    BY <1>0, TabTypes
  <2>2. s.knows = v /\ s.rev = r /\ s.conflict = NoDoc
    BY <1>0, <1>2 DEF TabType
  <2>3. tab' = [tab EXCEPT ![u] = a] /\ tab[u].conflict # NoDoc
    BY <1>4 DEF Overwrite, Send
  <2> HIDE DEF s
  <2>4. a.knows = v /\ a.rev = r /\ a.conflict = NoDoc
    BY <2>1, <2>2, MarkedFields
  <2> HIDE DEF a
  <2>5. QED
    BY <1>3, <2>3, <2>4, Told
<1>5. CASE LoadTheirs(u)
  <2> DEFINE s == [Adopt(tab[u], tab[u].conflict) EXCEPT
                     !.conflict = NoDoc, !.loaded = TRUE, !.knows = tab[u].offered]
  <2> DEFINE a == Marked(s, "adopted")
  <2>1. s \in TabType
    BY <1>0, TabTypes
  <2>2. s.knows = v /\ s.rev = r /\ s.conflict = NoDoc
    BY <1>0, <1>2 DEF Adopt, TabType
  <2>3. tab' = [tab EXCEPT ![u] = a] /\ tab[u].conflict # NoDoc
    BY <1>5 DEF LoadTheirs
  <2> HIDE DEF s
  <2>4. a.knows = v /\ a.rev = r /\ a.conflict = NoDoc
    BY <2>1, <2>2, MarkedFields
  <2> HIDE DEF a
  <2>5. QED
    BY <1>3, <2>3, <2>4, Told
<1>6. QED
  BY <1>1, <1>4, <1>5 DEF Resolve

LEMMA AnswerKeeps ==
  ASSUME Typed, Distinct, Known, [Next]_vars, NEW t \in Tabs, NEW q \in puts,
         Answer(q) \/ SaveFails(q)
  PROVE  SoundTab(t)'
<1>0. q \in PutType /\ q.tab \in Tabs /\ q.ver \in Nat /\ q.rev + 1 \in Nat /\ tab[q.tab] \in TabType
  BY DEF Typed, PutType
<1>1. CASE Saved(q)
  <2> DEFINE s == [tab[q.tab] EXCEPT !.rev = q.rev + 1, !.knows = q.ver, !.base = q.sent.marks]
  <2> DEFINE e == IF tab[q.tab].doc = q.sent THEN "saveSucceeded" ELSE "edited"
  <2> DEFINE a == Marked(s, e)
  <2>1. s \in TabType
    <3>1. q.sent.marks \in SUBSET Nat
      BY <1>0 DEF PutType, Doc
    <3>2. QED
      BY <1>0, <3>1, TabTypes
  <2>2. /\ s.knows = q.ver /\ s.rev = q.rev + 1 /\ s.conflict = tab[q.tab].conflict
        /\ s.offered = tab[q.tab].offered
    BY <1>0 DEF TabType
  <2>3. tab' = [tab EXCEPT ![q.tab] = a]
    BY <1>1, <1>0 DEF Saved, Typed
  <2> HIDE DEF s, e
  <2>4. /\ a.knows = q.ver /\ a.rev = q.rev + 1 /\ a.conflict = tab[q.tab].conflict
        /\ a.offered = tab[q.tab].offered
    BY <2>1, <2>2, MarkedFields
  <2> HIDE DEF a
  <2>5. Sound(q.ver, q.rev + 1)
    BY <1>1 DEF Saved, Known, SoundPut
  <2>6. QED
    BY <1>0, <2>3, <2>4, <2>5, Told
<1>2. CASE Conflicted(q)
  <2>1. Same(t)
    BY <1>0, <1>2, MarkedSame DEF Conflicted
  <2>2. QED
    BY <2>1, SameKept
<1>3. CASE SaveFails(q)
  <2>1. Same(t)
    BY <1>0, <1>3, MarkedSame DEF SaveFails
  <2>2. QED
    BY <2>1, SameKept
<1>4. QED
  BY <1>1, <1>2, <1>3 DEF Answer

LEMMA ArriveKeeps ==
  ASSUME Typed, Distinct, Known, [Next]_vars, NEW t \in Tabs, NEW g \in gets, Arrive(g)
  PROVE  SoundTab(t)'
<1>0. g \in GetType /\ g.tab \in Tabs /\ g.ver \in Nat /\ g.doc \in Doc /\ g.doc.rev \in Nat /\ tab[g.tab] \in TabType
  BY DEF Typed, GetType, Doc
<1>s. ASSUME tab'[t] = tab[t] PROVE SoundTab(t)'
  BY <1>s, SameKept DEF Same
<1>1. CASE Loaded(g)
  <2> DEFINE a == [Adopt(tab[g.tab], g.doc) EXCEPT !.loaded = TRUE, !.knows = g.ver]
  <2>1. /\ a.knows = g.ver /\ a.rev = g.doc.rev /\ a.conflict = tab[g.tab].conflict
        /\ a.offered = tab[g.tab].offered
    BY <1>0 DEF Adopt, TabType
  <2>2. tab' = [tab EXCEPT ![g.tab] = a] /\ Sound(g.ver, g.doc.rev)
    BY <1>1 DEF Loaded, Known
  <2> HIDE DEF a
  <2>3. QED
    BY <1>0, <2>1, <2>2, Told
<1>2. CASE Offered(g)
  <2>1. CASE t # g.tab
    BY <1>0, <1>2, <1>s, <2>1 DEF Offered, Typed
  <2>2. CASE t = g.tab
    <3>1. /\ tab'[t].loaded = tab[t].loaded /\ tab'[t].knows = tab[t].knows
          /\ tab'[t].rev = tab[t].rev /\ tab'[t].offered = g.ver /\ tab'[t].conflict = g.doc
      BY <1>0, <1>2, <2>2 DEF Offered, Typed, TabType
    <3>2. PICK k \in Nat, r \in Nat, d \in Nat : k = tab[t].knows /\ r = tab[t].rev /\ d = g.doc.rev
      BY <1>0, <2>2 DEF TabType
    <3>3. (tab[t].loaded => Sound(k, r)') /\ Sound(g.ver, d)'
      BY <1>0, <1>2, <3>2, SoundKept DEF Known, SoundTab, Offered
    <3>4. QED
      BY <3>1, <3>2, <3>3 DEF SoundTab, Sound
  <2>3. QED
    BY <2>1, <2>2
<1>3. CASE Read(g)
  BY <1>3, <1>s DEF Read
<1>4. QED
  BY <1>1, <1>2, <1>3 DEF Arrive

LEMMA TabsStep ==
  ASSUME Typed, Distinct, Known, [Next]_vars, NEW t \in Tabs
  PROVE  SoundTab(t)'
<1>1. ASSUME tab' = tab PROVE SoundTab(t)'
  BY <1>1, SameKept DEF Same
<1>2. ASSUME NEW q \in puts, Serve(q) PROVE SoundTab(t)'
  BY <1>1, <1>2 DEF Serve, Compare, Write
<1>3. ASSUME NEW g \in gets, ReadFails(g) PROVE SoundTab(t)'
  BY <1>1, <1>3 DEF ReadFails
<1>4. CASE Reset \/ UNCHANGED vars
  BY <1>1, <1>4 DEF Reset, vars
<1>5. QED
  BY <1>2, <1>3, <1>4, EditsKeep, ResolveKeeps, AnswerKeeps, ArriveKeeps DEF Next, Working

\* A save that is carried out is known for what it wrote.
LEMMA WriteSound ==
  ASSUME Typed, Distinct, NEW q \in puts, Write(q)
  PROVE  Sound(q.ver, q.rev + 1)'
<1>0. q.ver \in Nat /\ q.rev \in Nat /\ q.ver \in 1..writes
  BY DEF Typed, PutType, Distinct
<1>1. file'.ver = q.ver /\ file'.doc.rev = q.rev + 1 /\ writes' = writes
  BY DEF Write
<1>2. \A p \in puts' : Ahead(p) => p.ver # q.ver
  <2>1. ~Ahead([q EXCEPT !.at = "written"])
    BY DEF Typed, PutType, Ahead
  <2>2. puts' \subseteq (puts \ {q}) \cup {[q EXCEPT !.at = "written"]}
    BY DEF Write
  <2>3. QED
    BY <2>1, <2>2 DEF Distinct
<1>3. QED
  BY <1>0, <1>1, <1>2 DEF Sound, Ahead

LEMMA FileStep ==
  ASSUME Typed, Distinct, Known, [Next]_vars
  PROVE  Sound(file.ver, file.doc.rev)'
<1>1. CASE UNCHANGED <<file, outdated>>
  <2>1. PICK v \in Nat, r \in Nat : v = file.ver /\ r = file.doc.rev
    BY DEF Typed, Doc
  <2>2. Sound(v, r)'
    BY <2>1, SoundKept DEF Known
  <2>3. QED
    BY <1>1, <2>1, <2>2 DEF Sound
<1>2. CASE Reset
  BY <1>2 DEF Reset, Sound, DefaultDoc, Typed, Distinct
<1>3. ASSUME NEW q \in puts, Write(q) PROVE Sound(file.ver, file.doc.rev)'
  <2>1. file'.ver = q.ver /\ file'.doc.rev = q.rev + 1
    BY <1>3 DEF Write
  <2>2. Sound(q.ver, q.rev + 1)'
    BY <1>3, WriteSound
  <2>3. QED
    BY <2>1, <2>2 DEF Sound
<1>4. QED
  BY <1>1, <1>2, <1>3, Quiet

\* What a save under way knew when it was sent, and when it was compared.
LEMMA PutKept ==
  ASSUME Typed, Distinct, Known, [Next]_vars, NEW q \in puts
  PROVE  SoundPut(q)'
<1>1. /\ q.knows \in Nat /\ q.rev \in Nat /\ q.was \in Nat /\ q.ver \in Nat /\ q.rev + 1 \in Nat
      /\ SoundPut(q)
  BY DEF Typed, PutType, Known
<1>2. QED
  BY <1>1, SoundKept DEF SoundPut

\* A save that differs in less than what it knew is as sound.
LEMMA PutLike ==
  ASSUME Typed, Distinct, Known, [Next]_vars, NEW q \in puts, NEW p,
         p.loaded = q.loaded, p.knows = q.knows, p.rev = q.rev, p.ver = q.ver,
         p.at = "compared" => Sound(p.was, p.rev)', 
         p.at = "written" => Sound(p.ver, p.rev + 1)'
  PROVE  SoundPut(p)'
<1>1. q.loaded => Sound(q.knows, q.rev)'
  BY PutKept DEF SoundPut
<1>2. QED
  BY <1>1 DEF SoundPut

LEMMA SentSound ==
  ASSUME Typed, Distinct, Known, [Next]_vars, NEW t \in Tabs, Resolve(t)
  PROVE  \A p \in puts' \ puts : SoundPut(p)'
<1>0. tab[t] \in TabType /\ tab[t].conflict.rev \in Nat /\ tab[t].offered \in Nat
  BY DEF Typed, TabType, Doc
<1>1. ASSUME NEW s \in TabType, Send(t, s), s.loaded => Sound(s.knows, s.rev)
      PROVE  \A p \in puts' \ puts : SoundPut(p)'
  <2>1. PICK v \in Nat, r \in Nat : v = s.knows /\ r = s.rev
    BY DEF TabType
  <2>2. s.loaded => Sound(v, r)'
    BY <1>1, <2>1, SoundKept
  <2>3. \A p \in puts' \ puts : p.loaded = s.loaded /\ p.knows = v /\ p.rev = r /\ p.at = "sent"
    BY <1>1, <2>1 DEF Send
  <2>4. QED
    BY <2>2, <2>3 DEF SoundPut
<1>2. CASE Save(t)
  BY <1>0, <1>1, <1>2 DEF Save, Known, SoundTab
<1>3. CASE Overwrite(t)
  <2> DEFINE s == [tab[t] EXCEPT !.conflict = NoDoc, !.rev = tab[t].conflict.rev,
                                 !.knows = tab[t].offered]
  <2>1. s \in TabType
    BY <1>0, TabTypes
  <2>2. s.knows = tab[t].offered /\ s.rev = tab[t].conflict.rev
    BY <1>0 DEF TabType
  <2>3. Send(t, s) /\ Sound(tab[t].offered, tab[t].conflict.rev)
    BY <1>3 DEF Overwrite, Known, SoundTab
  <2> HIDE DEF s
  <2>4. QED
    BY <1>1, <2>1, <2>2, <2>3
<1>4. CASE LoadTheirs(t)
  BY <1>4 DEF LoadTheirs
<1>5. QED
  BY <1>2, <1>3, <1>4 DEF Resolve

LEMMA ServedSound ==
  ASSUME Typed, Distinct, Known, [Next]_vars, NEW q \in puts, Serve(q) \/ SaveFails(q)
  PROVE  \A p \in puts' \ puts : SoundPut(p)'
<1>0. q \in PutType
  BY DEF Typed
<1>1. CASE Compare(q)
  <2> DEFINE at == IF q.rev = file.doc.rev THEN "compared" ELSE "stale"
  <2>0. PICK p : p = [q EXCEPT !.at = at, !.was = file.ver]
    OBVIOUS
  <2>1. /\ p.loaded = q.loaded /\ p.knows = q.knows /\ p.rev = q.rev /\ p.ver = q.ver
        /\ p.at = at /\ p.was = file.ver
    BY <1>0, <2>0 DEF PutType
  <2>2. puts' \ puts \subseteq {p} /\ UNCHANGED file
    BY <1>1, <2>0 DEF Compare, At
  <2>3. p.at = "compared" => Sound(p.was, p.rev)'
    BY <2>1, <2>2, FileStep DEF Sound
  <2>4. p.at # "written"
    BY <2>1
  <2>5. QED
    BY <2>1, <2>2, <2>3, <2>4, PutLike
<1>2. CASE Write(q)
  <2>0. PICK p : p = [q EXCEPT !.at = "written"]
    OBVIOUS
  <2>1. /\ p.loaded = q.loaded /\ p.knows = q.knows /\ p.rev = q.rev /\ p.ver = q.ver
        /\ p.at = "written"
    BY <1>0, <2>0 DEF PutType
  <2>2. puts' \ puts \subseteq {p}
    BY <1>2, <2>0 DEF Write
  <2>3. Sound(p.ver, p.rev + 1)'
    BY <1>2, <2>1, WriteSound DEF Sound
  <2>4. QED
    BY <2>1, <2>2, <2>3, PutLike
<1>3. CASE SaveFails(q)
  <2>0. PICK p : p = [q EXCEPT !.heard = FALSE]
    OBVIOUS
  <2>1. /\ p.loaded = q.loaded /\ p.knows = q.knows /\ p.rev = q.rev /\ p.ver = q.ver
        /\ p.at = q.at /\ p.was = q.was
    BY <1>0, <2>0 DEF PutType
  <2>2. puts' \ puts \subseteq {p}
    BY <1>3, <2>0 DEF SaveFails
  <2>3. /\ q.at = "compared" => Sound(q.was, q.rev)'
        /\ q.at = "written" => Sound(q.ver, q.rev + 1)'
    BY PutKept DEF SoundPut
  <2>4. QED
    BY <2>1, <2>2, <2>3, PutLike DEF Sound
<1>4. QED
  BY <1>1, <1>2, <1>3 DEF Serve

LEMMA PutsStep ==
  ASSUME Typed, Distinct, Known, [Next]_vars
  PROVE  \A q \in puts' : SoundPut(q)'
<1>1. ASSUME puts' \subseteq puts PROVE \A q \in puts' : SoundPut(q)'
  BY <1>1, PutKept
<1>2. ASSUME \A q \in puts' \ puts : SoundPut(q)' PROVE \A q \in puts' : SoundPut(q)'
  BY <1>2, PutKept
<1>3. ASSUME NEW q \in puts, Answer(q) PROVE puts' \subseteq puts
  BY <1>3 DEF Answer, Saved, Conflicted
<1>4. ASSUME NEW t \in Tabs, Edits(t) PROVE puts' \subseteq puts
  BY <1>4 DEF Edits, Edit, Undo, Redo, Change
<1>5. ASSUME NEW g \in gets, Arrive(g) \/ ReadFails(g) PROVE puts' \subseteq puts
  BY <1>5 DEF Arrive, Loaded, Offered, Read, ReadFails
<1>6. CASE Reset \/ UNCHANGED vars
  BY <1>1, <1>6 DEF Reset, vars
<1>7. QED
  BY <1>1, <1>2, <1>3, <1>4, <1>5, <1>6, SentSound, ServedSound DEF Next, Working

LEMMA GetsStep ==
  ASSUME Typed, Distinct, Known, [Next]_vars
  PROVE  \A g \in gets' : g.at = "answered" => Sound(g.ver, g.doc.rev)'
<1>1. ASSUME NEW g \in gets, g.at = "answered" PROVE Sound(g.ver, g.doc.rev)'
  <2>1. g.ver \in Nat /\ g.doc.rev \in Nat /\ Sound(g.ver, g.doc.rev)
    BY <1>1 DEF Typed, GetType, Doc, Known
  <2>2. QED
    BY <2>1, SoundKept
<1>2. ASSUME \A g \in gets' \ gets : g.at = "answered" => Sound(g.ver, g.doc.rev)'
      PROVE  \A g \in gets' : g.at = "answered" => Sound(g.ver, g.doc.rev)'
  BY <1>1, <1>2
<1>3. ASSUME NEW g \in gets, Read(g)
      PROVE  \A h \in gets' \ gets : Sound(h.ver, h.doc.rev)'
  <2>0. PICK h : h = [g EXCEPT !.at = "answered", !.ver = file.ver, !.doc = file.doc]
    OBVIOUS
  <2>1. h.ver = file.ver /\ h.doc.rev = file.doc.rev
    BY <2>0 DEF Typed, GetType
  <2>2. gets' \ gets \subseteq {h} /\ UNCHANGED file
    BY <1>3, <2>0 DEF Read
  <2>3. Sound(h.ver, h.doc.rev)'
    BY <2>1, <2>2, FileStep DEF Sound
  <2>4. QED
    BY <2>2, <2>3
<1>4. ASSUME NEW q \in puts, Conflicted(q)
      PROVE  \A h \in gets' \ gets : h.at # "answered"
  BY <1>4 DEF Conflicted, Get
<1>5. ASSUME NEW q \in puts, Saved(q) \/ Serve(q) \/ SaveFails(q) PROVE gets' \subseteq gets
  BY <1>5 DEF Saved, Serve, Compare, Write, SaveFails
<1>6. ASSUME NEW t \in Tabs, Edits(t) \/ Resolve(t) PROVE gets' \subseteq gets
  BY <1>6 DEF Edits, Edit, Undo, Redo, Change, Resolve, Save, Overwrite, LoadTheirs, Send
<1>7. ASSUME NEW g \in gets, Loaded(g) \/ Offered(g) \/ ReadFails(g) PROVE gets' \subseteq gets
  BY <1>7 DEF Loaded, Offered, ReadFails
<1>8. CASE Reset \/ UNCHANGED vars
  BY <1>2, <1>8 DEF Reset, vars
<1>9. QED
  BY <1>2, <1>3, <1>4, <1>5, <1>6, <1>7, <1>8 DEF Next, Working, Answer, Arrive

-----------------------------------------------------------------------------
(* The theorems *)

LEMMA Initially == Init => IInv
<1> SUFFICES ASSUME Init PROVE IInv
  OBVIOUS
<1> USE DEF Init
<1>0. First \in Doc /\ First.rev \in {0, 1} /\ DefaultDoc.rev = 0
  BY DEF First, DefaultDoc, Doc
<1>1. Fresh \in TabType
  BY DocTypes DEF Fresh, TabType, DemoDoc, NoDoc, Doc, Demo
<1>2. \A t \in Tabs : Open(t) \in TabType
  <2>1. Adopt(Fresh, DefaultDoc) \in TabType
    BY <1>1, AdoptType, DocTypes
  <2>2. QED
    BY <2>1 DEF Open, TabType
<1>3. \A t \in Tabs : Back(t) \in TabType
  <2> TAKE t \in Tabs
  <2>1. Budget["edit"] + 1 \in Nat
    BY DocumentAssumption
  <2>2. <<[DefaultDoc EXCEPT !.marks = {Budget["edit"] + 1}]>> \in Seq(Doc)
    BY <2>1 DEF DefaultDoc, Doc
  <2>3. PICK future \in Seq(Doc) : future = <<[DefaultDoc EXCEPT !.marks = {Budget["edit"] + 1}]>>
    BY <2>2
  <2>4. Back(t) = [Open(t) EXCEPT !.rev = First.rev, !.knows = First.rev, !.future = future]
    BY <2>3 DEF Back
  <2>5. First.rev \in Nat /\ Open(t) \in TabType
    BY <1>0, <1>2
  <2>6. QED
    BY <2>4, <2>5 DEF TabType
<1>4. tab \in [Tabs -> TabType]
  BY <1>1, <1>2, <1>3
<1>5. \A t \in Tabs : Get(t, "load") \in GetType
  BY DocTypes DEF Get, GetType
<1>6. Typed
  <2>1. file \in [ver : Nat, doc : Doc]
    BY <1>0
  <2>2. puts \in SUBSET PutType /\ gets \in SUBSET GetType
    BY <1>5, DocumentAssumption
  <2>3. writes \in Nat /\ left \in [{"edit", "fault"} -> Nat]
    BY <1>0, DocumentAssumption
  <2>4. QED
    BY <1>4, <2>1, <2>2, <2>3 DEF Typed
<1>7. \A g \in gets : g.at # "answered"
  BY DEF Get
<1>8. Sound(First.rev, First.rev) /\ Sound(0, 0)
  BY <1>0, DocumentAssumption DEF Sound
<1>9. \A t \in Tabs : SoundTab(t)
  <2> TAKE t \in Tabs
  <2>1. ~Fresh.loaded /\ Fresh.conflict = NoDoc
    BY DEF Fresh
  <2>2. Open(t).knows = 0 /\ Open(t).rev = 0 /\ Open(t).conflict = NoDoc
    BY DEF Open, Adopt, Fresh, DefaultDoc
  <2>3. Back(t).knows = First.rev /\ Back(t).rev = First.rev /\ Back(t).conflict = NoDoc
    BY <1>2, <2>2 DEF Back, TabType
  <2>4. tab[t] \in {Fresh, Open(t), Back(t)}
    OBVIOUS
  <2>5. QED
    BY <1>8, <2>1, <2>2, <2>3, <2>4 DEF SoundTab
<1>10. QED
  BY <1>6, <1>7, <1>8, <1>9 DEF IInv, Distinct, Known

LEMMA Inductive == Spec => []IInv
<1>1. IInv /\ [Next]_vars => IInv'
  <2> SUFFICES ASSUME IInv, [Next]_vars PROVE IInv'
    OBVIOUS
  <2>1. Typed' /\ Distinct'
    BY TypedStep, DistinctStep DEF IInv
  <2>2. Known'
    BY FileStep, TabsStep, PutsStep, GetsStep DEF IInv, Known
  <2>3. QED
    BY <2>1, <2>2 DEF IInv
<1>2. QED
  BY <1>1, Initially, PTL DEF Spec

LEMMA NewPuts ==
  ASSUME Typed, [Next]_vars, NEW p \in puts' \ puts
  PROVE  \/ p.at = "sent"
         \/ \E q \in puts :
              /\ p.loaded = q.loaded /\ p.knows = q.knows /\ p.rev = q.rev
              /\ \/ p.was = q.was /\ p.at = q.at
                 \/ p.was = q.was /\ q.at = "compared" /\ p.at = "written"
                 \/ p.was = file.ver /\ p.at = IF q.rev = file.doc.rev THEN "compared" ELSE "stale"
<1>1. ASSUME NEW q \in puts, Compare(q) \/ Write(q) \/ SaveFails(q)
      PROVE  /\ p.loaded = q.loaded /\ p.knows = q.knows /\ p.rev = q.rev
             /\ \/ p.was = q.was /\ p.at = q.at
                \/ p.was = q.was /\ q.at = "compared" /\ p.at = "written"
                \/ p.was = file.ver /\ p.at = IF q.rev = file.doc.rev THEN "compared" ELSE "stale"
  <2>0. q \in PutType
    BY DEF Typed
  <2>1. CASE Compare(q)
    BY <2>0, <2>1 DEF Compare, At, PutType
  <2>2. CASE Write(q)
    BY <2>0, <2>2 DEF Write, PutType
  <2>3. CASE SaveFails(q)
    BY <2>0, <2>3 DEF SaveFails, PutType
  <2>4. QED
    BY <1>1, <2>1, <2>2, <2>3
<1>2. ASSUME NEW t \in Tabs, Resolve(t) PROVE p.at = "sent"
  BY <1>2 DEF Resolve, Save, Overwrite, LoadTheirs, Send
<1>3. ASSUME puts' \subseteq puts PROVE FALSE
  BY <1>3
<1>4. ASSUME NEW q \in puts, Answer(q) PROVE FALSE
  BY <1>3, <1>4 DEF Answer, Saved, Conflicted
<1>5. ASSUME NEW t \in Tabs, Edits(t) PROVE FALSE
  BY <1>3, <1>5 DEF Edits, Edit, Undo, Redo, Change
<1>6. ASSUME NEW g \in gets, Arrive(g) \/ ReadFails(g) PROVE FALSE
  BY <1>3, <1>6 DEF Arrive, Loaded, Offered, Read, ReadFails
<1>7. CASE Reset \/ UNCHANGED vars
  BY <1>3, <1>7 DEF Reset, vars
<1>8. QED
  BY <1>1, <1>2, <1>4, <1>5, <1>6, <1>7 DEF Next, Working, Serve

\* Comparing revisions tells whether the document is the one the tab knew.
LEMMA JudgedStep ==
  ASSUME IInv, AcceptedKnew, RefusedIsStale, [Next]_vars
  PROVE  AcceptedKnew' /\ RefusedIsStale'
<1>1. outdated \subseteq outdated'
  <2>1. ASSUME NEW q \in puts, Write(q) PROVE outdated \subseteq outdated'
    BY <2>1 DEF Write
  <2>2. CASE Reset
    BY <2>2 DEF Reset
  <2>3. QED
    BY <2>1, <2>2, Quiet
<1>2. ASSUME NEW p \in puts' \ puts
      PROVE  /\ p.at \in {"compared", "written"} =>
                  p.was = p.knows \/ p.knows \in outdated' \/ ~p.loaded
             /\ p.at = "stale" => p.was # p.knows \/ ~p.loaded
  <2>1. CASE p.at = "sent"
    BY <2>1
  <2>2. ASSUME NEW q \in puts, p.loaded = q.loaded, p.knows = q.knows, p.rev = q.rev,
               p.was = file.ver, p.at = IF q.rev = file.doc.rev THEN "compared" ELSE "stale"
        PROVE  /\ p.at = "compared" => p.was = p.knows \/ p.knows \in outdated' \/ ~p.loaded
               /\ p.at = "stale" => p.was # p.knows \/ ~p.loaded
               /\ p.at # "written"
    <3>1. q.loaded => Sound(q.knows, q.rev)
      BY DEF IInv, Known, SoundPut
    <3>2. QED
      BY <1>1, <2>2, <3>1 DEF Sound
  <2>3. ASSUME NEW q \in puts, p.loaded = q.loaded, p.knows = q.knows, p.was = q.was,
               p.at = q.at \/ (q.at = "compared" /\ p.at = "written")
        PROVE  /\ p.at \in {"compared", "written"} =>
                    p.was = p.knows \/ p.knows \in outdated' \/ ~p.loaded
               /\ p.at = "stale" => p.was # p.knows \/ ~p.loaded
    BY <1>1, <2>3 DEF AcceptedKnew, RefusedIsStale
  <2>4. QED
    BY <2>1, <2>2, <2>3, NewPuts DEF IInv
<1>3. QED
  BY <1>1, <1>2 DEF AcceptedKnew, RefusedIsStale

LEMMA Judged == Spec => [](AcceptedKnew /\ RefusedIsStale)
<1>1. Init => AcceptedKnew /\ RefusedIsStale
  BY DEF Init, AcceptedKnew, RefusedIsStale
<1>2. IInv /\ AcceptedKnew /\ RefusedIsStale /\ [Next]_vars
        => (AcceptedKnew /\ RefusedIsStale)'
  BY JudgedStep
<1>3. QED
  BY <1>1, <1>2, Inductive, PTL DEF Spec

\* The comparison of revisions (plugin_api.py:6125) passes a save of a tab that
\* loaded only if the document there is the one the tab last heard of, or the
\* tab heard nothing since a save raced or a reset came: it does not prevent
\* the race itself, and it is sound again for every tab that hears of it.
THEOREM AcceptedKnewKept == Spec => []AcceptedKnew
BY Judged, PTL

\* A 409 always has a reason: a tab that loaded and is refused does not have
\* the document that is there, whatever it undid, redid or saved before
\* (document.ts:268, the revision is stamped when a save is sent).
THEOREM RefusedIsStaleKept == Spec => []RefusedIsStale
BY Judged, PTL

-----------------------------------------------------------------------------
(* What says saved *)

Confirmed(t) == tab[t].state = "saved" => tab[t].doc.marks = tab[t].base

LEMMA MarkedState ==
  ASSUME NEW s \in TabType, NEW e
  PROVE  LET m == Marked(s, e) IN
         m.doc = s.doc /\ m.base = s.base /\ m.state = nextSaveState(s.state, e)
BY DEF Marked, TabType

LEMMA ConfirmedStep ==
  ASSUME Typed, [Next]_vars, NEW t \in Tabs, Confirmed(t)
  PROVE  Confirmed(t)'
<1>t. \A u \in Tabs : tab[u] \in TabType
  BY DEF Typed
\* A step that changes one tab.
<1>a. ASSUME NEW u \in Tabs, NEW a, tab' = [tab EXCEPT ![u] = a],
             a.state = "saved" => a.doc.marks = a.base
      PROVE  Confirmed(t)'
  BY <1>a DEF Confirmed, Typed
\* A step that ends in another state than saved.
<1>b. ASSUME NEW u \in Tabs, NEW s \in TabType, NEW e \in {"edited", "saveStarted", "saveFailed", "conflictSeen"},
             tab' = [tab EXCEPT ![u] = Marked(s, e)]
      PROVE  Confirmed(t)'
  <2>1. Marked(s, e).state # "saved"
    BY MarkedState DEF nextSaveState
  <2>2. QED
    BY <1>a, <1>b, <2>1
<1>1. ASSUME NEW u \in Tabs, Edits(u) PROVE Confirmed(t)'
  <2>1. PICK doc \in Doc, past \in Seq(Doc), future \in Seq(Doc) :
          Change(u, [tab[u] EXCEPT !.doc = doc, !.past = past, !.future = future])
    BY <1>1, EditMade
  <2>2. [tab[u] EXCEPT !.doc = doc, !.past = past, !.future = future] \in TabType
    BY <1>t DEF TabType
  <2>3. QED
    BY <1>b, <2>1, <2>2 DEF Change
<1>2. ASSUME NEW u \in Tabs, Resolve(u) PROVE Confirmed(t)'
  <2>0. tab[u].conflict \in Doc /\ tab[u].conflict.rev \in Nat /\ tab[u].offered \in Nat
    BY <1>t DEF TabType, Doc
  <2>1. CASE Save(u)
    BY <1>b, <1>t, <2>1 DEF Save, Send
  <2>2. CASE Overwrite(u)
    <3>1. [tab[u] EXCEPT !.conflict = NoDoc, !.rev = tab[u].conflict.rev,
                         !.knows = tab[u].offered] \in TabType
      BY <2>0, TabTypes
    <3>2. QED
      BY <1>b, <2>2, <3>1 DEF Overwrite, Send
  <2>3. CASE LoadTheirs(u)
    <3> DEFINE s == [Adopt(tab[u], tab[u].conflict) EXCEPT
                       !.conflict = NoDoc, !.loaded = TRUE, !.knows = tab[u].offered]
    <3>1. s \in TabType
      BY <2>0, TabTypes
    <3>2. s.doc.marks = s.base
      BY <1>t DEF Adopt, TabType
    <3>3. tab' = [tab EXCEPT ![u] = Marked(s, "adopted")]
      BY <2>3 DEF LoadTheirs
    <3> HIDE DEF s
    <3>4. Marked(s, "adopted").doc.marks = Marked(s, "adopted").base
      BY <3>1, <3>2, MarkedState
    <3>5. QED
      BY <1>a, <3>3, <3>4
  <2>4. QED
    BY <1>2, <2>1, <2>2, <2>3 DEF Resolve
<1>3. ASSUME NEW q \in puts, Answer(q) \/ SaveFails(q) PROVE Confirmed(t)'
  <2>0. q.tab \in Tabs /\ q.rev + 1 \in Nat /\ q.ver \in Nat /\ q.sent.marks \in SUBSET Nat
    BY DEF Typed, PutType, Doc
  <2>1. CASE Saved(q)
    <3> DEFINE s == [tab[q.tab] EXCEPT !.rev = q.rev + 1, !.knows = q.ver, !.base = q.sent.marks]
    <3> DEFINE e == IF tab[q.tab].doc = q.sent THEN "saveSucceeded" ELSE "edited"
    <3>1. s \in TabType
      BY <2>0, TabTypes
    <3>2. s.base = q.sent.marks /\ s.doc = tab[q.tab].doc
      BY <1>t, <2>0 DEF TabType
    <3>3. tab' = [tab EXCEPT ![q.tab] = Marked(s, e)]
      BY <2>0, <2>1 DEF Saved, Typed
    <3> HIDE DEF s
    <3>4. CASE tab[q.tab].doc = q.sent
      <4>1. PICK a : a = Marked(s, "saveSucceeded")
        OBVIOUS
      <4>2. a.doc.marks = a.base
        BY <3>1, <3>2, <3>4, <4>1, MarkedState
      <4>3. QED
        BY <1>a, <2>0, <3>3, <3>4, <4>1, <4>2
    <3>5. CASE tab[q.tab].doc # q.sent
      BY <1>b, <2>0, <3>1, <3>3, <3>5
    <3>6. QED
      BY <3>4, <3>5
  <2>2. CASE Conflicted(q)
    BY <1>b, <1>t, <2>0, <2>2 DEF Conflicted
  <2>3. CASE SaveFails(q)
    BY <1>b, <1>t, <2>0, <2>3 DEF SaveFails
  <2>4. QED
    BY <1>3, <2>1, <2>2, <2>3 DEF Answer
<1>4. ASSUME NEW g \in gets, Arrive(g) \/ ReadFails(g) PROVE Confirmed(t)'
  <2>0. g.tab \in Tabs /\ tab[g.tab] \in TabType
    BY <1>t DEF Typed, GetType
  <2>1. CASE Loaded(g)
    <3>1. LET a == [Adopt(tab[g.tab], g.doc) EXCEPT !.loaded = TRUE, !.knows = g.ver]
          IN  a.doc.marks = a.base
      BY <2>0 DEF Adopt, TabType
    <3>2. QED
      BY <1>a, <2>0, <2>1, <3>1 DEF Loaded
  <2>2. CASE Offered(g)
    BY <2>0, <2>2 DEF Offered, Confirmed, Typed, TabType
  <2>3. CASE Read(g) \/ ReadFails(g)
    BY <2>3 DEF Read, ReadFails, Confirmed
  <2>4. QED
    BY <1>4, <2>1, <2>2, <2>3 DEF Arrive
<1>5. ASSUME tab' = tab PROVE Confirmed(t)'
  BY <1>5 DEF Confirmed
<1>6. ASSUME NEW q \in puts, Serve(q) PROVE Confirmed(t)'
  BY <1>5, <1>6 DEF Serve, Compare, Write
<1>7. CASE Reset \/ UNCHANGED vars
  BY <1>5, <1>7 DEF Reset, vars
<1>8. QED
  BY <1>1, <1>2, <1>3, <1>4, <1>6, <1>7 DEF Next, Working

\* A tab never says saved of a document that is not what the server last
\* confirmed to it or sent it, whatever was edited while a save was under way
\* (document.ts:320).
THEOREM SavedIsConfirmedKept == Spec => []SavedIsConfirmed
<1>1. Init => SavedIsConfirmed
  <2>1. Fresh.doc.marks = Fresh.base
    BY DEF Fresh, DemoDoc
  <2>2. \A t \in Tabs : Open(t).doc.marks = Open(t).base
    BY DEF Open, Adopt, Fresh, DefaultDoc
  <2>3. \A t \in Tabs : Back(t).doc.marks = Back(t).base
    BY DEF Back, Open, Adopt, Fresh, DefaultDoc
  <2>4. QED
    BY <2>1, <2>2, <2>3 DEF Init, SavedIsConfirmed
<1>2. IInv /\ SavedIsConfirmed /\ [Next]_vars => SavedIsConfirmed'
  BY ConfirmedStep DEF IInv, SavedIsConfirmed, Confirmed
<1>3. QED
  BY <1>1, <1>2, Inductive, PTL DEF Spec
=============================================================================
