------------------------- MODULE WorkspaceDocument -------------------------
(***************************************************************************)
(* The Nexus workspace document: one file on the server, its revision      *)
(* compared when a save arrives (plugin_api.py), and the browser tabs that *)
(* edit a copy each (nexus-ui stores/document.ts).  Handlers run in a      *)
(* thread pool, so the comparison and the write are two steps; a request   *)
(* may fail before or after the server has carried it out.                 *)
(***************************************************************************)
EXTENDS Naturals, Sequences, FiniteSets

CONSTANTS
  Tabs,
  Opening,    \* the tabs that have yet to read the document
  Undone,     \* a tab in which an edit was made and taken back, if any
  Budget      \* bound: how many edits, and faults or resets

ASSUME DocumentAssumption ==
  /\ Opening \subseteq Tabs /\ Undone \subseteq Tabs \ Opening
  /\ \A t, u \in Undone : t = u
  /\ Budget \in [{"edit", "fault"} -> Nat]

VARIABLES
  file,     \* the document on the server, and which write it is of
  tab,      \* [tab -> what its store holds]
  puts,     \* the saves under way
  gets,     \* the reads under way
  \* Observed.
  writes,   \* how many saves were sent, to tell them apart
  outdated, \* the writes stored, but replaced, when a save last raced or a reset came
  left      \* what remains of Budget

vars == <<file, tab, puts, gets, writes, outdated, left>>

\* A document is its revision and the edits in it; Demo is the built-in one.
Demo       == 0
DefaultDoc == [rev |-> 0, marks |-> {}]
DemoDoc    == [rev |-> 1, marks |-> {Demo}]
NoDoc      == [rev |-> 0, marks |-> {Demo}]

Fresh == [doc |-> DemoDoc, past |-> <<>>, future |-> <<>>, rev |-> DemoDoc.rev,
          state |-> "saved", conflict |-> NoDoc, loaded |-> FALSE,
          knows |-> 0, offered |-> 0, base |-> {Demo}]

Get(t, why) == [tab |-> t, why |-> why, at |-> "sent", ver |-> 0, doc |-> NoDoc]

Adopt(s, doc) == [s EXCEPT !.doc = doc, !.past = <<>>, !.future = <<>>, !.rev = doc.rev,
                           !.base = doc.marks]

\* A tab that has loaded the document; one of them saved an edit taken back.
First   == IF Undone = {} THEN DefaultDoc ELSE [DefaultDoc EXCEPT !.rev = 1]
Open(t) == [Adopt(Fresh, DefaultDoc) EXCEPT !.loaded = TRUE]
Back(t) == [Open(t) EXCEPT
              !.rev = First.rev, !.knows = First.rev,
              !.future = <<[DefaultDoc EXCEPT !.marks = {Budget["edit"] + 1}]>>]

Init ==
  /\ file = [ver |-> First.rev, doc |-> First]
  /\ tab = [t \in Tabs |-> IF t \in Opening THEN Fresh
                            ELSE IF t \in Undone THEN Back(t) ELSE Open(t)]
  /\ puts = {} /\ gets = {Get(t, "load") : t \in Opening}
  /\ writes = First.rev /\ outdated = {} /\ left = Budget

Spend(what) == left[what] > 0 /\ left' = [left EXCEPT ![what] = @ - 1]

-----------------------------------------------------------------------------
\* document.ts: the save state machine and the undo reducer.

nextSaveState(s, e) ==
  CASE e = "edited"        -> IF s = "saving" THEN "saving" ELSE "unsaved"
    [] e = "saveStarted"   -> "saving"
    [] e = "saveFailed"    -> "failed"
    [] e = "conflictSeen"  -> "conflict"
    [] OTHER               -> "saved"

Marked(s, e) == [s EXCEPT !.state = nextSaveState(@, e)]

Change(t, s) ==
  /\ Spend("edit") /\ tab' = [tab EXCEPT ![t] = Marked(s, "edited")]
  /\ UNCHANGED <<file, puts, gets, writes, outdated>>

\* Each edit is its own mark.
Edit(t) ==
  LET s == tab[t] IN
  Change(t, [s EXCEPT !.past = Append(@, s.doc), !.future = <<>>,
                      !.doc.marks = @ \cup {left["edit"]}])

Undo(t) ==
  LET s == tab[t]  n == Len(s.past) IN
  /\ n > 0
  /\ Change(t, [s EXCEPT !.doc = s.past[n], !.past = SubSeq(s.past, 1, n - 1),
                         !.future = <<s.doc>> \o @])

Redo(t) ==
  LET s == tab[t] IN
  /\ s.future # <<>>
  /\ Change(t, [s EXCEPT !.doc = Head(s.future), !.future = Tail(@),
                         !.past = Append(@, s.doc)])

-----------------------------------------------------------------------------
\* document.ts: save, and what comes back.

\* The revision is stamped when the save is sent.
Send(t, s) ==
  /\ writes' = writes + 1
  /\ puts' = puts \cup {[ver |-> writes', tab |-> t, rev |-> s.rev, sent |-> s.doc,
                         at |-> "sent", was |-> 0, heard |-> TRUE,
                         loaded |-> s.loaded, knows |-> s.knows]}
  /\ tab' = [tab EXCEPT ![t] = Marked(s, "saveStarted")]
  /\ UNCHANGED <<file, gets, outdated, left>>

\* Mutant: the revision is that of the document, which undo takes back.
SaveOwn(t) ==
  /\ tab[t].state \in {"unsaved", "failed"}
  /\ Send(t, [tab[t] EXCEPT !.rev = tab[t].doc.rev])

\* Mutant: the button is gone once a save has failed.
SaveOnce(t) == tab[t].state = "unsaved" /\ Send(t, tab[t])

\* The button is there only while something is unsaved.
Save(t) == tab[t].state \in {"unsaved", "failed"} /\ Send(t, tab[t])

\* The banner's two ways out.
Overwrite(t) ==
  LET s == tab[t] IN
  /\ s.conflict # NoDoc
  /\ Send(t, [s EXCEPT !.conflict = NoDoc, !.rev = s.conflict.rev,
                       !.knows = s.offered])

LoadTheirs(t) ==
  LET s == tab[t] IN
  /\ s.conflict # NoDoc
  /\ tab' = [tab EXCEPT ![t] = Marked([Adopt(s, s.conflict) EXCEPT
                 !.conflict = NoDoc, !.loaded = TRUE, !.knows = s.offered], "adopted")]
  /\ UNCHANGED <<file, puts, gets, writes, outdated, left>>

\* Mutant: whatever comes back, all is saved.
SavedTrusting(q) ==
  /\ q.at = "written" /\ q.heard /\ puts' = puts \ {q}
  /\ tab' = [tab EXCEPT ![q.tab] = Marked([@ EXCEPT !.rev = q.rev + 1,
                 !.knows = q.ver, !.base = q.sent.marks], "saveSucceeded")]
  /\ UNCHANGED <<file, gets, writes, outdated, left>>

\* Edited in between, the document is not the one that was saved.
Saved(q) ==
  /\ q.at = "written" /\ q.heard /\ puts' = puts \ {q}
  /\ tab' = [tab EXCEPT ![q.tab] = Marked([@ EXCEPT !.rev = q.rev + 1,
                 !.knows = q.ver, !.base = q.sent.marks],
                 IF @.doc = q.sent THEN "saveSucceeded" ELSE "edited")]
  /\ UNCHANGED <<file, gets, writes, outdated, left>>

\* The 409 makes the tab read what is there now.
Conflicted(q) ==
  /\ q.at = "stale" /\ q.heard /\ puts' = puts \ {q}
  /\ tab' = [tab EXCEPT ![q.tab] = Marked(@, "conflictSeen")]
  /\ gets' = gets \cup {Get(q.tab, "conflict")}
  /\ UNCHANGED <<file, writes, outdated, left>>

\* No answer: the server never got the save, or has it, or has yet to do it.
SaveFails(q) ==
  /\ q.heard /\ Spend("fault")
  /\ \/ q.at = "sent" /\ puts' = puts \ {q}
     \/ puts' = (puts \ {q}) \cup {[q EXCEPT !.heard = FALSE]}
  /\ tab' = [tab EXCEPT ![q.tab] = Marked(@, "saveFailed")]
  /\ UNCHANGED <<file, gets, writes, outdated>>

\* The first read replaces what the tab holds, its edits too, and no event
\* tells the state machine.
Loaded(g) ==
  /\ g.at = "answered" /\ g.why = "load" /\ gets' = gets \ {g}
  /\ tab' = [tab EXCEPT ![g.tab] = [Adopt(@, g.doc) EXCEPT
                 !.loaded = TRUE, !.knows = g.ver]]
  /\ UNCHANGED <<file, puts, writes, outdated, left>>

Offered(g) ==
  /\ g.at = "answered" /\ g.why = "conflict" /\ gets' = gets \ {g}
  /\ tab' = [tab EXCEPT ![g.tab].conflict = g.doc, ![g.tab].offered = g.ver]
  /\ UNCHANGED <<file, puts, writes, outdated, left>>

\* Swallowed.
ReadFails(g) ==
  /\ Spend("fault") /\ gets' = gets \ {g}
  /\ UNCHANGED <<file, tab, puts, writes, outdated>>

-----------------------------------------------------------------------------
\* plugin_api.py.

At(q, at) == (puts \ {q}) \cup {[q EXCEPT !.at = at, !.was = file.ver]}

\* Mutant: the last save wins.
CompareNot(q) ==
  /\ q.at = "sent" /\ puts' = At(q, "compared")
  /\ UNCHANGED <<file, tab, gets, writes, outdated, left>>

\* The document is read and the revisions are compared ...
Compare(q) ==
  /\ q.at = "sent"
  /\ puts' = At(q, IF q.rev = file.doc.rev THEN "compared" ELSE "stale")
  /\ UNCHANGED <<file, tab, gets, writes, outdated, left>>

\* The writes that were stored, or never will be.
Stored == {v \in 0..writes : \A q \in puts : q.at \in {"sent", "compared"} => q.ver # v}

\* ... and then it is written, whatever has been written in between: then the
\* revision no longer tells the two documents apart.
Write(q) ==
  /\ q.at = "compared"
  /\ file' = [ver |-> q.ver, doc |-> [rev |-> q.rev + 1, marks |-> q.sent.marks]]
  /\ puts' = (puts \ {q}) \cup (IF q.heard THEN {[q EXCEPT !.at = "written"]} ELSE {})
  /\ outdated' = IF file.ver = q.was THEN outdated ELSE outdated \cup Stored
  /\ UNCHANGED <<tab, gets, writes, left>>

Read(g) ==
  /\ g.at = "sent"
  /\ gets' = (gets \ {g}) \cup {[g EXCEPT !.at = "answered", !.ver = file.ver, !.doc = file.doc]}
  /\ UNCHANGED <<file, tab, puts, writes, outdated, left>>

\* The owner resets the workspace: revisions start again.
Reset ==
  /\ file.ver # 0 /\ Spend("fault")
  /\ file' = [ver |-> 0, doc |-> DefaultDoc]
  /\ outdated' = outdated \cup (Stored \ {0})
  /\ UNCHANGED <<tab, puts, gets, writes>>

-----------------------------------------------------------------------------
Edits(t)   == Edit(t) \/ Undo(t) \/ Redo(t)
Resolve(t) == Save(t) \/ Overwrite(t) \/ LoadTheirs(t)
Answer(q)  == Saved(q) \/ Conflicted(q)
Serve(q)   == Compare(q) \/ Write(q)
Arrive(g)  == Loaded(g) \/ Offered(g) \/ Read(g)

Working ==
  \/ \E t \in Tabs : Resolve(t)
  \/ \E q \in puts : Answer(q) \/ Serve(q)
  \/ \E g \in gets : Arrive(g)

Next ==
  \/ Working \/ Reset
  \/ \E t \in Tabs : Edits(t)
  \/ \E q \in puts : SaveFails(q)
  \/ \E g \in gets : ReadFails(g)

Spec == Init /\ [][Next]_vars

\* Requests are served and answered, and a user who is offered a way to save
\* or to resolve a conflict takes it.
FairSpec == Spec /\ WF_vars(Working)

-----------------------------------------------------------------------------
\* "A stale tab can NEVER silently overwrite": a save passes the comparison
\* only if its tab last heard of exactly the document it is compared with.  A
\* save that is written over one it was not compared with, and a reset, break
\* this, but only for the tabs that heard nothing since: one that loads, saves
\* or is refused afterwards is told apart again.  A tab that never loaded and
\* saves the built-in document as revision 1 never knew.
AcceptedKnew ==
  \A q \in puts : q.at \in {"compared", "written"} =>
    q.was = q.knows \/ q.knows \in outdated \/ ~q.loaded

\* A save is refused only when the document is not the one the tab last loaded
\* or was told it had saved: undo, and its own earlier saves, are no conflict.
RefusedIsStale ==
  \A q \in puts : q.at = "stale" => q.was # q.knows \/ ~q.loaded

\* What is shown as saved is what the server last confirmed or sent: an edit
\* made while a save was under way is not lost from sight.
SavedIsConfirmed ==
  \A t \in Tabs : tab[t].state = "saved" => tab[t].doc.marks = tab[t].base

\* No save under way, and nothing to press.
Stuck(t) ==
  /\ tab[t].state \in {"saving", "conflict"} /\ tab[t].conflict = NoDoc
  /\ \A q \in puts : q.tab # t \/ ~q.heard
  /\ \A g \in gets : g.tab # t

\* The save handler re-marks an edit made in mid flight (document.ts:218): a
\* tab that says saving has a save under way.
SavingIsUnderWay ==
  \A t \in Tabs : tab[t].state = "saving" => \E q \in puts : q.tab = t /\ q.heard

\* Every tab's edits are stored in the end, or given up for another's, unless it
\* is stuck.
EventuallySaved == <>[](\A t \in Tabs : tab[t].state = "saved" \/ Stuck(t))
=============================================================================
