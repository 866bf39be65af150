--------------------------- MODULE SkillsInstall ---------------------------
(***************************************************************************)
(* hg skills install (skills/install.ts): an approved review is put into   *)
(* the agent's source tree.  The packages are replaced one by one under a  *)
(* journal that names their backups; an error rolls back, from what the    *)
(* process remembers of the backups, and the next installation after a     *)
(* crash restores from the journal before it begins.                       *)
(* Names, hashes and path checks are abstracted: a package is the review's *)
(* content of that name, or differs from every review.                     *)
(***************************************************************************)
EXTENDS Naturals, FiniteSets

CONSTANTS
  Skills,
  Reviews,    \* what may be reviewed: [skill -> its package, or Absent]
  NoReview, Absent,
  Edited,     \* a package somebody modified by hand
  Torn,       \* what a step that was cut off leaves
  Faults,     \* the kinds of fault that may happen
  Budget      \* bound: how many approvals, edits and faults

Packages == UNION {{r[n] : n \in Skills} : r \in Reviews}

ASSUME SkillsAssumption ==
  /\ \A r \in Reviews : DOMAIN r = Skills
  /\ NoReview \notin Reviews /\ Torn \notin Reviews
  /\ Edited \notin Packages /\ Torn \notin Packages
  /\ Absent # Edited /\ Absent # Torn /\ Edited # Torn /\ NoReview # Torn
  /\ Faults \subseteq {"crash", "io"}
  /\ Budget \in [{"approve", "edit", "fault"} -> Nat]

VARIABLES
  approved,  \* the review of this agent that is approved
  disk,      \* [skill -> the package in the tree]
  lock,      \* skills.lock.yaml: the review it is of, or Torn
  journal,   \* .skills-install.json and the transaction it names
  pc,
  todo,      \* the skills the loop has yet to come to
  backup,    \* what a run knows of the transaction directory
  next,      \* where a restoration goes on
  \* Observed.
  amid,      \* the skills modified while an installation is under way
  left       \* what remains of Budget

tree == <<disk, lock, journal>>
run  == <<pc, todo, backup, next>>
vars == <<approved, tree, run, amid, left>>

NoJournal == [review |-> NoReview, old |-> [n \in Skills |-> Absent],
              names |-> {}, lock |-> NoReview]
TornJournal == [NoJournal EXCEPT !.review = Torn]

Init ==
  /\ approved \in Reviews
  /\ disk = [n \in Skills |-> Absent] /\ lock = NoReview /\ journal = NoJournal
  /\ pc = "idle" /\ todo = {} /\ backup = NoJournal /\ next = "idle"
  /\ amid = {} /\ left = Budget

Spend(what) == left[what] > 0 /\ left' = [left EXCEPT ![what] = @ - 1]
Fault(what) == what \in Faults /\ Spend("fault")

\* What the lock declares of a skill.
Locked(n)    == IF lock \in Reviews THEN lock[n] ELSE Absent
Untouched(n) == disk[n] \in {Absent, Locked(n)}
Names(r)     == {n \in Skills : r[n] # Absent \/ Locked(n) # Absent}

-----------------------------------------------------------------------------
\* A new review is approved, which takes the place of the earlier approval.
Approve(r) ==
  /\ r # approved /\ Spend("approve") /\ approved' = r /\ pc = "idle"
  /\ UNCHANGED <<tree, run, amid>>

\* A package is modified by hand.
Edit(n) ==
  /\ Spend("edit") /\ disk[n] \notin {Edited, Torn}
  /\ disk' = [disk EXCEPT ![n] = Edited]
  /\ amid' = IF pc = "idle" /\ journal = NoJournal THEN amid ELSE amid \cup {n}
  /\ UNCHANGED <<approved, lock, journal, run>>

Halt == pc' = "idle" /\ todo' = {} /\ backup' = NoJournal /\ next' = "idle"

Ended == amid' = IF journal' = NoJournal THEN {} ELSE amid

\* The process dies: the package, the lock or the journal at hand is torn.
Crash ==
  /\ Fault("crash") /\ pc # "idle" /\ Halt
  /\ \/ UNCHANGED tree
     \/ /\ pc \in {"swap", "restore"}
        /\ \E n \in todo : disk' = [disk EXCEPT ![n] = Torn]
        /\ UNCHANGED <<lock, journal>>
     \/ pc \in {"lock", "unlock"} /\ lock' = Torn /\ UNCHANGED <<disk, journal>>
     \/ pc = "journal" /\ journal' = TornJournal /\ UNCHANGED <<disk, lock>>
  /\ Ended /\ UNCHANGED approved

-----------------------------------------------------------------------------
\* installSkills, up to the journal.

\* Mutant: the next installation does not look at the journal.
StartOver ==
  /\ pc = "idle" /\ pc' = "check"
  /\ UNCHANGED <<todo, next>> /\ UNCHANGED <<approved, tree, backup, amid, left>>

\* A journal is restored first, if it is of the same review.
Start ==
  /\ pc = "idle" /\ journal.review \in {NoReview, approved}
  /\ IF journal = NoJournal THEN pc' = "check" /\ UNCHANGED <<todo, next>>
     ELSE pc' = "restore" /\ todo' = journal.names /\ next' = "check"
  /\ backup' = journal /\ UNCHANGED <<approved, tree, amid, left>>

\* Mutant: only what the new review names is looked at.
CheckNamed ==
  /\ pc = "check"
  /\ IF \A n \in Skills : approved[n] # Absent => Untouched(n)
     THEN pc' = "backup" /\ UNCHANGED <<todo, backup, next, amid>>
     ELSE Halt /\ amid' = {}
  /\ UNCHANGED <<approved, tree, left>>

\* A collision or a local modification is refused.
Check ==
  /\ pc = "check"
  /\ IF \A n \in Names(approved) : Untouched(n)
     THEN pc' = "backup" /\ UNCHANGED <<todo, backup, next, amid>>
     ELSE Halt /\ amid' = {}
  /\ UNCHANGED <<approved, tree, left>>

Backup ==
  /\ pc = "backup" /\ pc' = "journal"
  /\ backup' = [review |-> approved, old |-> disk, names |-> Names(approved), lock |-> lock]
  /\ UNCHANGED <<approved, tree, todo, next, amid, left>>

\* Mutant: the journal is written once the packages are in place.
JournalLate ==
  /\ pc = "journal" /\ pc' = "swap" /\ todo' = backup.names
  /\ UNCHANGED <<approved, tree, backup, next, amid, left>>

Journal ==
  /\ pc = "journal" /\ journal' = backup /\ pc' = "swap" /\ todo' = backup.names
  /\ UNCHANGED <<approved, disk, lock, backup, next, amid, left>>

RollBack == pc' = "restore" /\ todo' = backup.names /\ next' = "idle"

\* The backups or the journal fail.  The file may be there all the same, cut
\* off or complete, and then the packages are put back.
JournalFails ==
  /\ pc \in {"backup", "journal"} /\ Fault("io")
  /\ \/ Halt /\ UNCHANGED journal /\ Ended
     \/ /\ pc = "journal" /\ journal' \in {backup, TornJournal} /\ RollBack
        /\ UNCHANGED <<backup, amid>>
  /\ UNCHANGED <<approved, disk, lock>>

-----------------------------------------------------------------------------
\* The exchange, and the way back.

Swap(n) ==
  /\ pc = "swap" /\ n \in todo
  /\ disk' = [disk EXCEPT ![n] = approved[n]] /\ todo' = todo \ {n}
  /\ UNCHANGED <<approved, lock, journal, pc, backup, next, amid, left>>

WriteLock ==
  /\ pc = "swap" /\ todo = {} /\ pc' = "lock"
  /\ UNCHANGED <<approved, tree, todo, backup, next, amid, left>>

Locks ==
  /\ pc = "lock" /\ lock' = approved /\ pc' = "verify"
  /\ UNCHANGED <<approved, disk, journal, todo, backup, next, amid, left>>

Verify ==
  /\ pc = "verify"
  /\ IF \A n \in Skills : approved[n] # Absent => disk[n] = approved[n]
     THEN pc' = "unlink" /\ UNCHANGED <<todo, next>> ELSE RollBack
  /\ UNCHANGED <<approved, tree, backup, amid, left>>

\* The installation counts from here.
Unlink ==
  /\ pc = "unlink" /\ journal' = NoJournal /\ Halt /\ Ended
  /\ UNCHANGED <<approved, disk, lock, left>>

\* A step fails; what a copy or a write had done is undone with the rest.
Fails ==
  /\ pc \in {"swap", "lock", "verify", "unlink"} /\ Fault("io") /\ RollBack
  /\ \/ UNCHANGED <<disk, lock>>
     \/ pc = "swap" /\ (\E n \in todo : disk' = [disk EXCEPT ![n] = Torn]) /\ UNCHANGED lock
     \/ pc = "lock" /\ lock' = Torn /\ UNCHANGED disk
  /\ UNCHANGED <<approved, journal, backup, amid>>

Restore(n) ==
  /\ pc = "restore" /\ n \in todo
  /\ disk' = [disk EXCEPT ![n] = backup.old[n]] /\ todo' = todo \ {n}
  /\ UNCHANGED <<approved, lock, journal, pc, backup, next, amid, left>>

RestoreDone ==
  /\ pc = "restore" /\ todo = {} /\ pc' = "unlock"
  /\ UNCHANGED <<approved, tree, todo, backup, next, amid, left>>

RestoreLock ==
  /\ pc = "unlock" /\ lock' = backup.lock /\ pc' = "recovered"
  /\ UNCHANGED <<approved, disk, journal, todo, backup, next, amid, left>>

Recovered ==
  /\ pc = "recovered" /\ journal' = NoJournal
  /\ IF next = "idle" THEN Halt /\ Ended
     ELSE pc' = next /\ next' = "idle" /\ backup' = NoJournal /\ UNCHANGED <<todo, amid>>
  /\ UNCHANGED <<approved, disk, lock, left>>

\* A restoration fails: the journal stays for the next installation.
RestoreFails ==
  /\ pc \in {"restore", "unlock", "recovered"} /\ Fault("io") /\ Halt
  /\ \/ UNCHANGED <<disk, lock>>
     \/ pc = "restore" /\ (\E n \in todo : disk' = [disk EXCEPT ![n] = Torn]) /\ UNCHANGED lock
     \/ pc = "unlock" /\ lock' = Torn /\ UNCHANGED disk
  /\ UNCHANGED <<approved, journal, amid>>

-----------------------------------------------------------------------------
Step ==
  \/ Start \/ Check \/ Backup \/ Journal \/ WriteLock \/ Locks \/ Verify \/ Unlink
  \/ RestoreDone \/ RestoreLock \/ Recovered
  \/ \E n \in Skills : Swap(n) \/ Restore(n)

Next ==
  \/ Step \/ JournalFails \/ Fails \/ RestoreFails \/ Crash
  \/ \E n \in Skills : Edit(n)
  \/ \E r \in Reviews : Approve(r)

Spec == Init /\ [][Next]_vars

\* The operator installs again after a failure, and a run goes on.
FairSpec == Spec /\ WF_vars(Step)

-----------------------------------------------------------------------------
\* A journal that could not be written does not stand for the backups that the
\* run, while it lives, puts back.
Guarded == pc = "idle" \/ journal.review # Torn

\* What is relied on: under a journal, its backups.
Relied == IF Guarded THEN journal ELSE backup
Kept ==
  [n \in Skills |-> IF Relied.review \in Reviews /\ n \in Relied.names
                    THEN Relied.old[n] ELSE disk[n]]
KeptLock == IF Relied.review \in Reviews THEN Relied.lock ELSE lock

Atomic == INSTANCE AtomicInstall WITH kept <- Kept, lock <- KeptLock, guarded <- Guarded

\* The packages and the lock change at once, when the journal is unlinked, and
\* every failure, crash and recovery before is nothing to a reader who waits;
\* only a death, or a second failure, while the backups are put back because
\* the journal itself could not be written may tear one package or the lock.
ImplementsAtomicInstall == Atomic!Spec

\* A modification made before an installation began is never overwritten, by
\* it, its rollback or a recovery.
EditsKept ==
  [][\A n \in Skills : disk[n] = Edited /\ disk'[n] # Edited => n \in amid]_vars

\* A journal that was cut off, a journal of a review no longer approved, or a
\* local modification: each needs the operator.
Refused ==
  \/ journal.review \notin {NoReview, approved}
  \/ \E n \in Skills : disk[n] = Edited

Installed == journal = NoJournal /\ lock = approved /\ disk = approved

\* An approved review that is installed again and again is installed in the
\* end: every crash and failure is recovered by the journal alone.
EventuallyInstalled == []<>(Installed \/ Refused)
=============================================================================
