------------------------ MODULE SkillsInstall_proofs ------------------------
(***************************************************************************)
(* Theorems about the installation of skills, for any skills, reviews and  *)
(* bounds: the journal makes it atomic, and no modification made before it *)
(* began is overwritten.                                                   *)
(***************************************************************************)
EXTENDS SkillsInstall, TLAPS

Things  == Packages \cup {Absent, Edited, Torn}
OrNone  == Reviews \cup {NoReview}
OrTorn  == Reviews \cup {NoReview, Torn}

JournalType == [review : OrTorn, old : [Skills -> Things], names : SUBSET Skills, lock : OrTorn]

Before    == pc \in {"check", "backup", "journal"}
Exchange  == pc \in {"swap", "lock", "verify", "unlink"}
WayBack   == pc \in {"restore", "unlock", "recovered"}
Journaled == Exchange \/ WayBack

Typed ==
  /\ approved \in Reviews /\ disk \in [Skills -> Things] /\ lock \in OrTorn
  /\ journal \in JournalType /\ backup \in JournalType
  /\ pc = "idle" \/ Before \/ Journaled
  /\ todo \in SUBSET Skills /\ next \in {"idle", "check"} /\ amid \in SUBSET Skills

-----------------------------------------------------------------------------
(* The journal *)

Of(l, n) == IF l \in Reviews THEN l[n] ELSE Absent

\* A journal holds what was there when it began, all of it what the lock says
\* or modified amid; the packages it does not name are nobody's or modified.
Whole(j) ==
  /\ j.lock \in OrNone
  /\ j.names = {n \in Skills : j.review[n] # Absent \/ Of(j.lock, n) # Absent}
  /\ \A n \in j.names : /\ j.old[n] = Of(j.lock, n) \/ (j.old[n] = Edited /\ n \in amid)
                        /\ disk[n] = Edited => n \in amid
  /\ \A n \in Skills \ j.names : disk[n] \in {Absent, Edited}

\* Without a journal the packages are those of the lock, or modified.
Plain ==
  journal = NoJournal =>
    lock \in OrNone /\ \A n \in Skills : disk[n] \in {Of(lock, n), Edited}

\* While packages are exchanged or put back the run's backups are those of the
\* journal, unless the journal could not be written.
Stands ==
  /\ Before => journal = NoJournal
  /\ journal.review = NoReview => journal = NoJournal
  /\ journal.review = Torn => journal = TornJournal
  /\ journal.review \in Reviews => Whole(journal)
  /\ Journaled => /\ backup.review = approved /\ Whole(backup)
                  /\ journal = backup \/ journal = TornJournal
  /\ Exchange => journal = backup
  /\ pc \in {"swap", "restore"} => todo \subseteq backup.names
  /\ pc = "backup" => \A n \in Names(approved) : disk[n] = Edited => n \in amid
  /\ pc = "journal" => backup.review = approved /\ backup.lock = lock /\ Whole(backup)

\* The tree is as it was when the backups were made, or modified amid.
AsBefore == \A n \in backup.names : disk[n] \in {backup.old[n], Edited}

\* How far the exchange, or the way back, has come.
Progress ==
  /\ pc = "journal" => AsBefore
  /\ Exchange =>
       \A n \in backup.names : (n \in todo /\ pc = "swap") \/ disk[n] \in {approved[n], Edited}
  /\ pc \in {"verify", "unlink"} => lock = approved
  /\ WayBack =>
       \A n \in backup.names : (n \in todo /\ pc = "restore") \/ disk[n] \in {backup.old[n], Edited}
  /\ pc = "recovered" => lock = backup.lock
  /\ WayBack /\ journal = TornJournal => lock = backup.lock /\ AsBefore

IInv == Typed /\ Plain /\ Stands /\ Progress

-----------------------------------------------------------------------------
LEMMA PackageFacts ==
  /\ \A r \in Reviews, n \in Skills : r[n] \in Things /\ r[n] # Edited /\ r[n] # Torn
  /\ NoReview \notin Reviews /\ Torn \notin Reviews /\ NoReview # Torn
  /\ Absent # Edited
  /\ \A l : \A n \in Skills : Of(l, n) # Edited
BY SkillsAssumption DEF Packages, Things, Of

LEMMA LockedIsOf == \A n : Locked(n) = Of(lock, n)
BY DEF Locked, Of

LEMMA JournalFacts ==
  /\ NoJournal \in JournalType /\ TornJournal \in JournalType
  /\ NoJournal.review = NoReview /\ NoJournal.names = {} 
  /\ TornJournal.review = Torn /\ TornJournal.names = {}
  /\ TornJournal # NoJournal
<1>1. [n \in Skills |-> Absent] \in [Skills -> Things]
  BY DEF Things
<1>2. NoJournal \in JournalType /\ NoJournal.review = NoReview /\ NoJournal.names = {}
  BY <1>1 DEF NoJournal, JournalType, OrTorn
<1>3. TornJournal \in JournalType /\ TornJournal.review = Torn /\ TornJournal.names = {}
  BY <1>2 DEF TornJournal, JournalType, OrTorn
<1>4. QED
  BY <1>2, <1>3, PackageFacts

LEMMA TypedStep == Typed /\ Stands /\ [Next]_vars => Typed'
<1> SUFFICES ASSUME Typed, Stands, [Next]_vars PROVE Typed'
  OBVIOUS
<1> USE PackageFacts, JournalFacts DEF Before, Journaled, Exchange, WayBack
<1>h. Halt => pc' = "idle" /\ todo' = {} /\ backup' \in JournalType /\ next' = "idle"
  BY DEF Halt
<1>e. Ended => amid' \in SUBSET Skills
  BY DEF Ended, Typed
<1>d. /\ \A n \in Skills : [disk EXCEPT ![n] = Torn] \in [Skills -> Things]
      /\ \A n \in Skills : [disk EXCEPT ![n] = Edited] \in [Skills -> Things]
      /\ \A n \in Skills : [disk EXCEPT ![n] = approved[n]] \in [Skills -> Things]
      /\ \A n \in Skills : [disk EXCEPT ![n] = backup.old[n]] \in [Skills -> Things]
  BY DEF Typed, Things, JournalType
<1>l. /\ Torn \in OrTorn /\ approved \in OrTorn /\ backup.lock \in OrTorn
      /\ journal.names \in SUBSET Skills /\ backup.names \in SUBSET Skills
  BY DEF Typed, OrTorn, JournalType
<1>1. ASSUME NEW r \in Reviews, Approve(r) PROVE Typed'
  BY <1>1 DEF Typed, Approve, tree, run
<1>2. ASSUME NEW n \in Skills, Edit(n) PROVE Typed'
  BY <1>2, <1>d DEF Typed, Edit, run
<1>3. CASE Crash
  BY <1>3, <1>h, <1>e, <1>d, <1>l DEF Typed, Crash, tree
<1>4. CASE Start
  BY <1>4, <1>l DEF Typed, Start, tree
<1>5. CASE Check
  BY <1>5, <1>h DEF Typed, Check, tree
<1>6. CASE Backup
  <2>1. backup' \in JournalType
    BY <1>6 DEF Backup, Typed, JournalType, Names, OrTorn
  <2>2. QED
    BY <1>6, <2>1 DEF Typed, Backup, tree
<1>7. CASE Journal
  BY <1>7, <1>l DEF Typed, Journal
<1>8. ASSUME NEW n \in Skills, Swap(n) \/ Restore(n) PROVE Typed'
  BY <1>8, <1>d DEF Typed, Swap, Restore
<1>9. CASE WriteLock \/ RestoreDone
  BY <1>9 DEF Typed, WriteLock, RestoreDone, tree
<1>10. CASE Locks \/ RestoreLock
  BY <1>10, <1>l DEF Typed, Locks, RestoreLock
<1>11. CASE Verify
  BY <1>11, <1>l DEF Typed, Verify, RollBack, tree
<1>12. CASE Unlink
  BY <1>12, <1>h, <1>e DEF Typed, Unlink
<1>13. CASE Fails
  BY <1>13, <1>d, <1>l DEF Typed, Fails, RollBack
<1>14. CASE Recovered
  BY <1>14, <1>h, <1>e DEF Typed, Recovered
<1>15. CASE RestoreFails
  BY <1>15, <1>h, <1>d, <1>l DEF Typed, RestoreFails
<1>16. CASE JournalFails
  BY <1>16, <1>h, <1>e, <1>l DEF Typed, JournalFails, RollBack
<1>17. CASE UNCHANGED vars
  BY <1>17 DEF Typed, vars, tree, run
<1>18. QED
  BY <1>1, <1>2, <1>3, <1>4, <1>5, <1>6, <1>7, <1>8, <1>9, <1>10, <1>11, <1>12, <1>13,
     <1>14, <1>15, <1>16, <1>17 DEF Next, Step

-----------------------------------------------------------------------------
(* The invariant *)

LEMMA UnderJournal ==
  ASSUME Typed, Stands, Journaled
  PROVE  /\ backup.review = approved /\ Whole(backup)
         /\ journal = backup \/ journal = TornJournal
         /\ journal # NoJournal /\ approved \in Reviews
         /\ \A n \in Skills : approved[n] # Edited
BY PackageFacts, JournalFacts DEF Typed, Stands

\* What happens to the packages under a journal leaves it whole.
LEMMA WholeKept ==
  ASSUME NEW j, Whole(j), amid \subseteq amid',
         \A n \in Skills : \/ disk'[n] = disk[n]
                           \/ disk'[n] = Edited /\ n \in amid'
                           \/ n \in j.names /\ disk'[n] # Edited
  PROVE  Whole(j)'
BY DEF Whole

\* What an installation does to one package.
LEMMA OneReplaced ==
  ASSUME Typed, NEW j, Whole(j), NEW n \in Skills, NEW p, p \in Things,
         disk' = [disk EXCEPT ![n] = p], n \in j.names, p # Edited \/ n \in amid,
         UNCHANGED amid
  PROVE  Whole(j)'
<1>1. \A m \in Skills : m # n => disk'[m] = disk[m]
  BY DEF Typed
<1>2. disk'[n] = p
  BY DEF Typed
<1>3. QED
  BY <1>1, <1>2, WholeKept

\* What a failure or a death leaves of the tree.
Halved ==
  \/ UNCHANGED <<disk, lock>>
  \/ pc \in {"swap", "restore"} /\ (\E n \in todo : disk' = [disk EXCEPT ![n] = Torn]) /\ UNCHANGED lock
  \/ pc \in {"lock", "unlock"} /\ lock' = Torn /\ UNCHANGED disk

LEMMA HalvedFacts ==
  ASSUME Typed, Stands, Journaled, Halved, UNCHANGED amid
  PROVE  /\ \A j : j = backup => Whole(j)'
         /\ \A n \in Skills : n \in backup.names \/ disk'[n] = disk[n]
         /\ \A n \in Skills : disk[n] = Edited /\ disk'[n] # Edited => n \in amid
<1> USE PackageFacts
<1>1. Whole(backup)
  BY UnderJournal
<1>2. CASE UNCHANGED disk
  BY <1>1, <1>2 DEF Whole
<1>3. CASE pc \in {"swap", "restore"} /\ \E n \in todo : disk' = [disk EXCEPT ![n] = Torn]
  <2>1. PICK n \in todo : disk' = [disk EXCEPT ![n] = Torn]
    BY <1>3
  <2>2. n \in backup.names /\ n \in Skills /\ Torn \in Things /\ Torn # Edited
    BY <1>3, SkillsAssumption DEF Stands, Typed, Things
  <2>3. \A m \in Skills : m # n => disk'[m] = disk[m]
    BY <2>1 DEF Typed
  <2>4. \A j : j = backup => Whole(j)'
    BY <1>1, <2>1, <2>2, OneReplaced
  <2>5. QED
    BY <1>1, <2>2, <2>3, <2>4 DEF Whole
<1>4. QED
  BY <1>2, <1>3 DEF Halved

\* A step from under a journal to under the same.
LEMMA StandsOn ==
  ASSUME Typed, Stands, Journaled, Journaled', UNCHANGED <<approved, journal, backup>>,
         \A j : j = backup => Whole(j)', Exchange' => Exchange,
         pc' \in {"swap", "restore"} => todo' \subseteq backup.names
  PROVE  Stands'
<1> USE PackageFacts, JournalFacts
<1>1. Whole(backup)'
  <2>1. PICK j : j = backup
    OBVIOUS
  <2>2. QED
    BY <2>1 DEF Whole
<1>2. journal'.review \in Reviews => Whole(journal)'
  <2>1. journal = backup \/ journal.review = Torn
    BY UnderJournal
  <2>2. CASE journal = backup
    BY <1>1, <2>2 DEF Whole
  <2>3. QED
    BY <2>1, <2>2
<1>3. QED
  BY <1>1, <1>2 DEF Stands, Journaled, Exchange, WayBack, Before

LEMMA StandsStep == Typed /\ Plain /\ Stands /\ [Next]_vars => Stands'
<1> SUFFICES ASSUME Typed, Plain, Stands, [Next]_vars PROVE Stands'
  OBVIOUS
<1> USE PackageFacts, JournalFacts DEF Before, Journaled, Exchange, WayBack
<1>w. journal.review \in Reviews => Whole(journal)
  BY DEF Stands
<1>s. ASSUME UNCHANGED <<disk, journal, amid>> PROVE journal'.review \in Reviews => Whole(journal)'
  BY <1>s, <1>w DEF Whole
<1>o. ASSUME pc' = "idle", Journaled, Halved, UNCHANGED <<approved, journal, amid>> PROVE Stands'
  <2>1. journal'.review \in Reviews => Whole(journal)'
    BY <1>o, UnderJournal, HalvedFacts
  <2>2. QED
    BY <1>o, <2>1 DEF Stands
<1>1. ASSUME NEW r \in Reviews, Approve(r) PROVE Stands'
  BY <1>1, <1>s DEF Stands, Approve, tree, run
<1>2. ASSUME NEW n \in Skills, Edit(n) PROVE Stands'
  <2>0. disk' = [disk EXCEPT ![n] = Edited] /\ UNCHANGED <<approved, lock, journal, run>>
    BY <1>2 DEF Edit
  <2>1. \A m \in Skills : disk'[m] = disk[m] \/ (m = n /\ disk'[m] = Edited)
    BY <2>0 DEF Typed
  <2>2. CASE pc = "idle" /\ journal = NoJournal
    BY <2>0, <2>2 DEF Stands, run
  <2>3. CASE ~(pc = "idle" /\ journal = NoJournal)
    <3>1. amid' = amid \cup {n}
      BY <1>2, <2>3 DEF Edit
    <3>2. \A j : Whole(j) => Whole(j)'
      BY <2>1, <3>1, WholeKept
    <3>3. /\ journal.review \in Reviews => Whole(journal)'
          /\ Whole(backup) => Whole(backup)'
      <4>1. PICK j, b : j = journal /\ b = backup
        OBVIOUS
      <4>2. (journal.review \in Reviews => Whole(j)') /\ (Whole(backup) => Whole(b)')
        BY <1>w, <3>2, <4>1
      <4>3. QED
        BY <2>0, <4>1, <4>2 DEF Whole, run
    <3>4. pc = "backup" => \A m \in Names(approved) : disk'[m] = Edited => m \in amid'
      BY <2>1, <3>1 DEF Stands, Names
    <3>5. Names(approved)' = Names(approved)
      BY <2>0 DEF Names, Locked
    <3>6. QED
      BY <2>0, <3>3, <3>4, <3>5 DEF Stands, run
  <2>4. QED
    BY <2>2, <2>3
<1>3. CASE Crash
  <2>0. pc' = "idle" /\ UNCHANGED approved
    BY <1>3 DEF Crash, Halt
  <2>1. CASE journal' = TornJournal
    BY <2>0, <2>1 DEF Stands
  <2>2. CASE Before /\ journal' = journal
    BY <2>0, <2>2 DEF Stands
  <2>3. CASE Journaled
    <3>1. UNCHANGED <<journal, amid>> /\ Halved
      BY <1>3, <2>3, UnderJournal DEF Crash, Ended, tree, Halved
    <3>2. QED
      BY <2>0, <2>3, <3>1, <1>o
  <2>4. QED
    BY <1>3, <2>1, <2>2, <2>3 DEF Crash, tree, Typed
<1>4. CASE Start
  <2>1. UNCHANGED <<approved, disk, lock, journal, amid>> /\ journal.review \in {NoReview, approved}
    BY <1>4 DEF Start, tree
  <2>2. CASE journal = NoJournal
    BY <1>4, <2>1, <2>2, <1>s DEF Stands, Start, Typed
  <2>3. CASE journal # NoJournal
    <3>1. /\ pc' = "restore" /\ backup' = journal /\ todo' = journal.names
          /\ journal.review = approved /\ approved \in Reviews
      BY <1>4, <2>1, <2>3 DEF Start, Stands, Typed
    <3>2. Whole(journal)'
      BY <1>s, <2>1, <3>1
    <3>3. Whole(backup)'
      BY <2>1, <3>1, <3>2 DEF Whole
    <3>4. QED
      BY <2>1, <3>1, <3>2, <3>3 DEF Stands
  <2>4. QED
    BY <2>2, <2>3
<1>5. CASE Check
  <2>1. journal = NoJournal /\ UNCHANGED <<approved, tree>>
    BY <1>5 DEF Check, Stands
  <2>2. \A n \in Names(approved) : Untouched(n) => disk[n] # Edited
    BY LockedIsOf DEF Untouched, Names
  <2>3. Names(approved)' = Names(approved)
    BY <2>1 DEF Names, Locked, tree
  <2>4. CASE \A n \in Names(approved) : Untouched(n)
    BY <1>5, <2>1, <2>2, <2>3, <2>4 DEF Check, Stands, tree
  <2>5. CASE ~\A n \in Names(approved) : Untouched(n)
    BY <1>5, <2>1, <2>5 DEF Check, Stands, Halt, tree
  <2>6. QED
    BY <2>4, <2>5
<1>6. CASE Backup
  <2>0. /\ journal = NoJournal /\ pc' = "journal" /\ UNCHANGED <<approved, tree, amid>>
        /\ \A n \in Names(approved) : disk[n] = Edited => n \in amid
    BY <1>6 DEF Backup, Stands
  <2>1. /\ backup'.review = approved /\ backup'.old = disk /\ backup'.names = Names(approved)
        /\ backup'.lock = lock
    BY <1>6 DEF Backup
  <2>2. Names(approved) = {n \in Skills : approved[n] # Absent \/ Of(lock, n) # Absent}
    BY LockedIsOf DEF Names
  <2>3. lock \in OrNone /\ \A n \in Skills : disk[n] \in {Of(lock, n), Edited}
    BY <2>0 DEF Plain
  <2>4. \A n \in Skills \ Names(approved) : disk[n] \in {Absent, Edited}
    BY <2>2, <2>3
  <2>5. \A n \in Names(approved) : disk[n] = Of(lock, n) \/ (disk[n] = Edited /\ n \in amid)
    BY <2>0, <2>2, <2>3
  <2>6. UNCHANGED <<disk, lock, journal>>
    BY <2>0 DEF tree
  <2>7. Whole(backup)'
    BY <2>0, <2>1, <2>2, <2>3, <2>4, <2>5, <2>6 DEF Whole
  <2>8. QED
    BY <2>0, <2>1, <2>6, <2>7 DEF Stands
<1>7. CASE Journal
  <2>1. Whole(backup) /\ backup.review = approved /\ journal' = backup /\ UNCHANGED <<approved, disk, amid>>
        /\ pc' = "swap" /\ todo' = backup.names
    BY <1>7 DEF Journal, Stands
  <2>2. Whole(journal)' /\ Whole(backup)' /\ backup' = backup
    BY <1>7, <2>1 DEF Whole, Journal
  <2>3. QED
    BY <2>1, <2>2 DEF Stands, Typed
<1>8. ASSUME NEW n \in Skills, Swap(n) \/ Restore(n) PROVE Stands'
  <2>0. /\ pc \in {"swap", "restore"} /\ n \in todo /\ todo' \subseteq todo
        /\ UNCHANGED <<approved, journal, pc, amid, lock, backup>>
    BY <1>8 DEF Swap, Restore
  <2>1. /\ n \in backup.names /\ Whole(backup) /\ approved[n] # Edited /\ approved[n] \in Things
    BY <2>0, UnderJournal DEF Stands, Typed
  <2>2. \A j : j = backup => Whole(j)'
    <3>1. CASE Swap(n)
      BY <2>0, <2>1, <3>1, OneReplaced DEF Swap
    <3>2. CASE Restore(n)
      <4>1. backup.old[n] \in Things /\ (backup.old[n] # Edited \/ n \in amid)
        BY <2>1 DEF Whole, Typed, JournalType
      <4>2. QED
        BY <2>0, <2>1, <3>2, <4>1, OneReplaced DEF Restore
    <3>3. QED
      BY <1>8, <3>1, <3>2
  <2>3. todo' \subseteq backup.names
    BY <2>0 DEF Stands
  <2>4. QED
    BY <2>0, <2>2, <2>3, StandsOn
<1>9. CASE WriteLock \/ RestoreDone \/ Locks \/ RestoreLock \/ Verify
  <2>1. /\ UNCHANGED <<approved, disk, journal, backup, amid>> /\ Journaled /\ Journaled'
        /\ Exchange' => Exchange
        /\ pc' \in {"swap", "restore"} => todo' = backup.names
    BY <1>9 DEF WriteLock, RestoreDone, Locks, RestoreLock, Verify, RollBack, tree
  <2>2. \A j : j = backup => Whole(j)'
    BY <2>1, UnderJournal DEF Whole
  <2>3. QED
    BY <2>1, <2>2, StandsOn
<1>10. CASE Fails
  <2>1. /\ Journaled /\ UNCHANGED <<approved, journal, backup, amid>> /\ Halved
        /\ pc' = "restore" /\ todo' = backup.names
    BY <1>10 DEF Fails, RollBack, Halved
  <2>2. QED
    BY <2>1, HalvedFacts, StandsOn
<1>11. CASE Unlink \/ Recovered
  BY <1>11 DEF Unlink, Recovered, Halt, Stands, Typed
<1>12. CASE RestoreFails
  <2>1. Halved /\ Journaled /\ pc' = "idle" /\ UNCHANGED <<approved, journal, amid>>
    BY <1>12 DEF RestoreFails, Halt, Halved
  <2>2. QED
    BY <2>1, <1>o
<1>13. CASE JournalFails
  <2>0. journal = NoJournal /\ UNCHANGED <<approved, disk, lock>>
    BY <1>13 DEF JournalFails, Stands
  <2>1. CASE Halt /\ UNCHANGED journal
    BY <2>0, <2>1 DEF Halt, Stands
  <2>2. CASE ~(Halt /\ UNCHANGED journal)
    <3>1. /\ pc = "journal" /\ journal' \in {backup, TornJournal} /\ UNCHANGED <<backup, amid>>
          /\ pc' = "restore" /\ todo' = backup.names
      BY <1>13, <2>2 DEF JournalFails, RollBack
    <3>2. backup.review = approved /\ Whole(backup) /\ approved \in Reviews
      BY <3>1 DEF Stands, Typed
    <3>3. Whole(backup)'
      BY <2>0, <3>1, <3>2 DEF Whole
    <3>4. journal'.review \in Reviews => Whole(journal)'
      BY <2>0, <3>1, <3>2 DEF Whole
    <3>5. QED
      BY <2>0, <3>1, <3>2, <3>3, <3>4 DEF Stands
  <2>3. QED
    BY <2>1, <2>2
<1>14. CASE UNCHANGED vars
  BY <1>14, <1>s DEF Stands, vars, tree, run, Names, Locked, Whole
<1>15. QED
  BY <1>1, <1>2, <1>3, <1>4, <1>5, <1>6, <1>7, <1>8, <1>9, <1>10, <1>11, <1>12, <1>13, <1>14
     DEF Next, Step

LEMMA ProgressStep == Typed /\ Stands /\ Progress /\ [Next]_vars => Progress'
<1> SUFFICES ASSUME Typed, Stands, Progress, [Next]_vars PROVE Progress'
  OBVIOUS
<1> USE DEF Before, Journaled, Exchange, WayBack
<1>1. ASSUME pc' \in {"idle", "check", "backup"} PROVE Progress'
  BY <1>1 DEF Progress
<1>b. backup.names \subseteq Skills
  BY DEF Typed, JournalType
<1>2. CASE Crash \/ RestoreFails \/ Unlink \/ Recovered \/ Check
  BY <1>1, <1>2 DEF Crash, RestoreFails, Unlink, Recovered, Check, Halt, Typed
<1>3. ASSUME NEW r \in Reviews, Approve(r) PROVE Progress'
  BY <1>1, <1>3 DEF Approve, run
<1>4. ASSUME NEW n \in Skills, Edit(n) PROVE Progress'
  <2>1. \A m \in Skills : disk'[m] = disk[m] \/ disk'[m] = Edited
    BY <1>4 DEF Edit, Typed
  <2>2. UNCHANGED <<approved, lock, journal, pc, todo, backup>>
    BY <1>4 DEF Edit, run
  <2>3. QED
    BY <1>b, <2>1, <2>2 DEF Progress, AsBefore
<1>5. CASE Start
  <2>1. CASE pc' = "check"
    BY <1>1, <2>1
  <2>2. CASE pc' = "restore" /\ todo' = journal.names /\ backup' = journal /\ journal' = journal
    <3>1. journal # TornJournal
      BY <1>5, JournalFacts, PackageFacts DEF Start, Typed
    <3>2. QED
      BY <2>2, <3>1 DEF Progress
  <2>3. QED
    BY <1>5, <2>1, <2>2 DEF Start, tree
<1>6. CASE Backup
  BY <1>6 DEF Backup, Progress, AsBefore, tree
<1>7. CASE Journal
  BY <1>7 DEF Journal, Progress
<1>8. ASSUME NEW n \in Skills, Swap(n) \/ Restore(n) PROVE Progress'
  <2>1. \A m \in Skills : m # n => disk'[m] = disk[m]
    BY <1>8 DEF Swap, Restore, Typed
  <2>2. todo' = todo \ {n} /\ UNCHANGED <<approved, lock, journal, pc, backup>>
    BY <1>8 DEF Swap, Restore
  <2>3. (pc = "swap" => disk'[n] = approved[n]) /\ (pc = "restore" => disk'[n] = backup.old[n])
    BY <1>8 DEF Swap, Restore, Typed
  <2>4. pc = "swap" \/ pc = "restore"
    BY <1>8 DEF Swap, Restore
  <2>5. CASE pc = "swap"
    BY <1>b, <2>1, <2>2, <2>3, <2>5 DEF Progress
  <2>6. CASE pc = "restore"
    BY <1>b, <2>1, <2>2, <2>3, <2>6 DEF Progress, AsBefore
  <2>7. QED
    BY <2>4, <2>5, <2>6
<1>9. CASE WriteLock \/ RestoreDone
  BY <1>9 DEF WriteLock, RestoreDone, Progress, AsBefore, tree
<1>10. CASE Locks \/ RestoreLock
  BY <1>10 DEF Locks, RestoreLock, Progress, AsBefore
<1>p. ASSUME Exchange, RollBack, UNCHANGED <<journal, backup>> PROVE Progress'
  <2>1. journal # TornJournal
    BY <1>p, JournalFacts, PackageFacts DEF Stands, Typed
  <2>2. QED
    BY <1>p, <2>1 DEF RollBack, Progress
<1>11. CASE Verify
  <2>1. CASE RollBack
    BY <1>11, <1>p, <2>1 DEF Verify, tree
  <2>2. CASE pc' = "unlink" /\ todo' = todo
    BY <1>11, <2>2 DEF Verify, Progress, tree
  <2>3. QED
    BY <1>11, <2>1, <2>2 DEF Verify
<1>12. CASE Fails
  BY <1>12, <1>p DEF Fails
<1>13. CASE JournalFails
  <2>1. CASE Halt
    BY <1>1, <2>1 DEF Halt
  <2>2. CASE pc = "journal" /\ RollBack /\ UNCHANGED <<backup, disk, lock>>
    BY <2>2 DEF RollBack, Progress, AsBefore, Stands
  <2>3. QED
    BY <1>13, <2>1, <2>2 DEF JournalFails
<1>14. CASE UNCHANGED vars
  BY <1>14 DEF Progress, AsBefore, vars, tree, run
<1>15. QED
  BY <1>2, <1>3, <1>4, <1>5, <1>6, <1>7, <1>8, <1>9, <1>10, <1>11, <1>12, <1>13, <1>14
     DEF Next, Step

LEMMA PlainStep == Typed /\ Plain /\ Stands /\ Progress /\ [Next]_vars => Plain'
<1> SUFFICES ASSUME Typed, Plain, Stands, Progress, [Next]_vars, journal' = NoJournal
             PROVE  lock' \in OrNone /\ \A n \in Skills : disk'[n] \in {Of(lock', n), Edited}
  BY DEF Plain, Of
<1> USE PackageFacts, JournalFacts DEF Before, Journaled, Exchange, WayBack
<1>u. Journaled => /\ backup.review = approved /\ journal # NoJournal /\ Whole(backup)
                   /\ approved \in Reviews
  BY UnderJournal
<1>1. CASE Unlink
  <2>1. /\ lock' = approved /\ disk' = disk /\ Journaled
        /\ \A n \in backup.names : disk[n] \in {approved[n], Edited}
    BY <1>1 DEF Unlink, Progress
  <2>2. \A n \in Skills \ backup.names : disk[n] \in {Absent, Edited} /\ approved[n] = Absent
    BY <1>u, <2>1 DEF Whole
  <2>3. \A n \in Skills : Of(approved, n) = approved[n]
    BY DEF Of, Typed
  <2>4. QED
    BY <1>u, <2>1, <2>2, <2>3 DEF OrNone
<1>2. CASE Recovered
  <2>1. /\ lock' = backup.lock /\ disk' = disk /\ Journaled
        /\ \A n \in backup.names : disk[n] \in {backup.old[n], Edited}
    BY <1>2 DEF Recovered, Progress
  <2>2. \A n \in Skills \ backup.names : disk[n] \in {Absent, Edited} /\ Of(backup.lock, n) = Absent
    BY <1>u, <2>1 DEF Whole
  <2>3. backup.lock \in OrNone /\ \A n \in backup.names : backup.old[n] \in {Of(backup.lock, n), Edited}
    BY <1>u, <2>1 DEF Whole
  <2>4. QED
    BY <2>1, <2>2, <2>3
<1>3. CASE UNCHANGED <<disk, lock, journal>>
  BY <1>3 DEF Plain
<1>4. ASSUME NEW n \in Skills, Edit(n)
      PROVE  lock' \in OrNone /\ \A m \in Skills : disk'[m] \in {Of(lock', m), Edited}
  <2>1. /\ UNCHANGED <<lock, journal>>
        /\ \A m \in Skills : disk'[m] = disk[m] \/ disk'[m] = Edited
    BY <1>4 DEF Edit, Typed
  <2>2. QED
    BY <2>1 DEF Plain
<1>5. ASSUME NEW n \in Skills, Swap(n) \/ Restore(n) PROVE FALSE
  BY <1>u, <1>5 DEF Swap, Restore
<1>6. CASE Locks \/ RestoreLock \/ Fails
  BY <1>u, <1>6 DEF Locks, RestoreLock, Fails
<1>7. CASE Journal \/ JournalFails
  BY <1>3, <1>7 DEF Journal, JournalFails, Stands, Typed
<1>8. CASE Crash \/ RestoreFails
  BY <1>3, <1>8, <1>u DEF Crash, RestoreFails, tree
<1>9. CASE \/ Start \/ Check \/ Backup \/ WriteLock \/ Verify \/ RestoreDone
           \/ UNCHANGED vars \/ \E r \in Reviews : Approve(r)
  BY <1>3, <1>9 DEF Start, Check, Backup, WriteLock, Verify, RestoreDone, vars,
     Approve, tree
<1>10. QED
  BY <1>1, <1>2, <1>4, <1>5, <1>6, <1>7, <1>8, <1>9 DEF Next, Step

LEMMA Initially == Init => IInv
<1> SUFFICES ASSUME Init PROVE IInv
  OBVIOUS
<1> USE PackageFacts, JournalFacts DEF Init, Before, Journaled, Exchange, WayBack
<1>1. Typed
  BY DEF Typed, Things, OrTorn
<1>2. Plain
  BY DEF Plain, OrNone, Of
<1>3. Stands /\ Progress
  BY DEF Stands, Progress
<1>4. QED
  BY <1>1, <1>2, <1>3 DEF IInv

LEMMA Inductive == Spec => []IInv
<1>1. IInv /\ [Next]_vars => IInv'
  BY TypedStep, PlainStep, StandsStep, ProgressStep DEF IInv
<1>2. QED
  BY <1>1, Initially, PTL DEF Spec

-----------------------------------------------------------------------------
(* The theorems *)

\* Neither an exchange, a rollback nor a recovery takes away a package that
\* was modified by hand before the installation began (preflight, rollback).
THEOREM EditsKeptAlways == Spec => EditsKept
<1>1. ASSUME IInv, [Next]_vars, NEW n \in Skills, disk[n] = Edited, disk'[n] # Edited
      PROVE  n \in amid
  <2>0. Typed /\ Stands
    BY <1>1 DEF IInv
  <2>1. ASSUME NEW m \in Skills, Swap(m) \/ Restore(m) PROVE n \in amid
    <3>1. \A q \in Skills : q # m => disk'[q] = disk[q]
      BY <2>0, <2>1 DEF Swap, Restore, Typed
    <3>2. m = n /\ n \in backup.names /\ Journaled
      BY <1>1, <2>0, <2>1, <3>1 DEF Swap, Restore, Stands, Journaled, Exchange, WayBack
    <3>3. QED
      BY <1>1, <2>0, <3>2, UnderJournal DEF Whole
  <2>2. CASE Crash \/ Fails \/ RestoreFails
    <3>1. disk' # disk
      BY <1>1
    <3>2. Journaled /\ Halved /\ (UNCHANGED journal /\ (UNCHANGED amid \/ Ended))
      BY <2>2, <3>1 DEF Crash, Fails, RestoreFails, tree, Halved, Journaled, Exchange, WayBack
    <3>3. UNCHANGED amid
      BY <2>0, <3>2, UnderJournal DEF Ended
    <3>4. QED
      BY <1>1, <2>0, <3>2, <3>3, HalvedFacts
  <2>4. ASSUME NEW m \in Skills, Edit(m) PROVE FALSE
    BY <1>1, <2>0, <2>4 DEF Edit, Typed
  <2>5. CASE UNCHANGED disk
    BY <1>1, <2>5
  <2>6. CASE \/ Start \/ Check \/ Backup \/ Journal \/ WriteLock \/ Locks \/ Verify \/ Unlink
             \/ RestoreDone \/ RestoreLock \/ Recovered \/ JournalFails \/ UNCHANGED vars
             \/ \E r \in Reviews : Approve(r)
    BY <2>5, <2>6 DEF Start, Check, Backup, Journal, WriteLock, Locks, Verify, Unlink,
       RestoreDone, RestoreLock, Recovered, JournalFails, vars, Approve, tree
  <2>7. QED
    BY <1>1, <2>1, <2>2, <2>4, <2>6 DEF Next, Step
<1>2. IInv /\ [Next]_vars =>
        [\A n \in Skills : disk[n] = Edited /\ disk'[n] # Edited => n \in amid]_vars
  BY <1>1
<1>3. QED
  BY <1>2, Inductive, PTL DEF Spec, EditsKept

-----------------------------------------------------------------------------
(* The refinement *)

Stutter == UNCHANGED <<Kept, KeptLock, amid, Guarded>>

\* What is relied on, by where the run is.
LEMMA Reliance ==
  ASSUME Typed, Stands
  PROVE  /\ Journaled => Relied = backup /\ Relied.review \in Reviews
         /\ ~Journaled => Relied = journal /\ Guarded
BY PackageFacts, JournalFacts, UnderJournal
   DEF Relied, Guarded, Typed, Stands, Journaled, Exchange, WayBack, Before

Under(j) ==
  /\ KeptLock = j.lock
  /\ \A n \in Skills : Kept[n] = IF n \in j.names THEN j.old[n] ELSE disk[n]

KeptFacts ==
  /\ Journaled => Under(backup)
  /\ ~Journaled /\ journal.review \in Reviews => Under(journal)
  /\ ~Journaled /\ journal.review \notin Reviews =>
       KeptLock = lock /\ \A n \in Skills : Kept[n] = disk[n]
  /\ ~Journaled => Guarded

LEMMA KeptIs == IInv => KeptFacts
<1>1. SUFFICES ASSUME Typed, Stands PROVE KeptFacts
  BY DEF IInv
<1>2. QED
  BY <1>1, Reliance DEF KeptFacts, Under, Kept, KeptLock

LEMMA SameKept ==
  ASSUME \A n \in Skills : Kept'[n] = Kept[n]
  PROVE  Kept' = Kept
BY DEF Kept

LEMMA KeptShown ==
  ASSUME NEW S, NEW L,
         \A n \in Skills : Kept'[n] = IF n \in S THEN Edited
                                      ELSE IF n \in L THEN Atomic!Locked(n) ELSE Kept[n]
  PROVE  Kept' = Atomic!Shown(S, L)
BY DEF Kept, Atomic!Shown

\* While the backups are relied on what is done to the packages is not seen.
LEMMA NothingKept ==
  ASSUME IInv, IInv', Journaled, Journaled', UNCHANGED <<journal, backup, amid>>,
         \A n \in Skills : n \in backup.names \/ disk'[n] = disk[n]
  PROVE  Stutter
<1>1. KeptFacts /\ KeptFacts'
  BY KeptIs, PTL
<1>2. Kept' = Kept /\ KeptLock' = KeptLock
  BY <1>1, SameKept DEF KeptFacts, Under
<1>3. Guarded' = Guarded
  BY DEF Guarded, Journaled, Exchange, WayBack
<1>4. QED
  BY <1>2, <1>3 DEF Stutter

\* Away from a journal, what leaves the tree alone is not seen.
LEMMA SameTree ==
  ASSUME IInv, IInv', ~Journaled, ~Journaled', UNCHANGED <<disk, lock, journal>>
  PROVE  UNCHANGED <<Kept, KeptLock, Guarded>>
<1>1. KeptFacts /\ KeptFacts'
  BY KeptIs, PTL
<1>2. Kept' = Kept /\ KeptLock' = KeptLock
  BY <1>1, SameKept DEF KeptFacts, Under
<1>3. QED
  BY <1>1, <1>2 DEF KeptFacts, Guarded

\* An installation that is over without a journal forgets what was amid.
LEMMA OverSettles == ASSUME UNCHANGED <<Kept, KeptLock>>, amid' \in {amid, {}} PROVE Atomic!Settle
<1>1. Kept' = Atomic!Shown({}, {})
  BY KeptShown
<1>2. Guarded' \in BOOLEAN
  BY DEF Guarded
<1>3. QED
  BY <1>1, <1>2 DEF Atomic!Settle

\* Backups that are relied on put back what an edit amid had changed.
LEMMA JournalSettles ==
  ASSUME IInv, IInv', pc = "journal", Journaled', UNCHANGED <<approved, disk, lock, backup, amid>>
  PROVE  Atomic!Settle
<1> USE PackageFacts, JournalFacts
<1>1. /\ journal = NoJournal /\ Whole(backup) /\ backup.lock = lock /\ ~Journaled
      /\ lock \in OrNone /\ \A n \in Skills : disk[n] \in {Of(lock, n), Edited}
  BY DEF IInv, Stands, Before, Plain, Journaled, Exchange, WayBack
<1>2. KeptFacts /\ KeptFacts'
  BY KeptIs, PTL
<1>3. /\ KeptLock = lock /\ KeptLock' = lock
      /\ \A n \in Skills : Kept[n] = disk[n]
      /\ \A n \in Skills : Kept'[n] = IF n \in backup.names THEN backup.old[n] ELSE disk[n]
  BY <1>1, <1>2 DEF KeptFacts, Under
<1>4. \A n \in Skills : Atomic!Locked(n) = Of(lock, n)
  BY <1>3 DEF Atomic!Locked, Of
<1>5. PICK S : S = {n \in Skills : n \in backup.names /\ backup.old[n] # disk[n] /\ backup.old[n] = Edited}
  OBVIOUS
<1>6. PICK L : L = {n \in Skills : n \in backup.names /\ backup.old[n] # disk[n] /\ backup.old[n] # Edited}
  OBVIOUS
<1>7. S \subseteq amid /\ L \subseteq amid
  BY <1>1, <1>5, <1>6 DEF Whole
<1>8. \A n \in Skills : Kept'[n] = IF n \in S THEN Edited
                                   ELSE IF n \in L THEN Atomic!Locked(n) ELSE Kept[n]
  BY <1>1, <1>3, <1>4, <1>5, <1>6 DEF Whole
<1>9. Kept' = Atomic!Shown(S, L) /\ Guarded' \in BOOLEAN
  BY <1>8, KeptShown DEF Guarded
<1>10. QED
  BY <1>3, <1>7, <1>9 DEF Atomic!Settle

\* The removal of the journal is the whole installation.
LEMMA UnlinkInstalls == IInv /\ IInv' /\ Unlink => Atomic!Install(approved)
<1> SUFFICES ASSUME IInv, IInv', Unlink PROVE Atomic!Install(approved)
  OBVIOUS
<1> USE PackageFacts, JournalFacts
<1>1. /\ Whole(backup) /\ backup.review = approved /\ approved \in Reviews /\ lock = approved
      /\ journal = backup /\ journal' = NoJournal /\ amid' = {} /\ UNCHANGED <<approved, disk, lock>>
      /\ \A n \in backup.names : disk[n] \in {approved[n], Edited}
      /\ Journaled /\ ~Journaled'
  <2>1. pc = "unlink" /\ Journaled /\ Exchange /\ ~Journaled'
    BY DEF Unlink, Halt, Journaled, Exchange, WayBack
  <2>2. QED
    BY <2>1, UnderJournal DEF IInv, Progress, Stands, Unlink, Ended
<1>2. KeptFacts /\ KeptFacts'
  BY KeptIs, PTL
<1>3. /\ KeptLock = backup.lock /\ KeptLock' = approved
      /\ \A n \in Skills : Kept[n] = (IF n \in backup.names THEN backup.old[n] ELSE disk[n])
      /\ \A n \in Skills : Kept'[n] = disk[n]
  BY <1>1, <1>2 DEF KeptFacts, Under
<1>4. \A n \in Skills : Atomic!Locked(n) = Of(backup.lock, n)
  BY <1>3 DEF Atomic!Locked, Of
<1>5. PICK names : names = {n \in Skills : approved[n] # Absent \/ Atomic!Locked(n) # Absent}
  OBVIOUS
<1>6. names = backup.names
  BY <1>1, <1>4, <1>5 DEF Whole
<1>7. PICK S : S = {n \in Skills : n \in names /\ disk[n] = Edited}
  OBVIOUS
<1>8. S \subseteq amid
  BY <1>1, <1>6, <1>7 DEF Whole
<1>9. \A n \in names : Kept[n] = Atomic!Locked(n) \/ n \in amid
  BY <1>1, <1>3, <1>4, <1>5, <1>6 DEF Whole
<1>10. \A n \in Skills : Kept'[n] = IF n \in S THEN Edited
                                    ELSE IF n \in names THEN approved[n] ELSE Kept[n]
  BY <1>1, <1>3, <1>6, <1>7
<1>11. Kept' = [n \in Skills |-> IF n \in S THEN Edited
                                ELSE IF n \in names THEN approved[n] ELSE Kept[n]]
  BY <1>10 DEF Kept
<1>12. Guarded = TRUE /\ Guarded' = Guarded
  BY <1>1, <1>2 DEF Guarded, KeptFacts
<1>13. QED
  BY <1>1, <1>3, <1>5, <1>8, <1>9, <1>11, <1>12 DEF Atomic!Install

\* After a restoration only what was edited amid differs from the backups.
LEMMA RecoveredSettles == IInv /\ IInv' /\ Recovered => Atomic!Settle
<1> SUFFICES ASSUME IInv, IInv', Recovered PROVE Atomic!Settle
  OBVIOUS
<1> USE PackageFacts, JournalFacts
<1>1. /\ Whole(backup) /\ lock = backup.lock /\ Journaled /\ ~Journaled'
      /\ journal' = NoJournal /\ amid' \in {amid, {}} /\ UNCHANGED <<disk, lock>>
      /\ \A n \in backup.names : disk[n] \in {backup.old[n], Edited}
  <2>1. pc = "recovered" /\ Journaled /\ WayBack
    BY DEF Recovered, Journaled, WayBack
  <2>2. ~Journaled'
    BY DEF Recovered, Halt, Journaled, Exchange, WayBack, IInv, Typed
  <2>3. QED
    BY <2>1, <2>2, UnderJournal DEF IInv, Progress, Recovered, Ended
<1>2. KeptFacts /\ KeptFacts'
  BY KeptIs, PTL
<1>3. /\ KeptLock = lock /\ KeptLock' = lock
      /\ \A n \in Skills : Kept[n] = (IF n \in backup.names THEN backup.old[n] ELSE disk[n])
      /\ \A n \in Skills : Kept'[n] = disk[n]
  BY <1>1, <1>2 DEF KeptFacts, Under
<1>4. PICK S : S = {n \in Skills : n \in backup.names /\ disk[n] = Edited}
  OBVIOUS
<1>5. S \subseteq amid
  BY <1>1, <1>4 DEF Whole
<1>6. \A n \in Skills : Kept'[n] = IF n \in S THEN Edited
                                   ELSE IF n \in {} THEN Atomic!Locked(n) ELSE Kept[n]
  BY <1>1, <1>3, <1>4
<1>7. Kept' = Atomic!Shown(S, {}) /\ Guarded' \in BOOLEAN
  BY <1>6, KeptShown DEF Guarded
<1>8. QED
  BY <1>1, <1>3, <1>5, <1>7 DEF Atomic!Settle

\* A run that ends under its journal is not seen, and one that ends under a
\* journal it could not write may leave one package or the lock torn.
LEMMA EndSettles ==
  ASSUME IInv, IInv', Journaled, pc' = "idle", Halved, UNCHANGED <<journal, amid>>
  PROVE  Atomic!Settle \/ Atomic!Damage
<1> USE PackageFacts, JournalFacts
<1>0. Typed /\ Stands /\ ~Journaled'
  BY DEF IInv, Journaled, Exchange, WayBack
<1>1. Whole(backup) /\ backup.review \in Reviews /\ (journal = backup \/ journal = TornJournal)
  BY <1>0, UnderJournal
<1>2. \A n \in Skills : n \in backup.names \/ disk'[n] = disk[n]
  BY <1>0, HalvedFacts
<1>3. KeptFacts /\ KeptFacts'
  BY KeptIs, PTL
<1>4. CASE journal = backup
  <2>1. Kept' = Kept /\ KeptLock' = KeptLock
    BY <1>0, <1>1, <1>2, <1>3, <1>4, SameKept DEF KeptFacts, Under
  <2>2. QED
    BY <2>1, OverSettles
<1>5. CASE journal = TornJournal
  <2>1. WayBack /\ lock = backup.lock /\ AsBefore
    BY <1>0, <1>1, <1>5 DEF IInv, Progress, Stands, Journaled
  <2>2. /\ KeptLock = lock /\ KeptLock' = lock'
        /\ \A n \in Skills : Kept[n] = (IF n \in backup.names THEN backup.old[n] ELSE disk[n])
        /\ \A n \in Skills : Kept'[n] = disk'[n]
    BY <1>0, <1>3, <1>5, <2>1 DEF KeptFacts, Under
  <2>3. Guarded = FALSE /\ Guarded' = TRUE
    BY <1>5, <2>1 DEF Guarded, WayBack
  <2>4. PICK S : S = {n \in Skills : n \in backup.names /\ disk[n] = Edited}
    OBVIOUS
  <2>5. S \subseteq amid
    BY <1>1, <2>4 DEF Whole
  <2>6. \A n \in Skills : disk[n] = IF n \in S THEN Edited
                                    ELSE IF n \in {} THEN Atomic!Locked(n) ELSE Kept[n]
    BY <2>1, <2>2, <2>4 DEF AsBefore
  <2>7. CASE UNCHANGED disk
    <3>1. Kept' = Atomic!Shown(S, {})
      BY <2>2, <2>6, <2>7, KeptShown
    <3>2. lock' = lock \/ lock' = Torn
      BY DEF Halved
    <3>3. QED
      BY <2>2, <2>3, <2>5, <3>1, <3>2 DEF Atomic!Settle, Atomic!Damage
  <2>8. CASE (\E n \in todo : disk' = [disk EXCEPT ![n] = Torn]) /\ UNCHANGED lock
    <3>1. PICK n \in Skills : disk' = [disk EXCEPT ![n] = Torn]
      BY <1>0, <2>8 DEF Typed
    <3>2. \A m \in Skills : Kept'[m] = IF m = n THEN Torn ELSE disk[m]
      BY <1>0, <2>2, <3>1 DEF Typed
    <3>3. \A m \in Skills : Atomic!Shown(S, {})[m] = disk[m]
      BY <2>6 DEF Atomic!Shown
    <3>4. Kept' = [Atomic!Shown(S, {}) EXCEPT ![n] = Torn]
      BY <3>2, <3>3 DEF Kept, Atomic!Shown
    <3>5. QED
      BY <2>2, <2>3, <2>5, <2>8, <3>4 DEF Atomic!Damage
  <2>9. QED
    BY <2>7, <2>8 DEF Halved
<1>6. QED
  BY <1>1, <1>4, <1>5

LEMMA EditEdits == ASSUME IInv, IInv', NEW n \in Skills, Edit(n) PROVE Atomic!Edit(n)
<1>1. /\ disk' = [disk EXCEPT ![n] = Edited] /\ amid' \in {amid, amid \cup {n}}
      /\ UNCHANGED <<lock, journal, backup, pc>>
  BY DEF Edit, run
<1>2. disk'[n] = Edited /\ \A m \in Skills : m # n => disk'[m] = disk[m]
  BY <1>1 DEF IInv, Typed
<1>3. KeptFacts /\ KeptFacts'
  BY KeptIs, PTL
<1>4. /\ KeptLock' = KeptLock /\ \A m \in Skills : m # n => Kept'[m] = Kept[m]
      /\ Kept'[n] = Kept[n] \/ Kept'[n] = Edited
  BY <1>1, <1>2, <1>3 DEF KeptFacts, Under, Journaled, Exchange, WayBack
<1>5. Kept' \in {Kept, [Kept EXCEPT ![n] = Edited]}
  BY <1>4 DEF Kept
<1>6. Guarded' = Guarded
  BY <1>1 DEF Guarded
<1>7. QED
  BY <1>1, <1>4, <1>5, <1>6 DEF Atomic!Edit

LEMMA StepImplements == IInv /\ IInv' /\ [Next]_vars => [Atomic!Next]_<<Kept, KeptLock, amid, Guarded>>
<1> SUFFICES ASSUME IInv, IInv', [Next]_vars PROVE Atomic!Next \/ Stutter
  BY DEF Stutter
<1> USE DEF Journaled, Exchange, WayBack
<1>0. Typed /\ Stands /\ approved \in Reviews
  BY DEF IInv, Typed
<1>1. ASSUME NEW n \in Skills, Edit(n) PROVE Atomic!Next
  BY <1>1, EditEdits DEF Atomic!Next
<1>2. CASE Journal
  BY <1>2, JournalSettles DEF Atomic!Next, Journal
<1>3. CASE Unlink
  BY <1>0, <1>3, UnlinkInstalls DEF Atomic!Next
<1>4. CASE Recovered
  BY <1>4, RecoveredSettles DEF Atomic!Next
<1>5. CASE RestoreFails
  BY <1>5, EndSettles DEF Atomic!Next, RestoreFails, Halt, Halved
<1>6. CASE Crash
  <2>1. CASE Journaled
    <3>1. UNCHANGED <<journal, amid>> /\ Halved /\ pc' = "idle"
      BY <1>0, <1>6, <2>1, UnderJournal DEF Crash, Halt, Ended, tree, Halved
    <3>2. QED
      BY <2>1, <3>1, EndSettles DEF Atomic!Next
  <2>2. CASE Before
    <3>1. /\ ~Journaled /\ ~Journaled' /\ journal = NoJournal /\ UNCHANGED <<disk, lock>>
          /\ journal' \in {NoJournal, TornJournal} /\ amid' \in {amid, {}}
      BY <1>0, <1>6, <2>2 DEF Crash, Halt, Ended, tree, Before, Stands
    <3>2. KeptFacts /\ KeptFacts'
      BY KeptIs, PTL
    <3>3. Kept' = Kept /\ KeptLock' = KeptLock
      BY <3>1, <3>2, SameKept, PackageFacts, JournalFacts DEF KeptFacts
    <3>4. QED
      BY <3>1, <3>3, OverSettles DEF Atomic!Next
  <2>3. QED
    BY <1>0, <1>6, <2>1, <2>2 DEF Typed, Crash
<1>7. CASE JournalFails
  <2>1. CASE Halt /\ UNCHANGED journal /\ Ended
    <3>1. ~Journaled /\ ~Journaled' /\ UNCHANGED <<disk, lock, journal>> /\ amid' \in {amid, {}}
      BY <1>7, <2>1 DEF JournalFails, Halt, Ended
    <3>2. QED
      BY <3>1, SameTree, OverSettles DEF Atomic!Next
  <2>2. CASE pc = "journal" /\ RollBack /\ UNCHANGED <<backup, amid>>
    BY <1>7, <2>2, JournalSettles DEF Atomic!Next, JournalFails, RollBack
  <2>3. QED
    BY <1>7, <2>1, <2>2 DEF JournalFails
<1>8. CASE Check
  <2>1. ~Journaled /\ ~Journaled' /\ UNCHANGED <<disk, lock, journal>> /\ amid' \in {amid, {}}
    BY <1>8 DEF Check, Halt, tree
  <2>2. QED
    BY <2>1, SameTree, OverSettles DEF Atomic!Next
<1>9. ASSUME NEW n \in Skills, Swap(n) \/ Restore(n) PROVE Stutter
  <2>1. /\ Journaled /\ Journaled' /\ UNCHANGED <<journal, backup, amid>> /\ n \in todo
        /\ pc \in {"swap", "restore"} /\ \A m \in Skills : m # n => disk'[m] = disk[m]
    BY <1>0, <1>9 DEF Swap, Restore, Typed
  <2>2. n \in backup.names
    BY <1>0, <2>1 DEF Stands
  <2>3. QED
    BY <2>1, <2>2, NothingKept
<1>10. CASE Fails
  <2>1. Journaled /\ Journaled' /\ Halved /\ UNCHANGED <<journal, backup, amid>>
    BY <1>10 DEF Fails, RollBack, Halved
  <2>2. QED
    BY <1>0, <2>1, HalvedFacts, NothingKept
<1>11. CASE Locks \/ RestoreLock \/ WriteLock \/ Verify \/ RestoreDone
  <2>1. Journaled /\ Journaled' /\ UNCHANGED <<journal, backup, amid, disk>>
    BY <1>11 DEF Locks, RestoreLock, WriteLock, Verify, RestoreDone, RollBack, tree
  <2>2. QED
    BY <2>1, NothingKept
<1>12. CASE Backup \/ \E r \in Reviews : Approve(r)
  <2>1. ~Journaled /\ ~Journaled' /\ UNCHANGED <<disk, lock, journal, amid>>
    BY <1>12 DEF Backup, Approve, tree, run
  <2>2. QED
    BY <2>1, SameTree DEF Stutter
<1>13. CASE Start
  <2>1. UNCHANGED <<disk, lock, journal, amid>> /\ ~Journaled
    BY <1>13 DEF Start, tree
  <2>2. CASE ~Journaled'
    BY <2>1, <2>2, SameTree DEF Stutter
  <2>3. CASE backup' = journal /\ Journaled' /\ journal.review = approved
    <3>1. KeptFacts /\ KeptFacts'
      BY KeptIs, PTL
    <3>2. Kept' = Kept /\ KeptLock' = KeptLock
      BY <1>0, <2>1, <2>3, <3>1, SameKept DEF KeptFacts, Under
    <3>3. Guarded' = Guarded
      BY <1>0, <2>1, <2>3, PackageFacts DEF Guarded
    <3>4. QED
      BY <2>1, <3>2, <3>3 DEF Stutter
  <2>4. QED
    BY <1>0, <1>13, <2>2, <2>3 DEF Start, Stands
<1>14. CASE UNCHANGED vars
  BY <1>14 DEF Stutter, Kept, KeptLock, Guarded, Relied, vars, tree, run
<1>15. QED
  BY <1>1, <1>2, <1>3, <1>4, <1>5, <1>6, <1>7, <1>8, <1>9, <1>10, <1>11, <1>12, <1>13, <1>14
     DEF Next, Step

\* To a reader who trusts the backups an installation happens at once, or not
\* at all, whatever fails and whenever it crashes; one package or the lock is
\* torn only where the journal failed to be written and the rollback of that
\* failed or died in turn (installSkills, recoverInstall).
THEOREM AtomicInstallImplemented == Spec => ImplementsAtomicInstall
<1>1. Init => Atomic!Init
  BY PackageFacts, JournalFacts DEF Init, Atomic!Init, Kept, KeptLock, Relied, Guarded
<1>2. QED
  BY <1>1, StepImplements, Inductive, PTL
     DEF Spec, ImplementsAtomicInstall, Atomic!Spec, Atomic!vars
=============================================================================
