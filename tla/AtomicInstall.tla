--------------------------- MODULE AtomicInstall ---------------------------
(***************************************************************************)
(* What a skill installation promises (skills/install.ts): the installed   *)
(* packages and their lock change together, to those of an approved        *)
(* review, and never over a local modification made before it began.  One  *)
(* made while it is under way may survive or be lost.  Where not even a    *)
(* journal can be written, a package or the lock may be torn.              *)
(***************************************************************************)
CONSTANTS Skills, Reviews, Absent, Edited, Torn, NoReview

VARIABLES
  kept,    \* [skill -> the package an agent may rely on, Absent or Edited]
  lock,    \* the review they are of
  amid,    \* the skills modified while an installation is under way
  guarded  \* nothing is being put back without a journal

vars == <<kept, lock, amid, guarded>>

Init ==
  /\ kept = [n \in Skills |-> Absent] /\ lock = NoReview /\ amid = {}
  /\ guarded = TRUE

Locked(n) == IF lock \in Reviews THEN lock[n] ELSE Absent

\* A package neither in the review nor in the lock is somebody else's.
Install(r) ==
  LET names == {n \in Skills : r[n] # Absent \/ Locked(n) # Absent}
  IN /\ guarded = TRUE /\ UNCHANGED guarded
     /\ \A n \in names : kept[n] = Locked(n) \/ n \in amid
     /\ lock' = r
     /\ \E S \in SUBSET amid :
          kept' = [n \in Skills |-> IF n \in S THEN Edited
                                   ELSE IF n \in names THEN r[n] ELSE kept[n]]
     /\ amid' = {}

\* A modification may also be one that is not relied on.
Edit(n) ==
  /\ kept' \in {kept, [kept EXCEPT ![n] = Edited]}
  /\ amid' \in {amid, amid \cup {n}} /\ UNCHANGED <<lock, guarded>>

Shown(S, L) ==
  [n \in Skills |-> IF n \in S THEN Edited ELSE IF n \in L THEN Locked(n) ELSE kept[n]]

\* What was modified amid shows or is lost, and the installation may be over.
Settle ==
  /\ \E S \in SUBSET amid, L \in SUBSET amid : kept' = Shown(S, L)
  /\ amid' \in {amid, {}} /\ guarded' \in BOOLEAN /\ UNCHANGED lock

\* What is put back without a journal may be cut off: one package, or the lock.
Damage ==
  /\ guarded = FALSE /\ guarded' = TRUE
  /\ \E S \in SUBSET amid :
       \/ (\E n \in Skills : kept' = [Shown(S, {}) EXCEPT ![n] = Torn]) /\ UNCHANGED lock
       \/ kept' = Shown(S, {}) /\ lock' = Torn
  /\ UNCHANGED amid

Next ==
  \/ \E r \in Reviews : Install(r)
  \/ \E n \in Skills : Edit(n)
  \/ Settle \/ Damage

Spec == Init /\ [][Next]_vars
=============================================================================
