------------------------ MODULE ReconcileWatcher_proofs ------------------------
(***************************************************************************)
(* Theorems about the reconcile watcher, for any commits, repositories,    *)
(* triggers, kind and bounds: types, that a commit is applied once unless  *)
(* asked for again, that what counts as applied succeeded, and that a      *)
(* block holds.                                                            *)
(***************************************************************************)
EXTENDS ReconcileWatcher, TLAPS

-----------------------------------------------------------------------------
(* Where a tick stands. *)

Running == pc \in {"checkout", "check", "apply", "record", "wait"}

\* The phase the saved ledger names while a tick runs.
PhaseAt(label) ==
  CASE label = "checkout" -> "poll"
    [] label = "check" -> "check"
    [] label \in {"apply", "record"} -> "apply"
    [] label = "wait" -> "argocd"

\* The tick works on what is saved, but for the time from its start to its
\* first save; while it runs, the ledger names its commit and its phase.
InStep ==
  /\ ledger = IF pc = "poll" THEN Loaded ELSE saved
  /\ Running => /\ saved.repo = repo /\ saved.desired \in Commits
                /\ saved.run = [sha |-> saved.desired, phase |-> PhaseAt(pc)]

-----------------------------------------------------------------------------
(* Types *)

LEMMA LedgerTypes ==
  ASSUME NEW l \in Ledgers, NEW c \in Commits, NEW r \in Repos
  PROVE  /\ EmptyLedger(r) \in Ledgers
         /\ Recover(l) \in Ledgers
         /\ Polled(l, c) \in Ledgers
         /\ Again(l.blocked, l.desired) \in Gates
         /\ Again(l.pending, l.desired) \in Gates
         /\ NoGate \in Gates
<1>1. NoGate \in Gates
  BY DEF NoGate, Gates, Shas
<1>2. \A g \in Gates, s \in Shas : Again(g, s) \in Gates
  BY DEF Again, Gates
<1>3. /\ l.blocked \in Gates /\ l.pending \in Gates
      /\ l.desired \in Shas /\ l.run.sha \in Shas
  BY DEF Ledgers
<1>4. EmptyLedger(r) \in Ledgers
  BY <1>1 DEF EmptyLedger, Ledgers, NoRun, States, Shas
<1>5. Recover(l) \in Ledgers
  BY <1>2, <1>3 DEF Recover, Ledgers, NoRun, States, Shas
<1>6. Polled(l, c) \in Ledgers
  BY <1>1, <1>3 DEF Polled, Gate, Ledgers, Shas
<1>7. QED
  BY <1>1, <1>2, <1>3, <1>4, <1>5, <1>6

LEMMA BackoffType ==
  ASSUME NEW n \in Nat
  PROVE  pendingBackoff(n) \in 0..BackoffCap
BY WatcherAssumption DEF pendingBackoff

LEMMA TypeStep == TypeOK /\ InStep /\ [Next]_vars => TypeOK'
<1> SUFFICES ASSUME TypeOK, InStep, [Next]_vars PROVE TypeOK'
  OBVIOUS
<1> USE WatcherAssumption
<1>types. /\ ledger \in Ledgers /\ saved \in Ledgers /\ tip \in Commits
          /\ repo \in Repos
  BY DEF TypeOK
<1>recover. Recover(saved) \in Ledgers /\ EmptyLedger(repo) \in Ledgers
  BY <1>types, LedgerTypes
<1>polled. Polled(ledger, tip) \in Ledgers
  BY <1>types, LedgerTypes
<1>again. /\ Again(ledger.blocked, ledger.desired) \in Gates
          /\ Again(ledger.pending, ledger.desired) \in Gates
          /\ NoGate \in Gates
  BY <1>types, LedgerTypes
<1>1. ASSUME NEW c \in Commits, Push(c) PROVE TypeOK'
  BY <1>1 DEF TypeOK, Push, Reset
<1>2. ASSUME NEW r \in Repos, Repoint(r) PROVE TypeOK'
  BY <1>2 DEF TypeOK, Repoint, Fault, Reset
<1>3. ASSUME NEW t \in Triggers, Start(t) PROVE TypeOK'
  BY <1>3, <1>recover DEF TypeOK, Start, Loaded, Reset, world
<1>4. CASE TimePasses
  BY <1>4 DEF TypeOK, TimePasses, obs
<1>5. CASE ArgoConverges
  BY <1>5 DEF TypeOK, ArgoConverges, obs
<1>6. CASE Crash
  BY <1>6 DEF TypeOK, Crash, Fault, obs
<1>7. CASE StandStill
  <2>1. [Polled(ledger, tip) EXCEPT !.state = Settled(@)] \in Ledgers
    BY <1>polled DEF Ledgers, Settled, States
  <2>2. QED
    BY <1>7, <2>1 DEF TypeOK, StandStill, Finish, Save, world, obs
<1>8. CASE Act
  <2>1. [Polled(ledger, tip) EXCEPT !.state = "change-detected",
           !.run = [sha |-> tip, phase |-> "poll"]] \in Ledgers
    BY <1>polled, <1>types DEF Ledgers, States, Shas
  <2>2. QED
    BY <1>8, <2>1 DEF TypeOK, Act, Save, world, obs
<1>9. CASE Checkout
  <2>1. [ledger EXCEPT !.state = "validating", !.run.phase = "check"] \in Ledgers
    BY <1>types DEF Ledgers, States
  <2>2. QED
    BY <1>9, <2>1 DEF TypeOK, Checkout, Save, world, obs
<1>10. CASE Validate
  <2>1. [ledger EXCEPT !.state = "applying", !.run.phase = "apply"] \in Ledgers
    BY <1>types DEF Ledgers, States
  <2>2. ran' \in [Commits -> Nat]
    <3>1. ran \in [Commits -> Nat] /\ ran' = [ran EXCEPT ![ledger.desired] = @ + 1]
      BY <1>10 DEF TypeOK, Validate
    <3>2. ledger.desired \in Commits
      BY <1>10 DEF InStep, Running, Validate
    <3>3. QED
      BY <3>1, <3>2
  <2>3. QED
    BY <1>10, <2>1, <2>2 DEF TypeOK, Validate, Save, world
<1>11. CASE Apply
  <2>1. ledger.desired \in Commits
    BY <1>11 DEF InStep, Running, Apply
  <2>2. QED
    BY <1>11, <2>1 DEF TypeOK, Apply, Shas
<1>12. CASE Record
  <2>1. [ledger EXCEPT !.applied = ledger.desired, !.blocked = NoGate,
           !.pending = IF Kind = "team" THEN NoGate ELSE @,
           !.state = "waiting-for-argocd", !.run.phase = "argocd"] \in Ledgers
    BY <1>types, <1>again DEF Ledgers, States
  <2>2. QED
    BY <1>12, <2>1 DEF TypeOK, Record, Save, world, obs
<1>13. CASE Await
  <2>1. [ledger EXCEPT !.run = NoRun,
           !.state = IF healthy THEN "synced" ELSE "degraded"] \in Ledgers
    BY <1>types DEF Ledgers, States, NoRun, Shas
  <2>2. QED
    BY <1>13, <2>1 DEF TypeOK, Await, Finish, Save, world, obs
<1>14. CASE PollFails
  <2>1. \A s \in States : [ledger EXCEPT !.state = s] \in Ledgers
    BY <1>types DEF Ledgers
  <2>2. QED
    BY <1>14, <2>1 DEF TypeOK, PollFails, Fault, Finish, Save, States, world, obs
<1>15. CASE NotReady
  <2>1. [Polled(ledger, tip) EXCEPT !.state = "degraded"] \in Ledgers
    BY <1>polled DEF Ledgers, States
  <2>2. QED
    BY <1>15, <2>1 DEF TypeOK, NotReady, Fault, Finish, Save, world, obs
<1>failed. [ledger EXCEPT !.state = "failed", !.run = NoRun,
              !.blocked = Again(@, ledger.desired)] \in Ledgers
  BY <1>types, <1>again DEF Ledgers, States, NoRun, Shas
<1>16. CASE StepFails
  BY <1>16, <1>failed DEF TypeOK, StepFails, FailRun, Fault, Finish, Save, world, obs
<1>17. CASE ApplyFails
  BY <1>17, <1>failed DEF TypeOK, ApplyFails, FailRun, Fault, Finish, Save, obs
<1>18. CASE ApplyPends
  <2> DEFINE p == Again(ledger.pending, ledger.desired)
  <2>1. [ledger EXCEPT !.state = "pending", !.run = NoRun,
           !.blocked = NoGate, !.pending = p] \in Ledgers
    BY <1>types, <1>again DEF Ledgers, States, NoRun, Shas
  <2>2. pendingBackoff(p.attempts) \in 0..BackoffCap
    BY <1>again, BackoffType DEF Gates
  <2>3. ran' \in [Commits -> Nat]
    BY <1>18 DEF TypeOK, ApplyPends
  <2>4. backoff' \in 0..BackoffCap /\ saved' \in Ledgers /\ ledger' \in Ledgers
    BY <1>18, <2>1, <2>2 DEF ApplyPends, Finish, Save
  <2>5. QED
    BY <1>18, <2>3, <2>4 DEF TypeOK, ApplyPends, Fault, Finish, Save
<1>19. CASE UNCHANGED vars
  BY <1>19 DEF TypeOK, vars, world, obs
<1>20. QED
  BY <1>1, <1>2, <1>3, <1>4, <1>5, <1>6, <1>7, <1>8, <1>9, <1>10, <1>11, <1>12,
     <1>13, <1>14, <1>15, <1>16, <1>17, <1>18, <1>19
     DEF Next, TickStep, TickFails

LEMMA TypeInit == Init => TypeOK
<1> SUFFICES ASSUME Init PROVE TypeOK
  OBVIOUS
<1>1. repo \in Repos /\ tip \in Commits
  BY DEF Init
<1>2. EmptyLedger(repo) \in Ledgers
  BY <1>1 DEF EmptyLedger, Ledgers, NoRun, NoGate, Gates, States, Shas
<1>3. QED
  BY <1>1, <1>2, WatcherAssumption DEF Init, TypeOK, Shas

-----------------------------------------------------------------------------
(* The inductive invariant *)

\* Left alone, the watcher will not apply c from this ledger.
Guarded(l, c) == l.blocked.sha = c \/ (l.applied = c /\ l.pending.sha # c)

\* The head of the branch ran at most once, and if it did the ledger guards
\* it, as it is and as it will be loaded; the commit a tick is about to run
\* has not run.
OnceInv ==
  /\ AppliedOnce
  /\ ran[tip] # 0 => Guarded(Loaded, tip)
  /\ Running /\ tip # saved.desired => ran[tip] = 0
  /\ pc \in {"checkout", "check"} => ran[saved.desired] = 0
  /\ pc = "poll" /\ trigger # "timer" => ran[tip] = 0
  /\ pc = "wait" => Guarded(saved, saved.desired) /\ saved.applied = saved.desired
  /\ Kind # "team" => saved.pending.sha = NoCommit

\* What the ledger calls applied succeeded, or is about to be called so.
SucceededInv ==
  /\ AppliedSucceeded
  /\ pc = "record" => saved.desired \in succeeded

\* A block in the ledger of a run is one of the commit it runs, and only a
\* retry runs a blocked commit.
GateInv ==
  /\ saved.run # NoRun => saved.blocked.sha \in {saved.run.sha, NoCommit}
  /\ Running /\ saved.blocked.sha # NoCommit => trigger = "retry"

IInv == TypeOK /\ InStep /\ OnceInv /\ SucceededInv /\ GateInv

-----------------------------------------------------------------------------
(* A tick stands where the ledger says. *)

\* What is loaded belongs to the configured repository and has no run.
LEMMA LoadedFacts ==
  ASSUME TypeOK
  PROVE  /\ Loaded \in Ledgers
         /\ Loaded.repo = repo /\ Loaded.run = NoRun
         /\ Loaded.pending \in {saved.pending, NoGate}
         /\ Loaded.applied \in {saved.applied, NoCommit}
<1>1. saved \in Ledgers /\ repo \in Repos /\ tip \in Commits
  BY DEF TypeOK
<1>2. Recover(saved) \in Ledgers /\ EmptyLedger(repo) \in Ledgers
  BY <1>1, LedgerTypes
<1>3. /\ EmptyLedger(repo).repo = repo /\ EmptyLedger(repo).run = NoRun
      /\ EmptyLedger(repo).pending = NoGate
      /\ EmptyLedger(repo).applied = NoCommit
  BY DEF EmptyLedger
<1>4. /\ Recover(saved).repo = saved.repo /\ Recover(saved).run = NoRun
      /\ Recover(saved).pending = saved.pending
      /\ Recover(saved).applied = saved.applied
  BY <1>1 DEF Recover, Ledgers
<1>5. QED
  BY <1>2, <1>3, <1>4 DEF Loaded

LEMMA InStepInit == Init => InStep
BY DEF Init, InStep, Running

LEMMA InStepStep == TypeOK /\ InStep /\ [Next]_vars => InStep'
<1> SUFFICES ASSUME TypeOK, InStep, [Next]_vars PROVE InStep'
  OBVIOUS
<1>loaded. /\ Loaded \in Ledgers /\ Loaded.repo = repo /\ Loaded.run = NoRun
  BY LoadedFacts
<1>types. ledger \in Ledgers /\ saved \in Ledgers /\ tip \in Commits
  BY DEF TypeOK
<1>1. ASSUME NEW c \in Commits, Push(c) PROVE InStep'
  BY <1>1 DEF InStep, Push, Running, PhaseAt, Loaded
<1>2. ASSUME NEW r \in Repos, Repoint(r) PROVE InStep'
  BY <1>2 DEF InStep, Repoint, Running
<1>3. ASSUME NEW t \in Triggers, Start(t) PROVE InStep'
  BY <1>3 DEF InStep, Start, Running, world, Loaded
<1>4. CASE TimePasses
  BY <1>4 DEF InStep, TimePasses, Running, PhaseAt, Loaded
<1>5. CASE ArgoConverges
  BY <1>5 DEF InStep, ArgoConverges, Running, PhaseAt, Loaded
<1>6. CASE Crash
  BY <1>6 DEF InStep, Crash, Running
<1>7. CASE StandStill
  BY <1>7 DEF InStep, StandStill, Finish, Save, Running
<1>8. CASE Act
  <2>1. pc = "poll" /\ pc' = "checkout" /\ ledger' = saved' /\ repo' = repo
    BY <1>8 DEF Act, Save, world
  <2>2. saved' = [Polled(Loaded, tip) EXCEPT !.state = "change-detected",
                    !.run = [sha |-> tip, phase |-> "poll"]]
    BY <1>8, <2>1 DEF Act, Save, InStep
  <2>3. Polled(Loaded, tip) \in Ledgers
    BY <1>loaded, <1>types, LedgerTypes DEF TypeOK
  <2>4. Polled(Loaded, tip).desired = tip /\ Polled(Loaded, tip).repo = repo
    BY <1>loaded DEF Polled, Ledgers
  <2>5. /\ saved'.repo = repo /\ saved'.desired = tip
        /\ saved'.run = [sha |-> tip, phase |-> "poll"]
    BY <2>2, <2>3, <2>4 DEF Ledgers
  <2>6. QED
    BY <2>1, <2>5, <1>types DEF InStep, Running, PhaseAt
<1>running. ASSUME Running
            PROVE  /\ ledger = saved /\ saved.repo = repo
                   /\ saved.desired \in Commits
                   /\ saved.run = [sha |-> saved.desired, phase |-> PhaseAt(pc)]
  BY <1>running DEF InStep, Running
<1>9. CASE Checkout
  <2>1. /\ Running /\ pc' = "check" /\ ledger' = saved' /\ repo' = repo
        /\ saved' = [ledger EXCEPT !.state = "validating", !.run.phase = "check"]
    BY <1>9 DEF Checkout, Save, world, Running
  <2>2. /\ saved'.repo = repo /\ saved'.desired = saved.desired
        /\ saved'.run = [sha |-> saved.desired, phase |-> "check"]
    BY <2>1, <1>running, <1>types DEF Ledgers
  <2>3. QED
    BY <2>1, <2>2, <1>running DEF InStep, Running, PhaseAt
<1>10. CASE Validate
  <2>1. /\ Running /\ pc' = "apply" /\ ledger' = saved' /\ repo' = repo
        /\ saved' = [ledger EXCEPT !.state = "applying", !.run.phase = "apply"]
    BY <1>10 DEF Validate, Save, world, Running
  <2>2. /\ saved'.repo = repo /\ saved'.desired = saved.desired
        /\ saved'.run = [sha |-> saved.desired, phase |-> "apply"]
    BY <2>1, <1>running, <1>types DEF Ledgers
  <2>3. QED
    BY <2>1, <2>2, <1>running DEF InStep, Running, PhaseAt
<1>11. CASE Apply
  <2>1. /\ Running /\ pc = "apply" /\ pc' = "record"
        /\ UNCHANGED <<ledger, saved, repo>>
    BY <1>11 DEF Apply, Running
  <2>2. QED
    BY <2>1, <1>running DEF InStep, Running, PhaseAt
<1>12. CASE Record
  <2>1. /\ Running /\ pc' = "wait" /\ ledger' = saved' /\ repo' = repo
        /\ saved' = [ledger EXCEPT !.applied = ledger.desired, !.blocked = NoGate,
             !.pending = IF Kind = "team" THEN NoGate ELSE @,
             !.state = "waiting-for-argocd", !.run.phase = "argocd"]
    BY <1>12 DEF Record, Save, world, Running
  <2>2. /\ saved'.repo = repo /\ saved'.desired = saved.desired
        /\ saved'.run = [sha |-> saved.desired, phase |-> "argocd"]
    BY <2>1, <1>running, <1>types DEF Ledgers
  <2>3. QED
    BY <2>1, <2>2, <1>running DEF InStep, Running, PhaseAt
<1>13. CASE Await
  BY <1>13 DEF InStep, Await, Finish, Save, Running
<1>14. CASE PollFails
  BY <1>14 DEF InStep, PollFails, Finish, Save, Running
<1>15. CASE NotReady
  BY <1>15 DEF InStep, NotReady, Finish, Save, Running
<1>16. CASE StepFails
  BY <1>16 DEF InStep, StepFails, FailRun, Finish, Save, Running
<1>17. CASE ApplyFails
  BY <1>17 DEF InStep, ApplyFails, FailRun, Finish, Save, Running
<1>18. CASE ApplyPends
  BY <1>18 DEF InStep, ApplyPends, Finish, Save, Running
<1>19. CASE UNCHANGED vars
  BY <1>19 DEF InStep, vars, world, Running, PhaseAt, Loaded
<1>20. QED
  BY <1>1, <1>2, <1>3, <1>4, <1>5, <1>6, <1>7, <1>8, <1>9, <1>10, <1>11, <1>12,
     <1>13, <1>14, <1>15, <1>16, <1>17, <1>18, <1>19
     DEF Next, TickStep, TickFails

-----------------------------------------------------------------------------
(* A commit is applied once unless asked for again. *)

\* Loading a ledger without a run changes nothing.
LEMMA LoadIdle ==
  ASSUME saved'.run = NoRun, saved'.repo = repo'
  PROVE  Loaded' = saved'
BY DEF Loaded, Recover

\* A ledger whose run was cut before the wait guards the commit it ran.
LEMMA LoadCut ==
  ASSUME saved' \in Ledgers, saved'.repo = repo', NEW c \in Commits,
         saved'.run.sha = c, saved'.run.phase # "argocd"
  PROVE  Guarded(Loaded', c)
<1>1. c # NoCommit
  BY WatcherAssumption
<1>2. saved'.run # NoRun
  BY <1>1 DEF NoRun
<1>3. Loaded' = [saved' EXCEPT !.state = "failed", !.run = NoRun,
                               !.blocked = Again(saved'.blocked, c)]
  BY <1>2 DEF Loaded, Recover
<1>4. Loaded'.blocked = Again(saved'.blocked, c)
  BY <1>3 DEF Ledgers
<1>5. QED
  BY <1>4 DEF Again, Guarded

\* Polling the head changes nothing about its guard.
LEMMA PolledGuard ==
  ASSUME NEW l \in Ledgers, NEW c \in Commits
  PROVE  /\ Guarded(l, c) <=> Guarded(Polled(l, c), c)
         /\ Polled(l, c).repo = l.repo /\ Polled(l, c).run = l.run
         /\ Polled(l, c).desired = c /\ Polled(l, c).applied = l.applied
         /\ Polled(l, c).blocked = Gate(l.blocked, c)
         /\ Polled(l, c).pending = Gate(l.pending, c)
<1>1. c # NoCommit
  BY WatcherAssumption
<1>2. /\ Polled(l, c).repo = l.repo /\ Polled(l, c).run = l.run
      /\ Polled(l, c).desired = c /\ Polled(l, c).applied = l.applied
      /\ Polled(l, c).blocked = Gate(l.blocked, c)
      /\ Polled(l, c).pending = Gate(l.pending, c)
  BY DEF Polled, Ledgers
<1>3. \A g \in Gates : Gate(g, c).sha = c <=> g.sha = c
  BY <1>1 DEF Gate, NoGate
<1>4. l.blocked \in Gates /\ l.pending \in Gates
  BY DEF Ledgers
<1>5. QED
  BY <1>2, <1>3, <1>4 DEF Guarded

LEMMA OnceInit == Init => OnceInv
<1> SUFFICES ASSUME Init PROVE OnceInv
  OBVIOUS
<1>1. tip \in Commits /\ \A c \in Commits : ran[c] = 0
  BY DEF Init
<1>2. saved.pending.sha = NoCommit
  BY DEF Init, EmptyLedger, NoGate
<1>3. QED
  BY <1>1, <1>2 DEF Init, OnceInv, AppliedOnce, Running

LEMMA OnceStep ==
  TypeOK /\ InStep /\ OnceInv /\ TypeOK' /\ [Next]_vars => OnceInv'
<1> SUFFICES ASSUME TypeOK, InStep, OnceInv, TypeOK', [Next]_vars PROVE OnceInv'
  OBVIOUS
<1>types. /\ ledger \in Ledgers /\ saved \in Ledgers /\ saved' \in Ledgers
          /\ tip \in Commits /\ ran \in [Commits -> Nat]
  BY DEF TypeOK
<1>loaded. /\ Loaded \in Ledgers /\ Loaded.repo = repo /\ Loaded.run = NoRun
           /\ Loaded.pending \in {saved.pending, NoGate}
  BY LoadedFacts
<1>polled. /\ Guarded(Loaded, tip) <=> Guarded(Polled(Loaded, tip), tip)
           /\ Polled(Loaded, tip).repo = repo
           /\ Polled(Loaded, tip).run = NoRun
           /\ Polled(Loaded, tip).desired = tip
           /\ Polled(Loaded, tip).applied = Loaded.applied
           /\ Polled(Loaded, tip).blocked = Gate(Loaded.blocked, tip)
           /\ Polled(Loaded, tip).pending = Gate(Loaded.pending, tip)
  BY <1>loaded, <1>types, PolledGuard
<1>pollType. Polled(Loaded, tip) \in Ledgers
  BY <1>loaded, <1>types, LedgerTypes DEF TypeOK
<1>poll. pc = "poll" => ledger = Loaded
  BY DEF InStep
<1>running. ASSUME Running
            PROVE  /\ ledger = saved /\ saved.repo = repo
                   /\ saved.desired \in Commits
                   /\ saved.run = [sha |-> saved.desired, phase |-> PhaseAt(pc)]
  BY <1>running DEF InStep, Running
<1>bare. /\ NoGate.sha = NoCommit /\ NoCommit \notin Commits
  BY WatcherAssumption DEF NoGate
<1>bares. Kind # "team" => /\ Loaded.pending.sha = NoCommit
                           /\ Polled(Loaded, tip).pending.sha = NoCommit
  BY <1>loaded, <1>bare, <1>polled DEF OnceInv, Gate

\* A step that moves or clears the counts, or leaves the ledger alone.
<1>1. ASSUME NEW c \in Commits, Push(c) PROVE OnceInv'
  <2>1. /\ tip' \in Commits /\ ran' = [d \in Commits |-> 0]
        /\ UNCHANGED <<repo, saved, pc, trigger>>
    BY <1>1 DEF Push, Reset
  <2>2. \A d \in Commits : ran'[d] = 0
    BY <2>1
  <2>3. pc \in {"checkout", "check"} => saved.desired \in Commits
    BY <1>running DEF Running
  <2>4. QED
    BY <2>1, <2>2, <2>3 DEF OnceInv, AppliedOnce, Guarded
<1>2. ASSUME NEW r \in Repos, Repoint(r) PROVE OnceInv'
  <2>1. /\ tip' \in Commits /\ ran' = [d \in Commits |-> 0]
        /\ UNCHANGED <<saved, pc, trigger>> /\ pc = "idle"
    BY <1>2 DEF Repoint, Reset
  <2>2. \A d \in Commits : ran'[d] = 0
    BY <2>1
  <2>3. QED
    BY <2>1, <2>2 DEF OnceInv, AppliedOnce, Running
<1>3. ASSUME NEW t \in Triggers, Start(t) PROVE OnceInv'
  <2>1. /\ pc' = "poll" /\ trigger' = t /\ UNCHANGED <<repo, tip, saved>>
        /\ IF t = "timer" THEN ran' = ran ELSE ran' = [d \in Commits |-> 0]
    BY <1>3 DEF Start, world, Reset
  <2>2. Loaded' = Loaded
    BY <2>1 DEF Loaded
  <2>3. \A d \in Commits : ran'[d] = ran[d] \/ ran'[d] = 0
    BY <2>1
  <2>4. t # "timer" => ran'[tip] = 0
    BY <2>1, <1>types
  <2>5. AppliedOnce'
    BY <2>3 DEF OnceInv, AppliedOnce
  <2>6. ran'[tip'] # 0 => Guarded(Loaded', tip')
    BY <2>1, <2>2, <2>3, <1>types DEF OnceInv
  <2>7. QED
    BY <2>1, <2>4, <2>5, <2>6 DEF OnceInv, Running
<1>still. ASSUME UNCHANGED <<repo, tip, saved, trigger, ran>>,
                 pc' = pc \/ pc' = "idle" \/ (pc = "apply" /\ pc' = "record")
          PROVE OnceInv'
  <2>1. Loaded' = Loaded
    BY <1>still DEF Loaded
  <2>2. QED
    BY <1>still, <2>1 DEF OnceInv, AppliedOnce, Running, Guarded
<1>4. CASE TimePasses
  BY <1>4, <1>still DEF TimePasses, obs
<1>5. CASE ArgoConverges
  BY <1>5, <1>still DEF ArgoConverges, obs
<1>6. CASE Crash
  BY <1>6, <1>still DEF Crash, obs
<1>11. CASE Apply
  BY <1>11, <1>still DEF Apply

\* A step that ends the tick and leaves the counts alone.
<1>ends. ASSUME UNCHANGED <<repo, tip, ran>>, pc' = "idle",
                saved'.repo = repo, saved'.run = NoRun,
                ran[tip] # 0 => Guarded(saved', tip),
                Kind # "team" => saved'.pending.sha = NoCommit
         PROVE OnceInv'
  <2>1. Loaded' = saved'
    BY <1>ends, LoadIdle
  <2>2. QED
    BY <1>ends, <2>1 DEF OnceInv, AppliedOnce, Running
<1>7. CASE StandStill
  <2> DEFINE l == Polled(Loaded, tip)
  <2>1. /\ UNCHANGED <<repo, tip, ran>> /\ pc' = "idle"
        /\ saved' = [l EXCEPT !.state = Settled(l.state)]
    BY <1>7, <1>poll DEF StandStill, Finish, Save, world, obs
  <2>2. /\ saved'.repo = repo /\ saved'.run = NoRun
        /\ saved'.blocked = l.blocked /\ saved'.pending = l.pending
        /\ saved'.applied = l.applied
    BY <2>1, <1>pollType, <1>polled DEF Ledgers
  <2>3. ran[tip] # 0 => Guarded(saved', tip)
    BY <2>2, <1>polled DEF OnceInv, Guarded
  <2>4. QED
    BY <2>1, <2>2, <2>3, <1>bares, <1>ends
<1>15. CASE NotReady
  <2> DEFINE l == Polled(Loaded, tip)
  <2>1. /\ UNCHANGED <<repo, tip, ran>> /\ pc' = "idle"
        /\ saved' = [l EXCEPT !.state = "degraded"]
    BY <1>15, <1>poll DEF NotReady, Finish, Save, world, obs
  <2>2. /\ saved'.repo = repo /\ saved'.run = NoRun
        /\ saved'.blocked = l.blocked /\ saved'.pending = l.pending
        /\ saved'.applied = l.applied
    BY <2>1, <1>pollType, <1>polled DEF Ledgers
  <2>3. ran[tip] # 0 => Guarded(saved', tip)
    BY <2>2, <1>polled DEF OnceInv, Guarded
  <2>4. QED
    BY <2>1, <2>2, <2>3, <1>bares, <1>ends
<1>14. CASE PollFails
  <2>1. PICK s \in {"authentication-required", "degraded"} :
          /\ UNCHANGED <<repo, tip, ran>> /\ pc' = "idle"
          /\ saved' = [Loaded EXCEPT !.state = s]
    BY <1>14, <1>poll DEF PollFails, Finish, Save, world, obs
  <2>2. /\ saved'.repo = repo /\ saved'.run = NoRun
        /\ saved'.blocked = Loaded.blocked /\ saved'.pending = Loaded.pending
        /\ saved'.applied = Loaded.applied
    BY <2>1, <1>loaded DEF Ledgers
  <2>3. ran[tip] # 0 => Guarded(saved', tip)
    BY <2>2 DEF OnceInv, Guarded
  <2>4. QED
    BY <2>1, <2>2, <2>3, <1>bares, <1>ends
<1>13. CASE Await
  <2>1. /\ UNCHANGED <<repo, tip, ran>> /\ pc' = "idle" /\ pc = "wait" /\ Running
        /\ saved' = [ledger EXCEPT !.run = NoRun,
                        !.state = IF healthy THEN "synced" ELSE "degraded"]
    BY <1>13 DEF Await, Finish, Save, world, obs, Running
  <2>2. /\ saved'.repo = repo /\ saved'.run = NoRun
        /\ saved'.blocked = saved.blocked /\ saved'.pending = saved.pending
        /\ saved'.applied = saved.applied
    BY <2>1, <1>running, <1>types DEF Ledgers
  <2>3. ran[tip] # 0 => Guarded(saved', tip)
    BY <2>1, <2>2 DEF OnceInv, Guarded
  <2>4. QED
    BY <2>1, <2>2, <2>3, <1>ends DEF OnceInv
<1>fails. ASSUME Running, FailRun, UNCHANGED <<repo, tip, ran>>
          PROVE OnceInv'
  <2>1. /\ pc' = "idle"
        /\ saved' = [ledger EXCEPT !.state = "failed", !.run = NoRun,
                        !.blocked = Again(@, ledger.desired)]
    BY <1>fails DEF FailRun, Finish, Save
  <2>2. /\ saved'.repo = repo /\ saved'.run = NoRun
        /\ saved'.blocked.sha = saved.desired /\ saved'.pending = saved.pending
    BY <2>1, <1>fails, <1>running, <1>types DEF Ledgers, Again
  <2>3. ran[tip] # 0 => Guarded(saved', tip)
    BY <1>fails, <2>2 DEF OnceInv, Guarded
  <2>4. QED
    BY <1>fails, <2>1, <2>2, <2>3, <1>ends DEF OnceInv
<1>16. CASE StepFails
  BY <1>16, <1>fails DEF StepFails, Running, world, obs
<1>17. CASE ApplyFails
  BY <1>17, <1>fails DEF ApplyFails, Running, obs

\* A commit is acted on when it has not run, or by an operator's tick.
<1>8. CASE Act
  <2> DEFINE l == Polled(Loaded, tip)
  <2>1. /\ UNCHANGED <<repo, tip, ran>> /\ pc = "poll" /\ pc' = "checkout"
        /\ saved' = [l EXCEPT !.state = "change-detected",
                              !.run = [sha |-> tip, phase |-> "poll"]]
        /\ ShouldApply(l, tip)
    BY <1>8, <1>poll DEF Act, Save, world, obs
  <2>2. /\ saved'.repo = repo /\ saved'.run = [sha |-> tip, phase |-> "poll"]
        /\ saved'.desired = tip /\ saved'.pending = l.pending
    BY <2>1, <1>pollType, <1>polled DEF Ledgers
  <2>3. ran[tip] = 0
    <3>1. CASE trigger # "timer"
      BY <2>1, <3>1 DEF OnceInv
    <3>2. CASE trigger = "timer"
      <4>1. ~Guarded(l, tip)
        BY <2>1, <3>2 DEF ShouldApply, Guarded
      <4>2. QED
        BY <4>1, <1>polled DEF OnceInv
    <3>3. QED
      BY <3>1, <3>2
  <2>4. QED
    BY <2>1, <2>2, <2>3, <1>bares DEF OnceInv, AppliedOnce, Running

\* A tick that is under way guards its commit before it is applied.
<1>next. ASSUME Running, UNCHANGED <<repo, tip>>, saved'.repo = repo,
                saved'.desired = saved.desired, saved'.pending = saved.pending,
                saved'.run.sha = saved.desired, saved'.run.phase # "argocd",
                pc' \in {"check", "apply"},
                pc' = "check" => ran'[saved.desired] = 0,
                tip # saved.desired => ran'[tip] = ran[tip], AppliedOnce'
         PROVE OnceInv'
  <2>1. Guarded(Loaded', saved.desired)
    BY <1>next, <1>types, <1>running, LoadCut
  <2>2. tip # saved.desired => ran'[tip] = 0
    BY <1>next DEF OnceInv
  <2>3. QED
    BY <1>next, <2>1, <2>2 DEF OnceInv, Running
<1>9. CASE Checkout
  <2>1. /\ Running /\ pc = "checkout" /\ pc' = "check"
        /\ UNCHANGED <<repo, tip, ran>>
        /\ saved' = [ledger EXCEPT !.state = "validating", !.run.phase = "check"]
    BY <1>9 DEF Checkout, Save, world, obs, Running
  <2>2. /\ saved'.repo = repo /\ saved'.desired = saved.desired
        /\ saved'.pending = saved.pending
        /\ saved'.run = [sha |-> saved.desired, phase |-> "check"]
    BY <2>1, <1>running, <1>types DEF Ledgers
  <2>3. AppliedOnce'
    BY <2>1 DEF OnceInv, AppliedOnce
  <2>4. ran'[saved.desired] = 0
    BY <2>1 DEF OnceInv
  <2>5. QED
    BY <2>1, <2>2, <2>3, <2>4, <1>next
<1>10. CASE Validate
  <2>1. /\ Running /\ pc = "check" /\ pc' = "apply" /\ UNCHANGED <<repo, tip>>
        /\ saved' = [ledger EXCEPT !.state = "applying", !.run.phase = "apply"]
        /\ ran' = [ran EXCEPT ![ledger.desired] = @ + 1]
    BY <1>10 DEF Validate, Save, world, Running
  <2>2. /\ saved'.repo = repo /\ saved'.desired = saved.desired
        /\ saved'.pending = saved.pending
        /\ saved'.run = [sha |-> saved.desired, phase |-> "apply"]
    BY <2>1, <1>running, <1>types DEF Ledgers
  <2>3. ran' = [ran EXCEPT ![saved.desired] = 1]
    <3>1. ran[saved.desired] = 0 /\ ran[saved.desired] + 1 = 1
      BY <2>1 DEF OnceInv
    <3>2. ledger.desired = saved.desired
      BY <2>1, <1>running
    <3>3. QED
      BY <2>1, <3>1, <3>2
  <2>4. AppliedOnce' /\ (tip # saved.desired => ran'[tip] = ran[tip])
    BY <2>3, <1>types DEF OnceInv, AppliedOnce
  <2>5. QED
    BY <2>1, <2>2, <2>4, <1>next
<1>12. CASE Record
  <2>1. /\ Running /\ pc = "record" /\ pc' = "wait" /\ UNCHANGED <<repo, tip, ran>>
        /\ saved' = [ledger EXCEPT !.applied = ledger.desired, !.blocked = NoGate,
             !.pending = IF Kind = "team" THEN NoGate ELSE @,
             !.state = "waiting-for-argocd", !.run.phase = "argocd"]
    BY <1>12 DEF Record, Save, world, obs, Running
  <2>2. /\ saved'.repo = repo /\ saved'.desired = saved.desired
        /\ saved'.applied = saved.desired
        /\ saved'.pending = IF Kind = "team" THEN NoGate ELSE saved.pending
        /\ saved'.run = [sha |-> saved.desired, phase |-> "argocd"]
    BY <2>1, <1>running, <1>types DEF Ledgers
  <2>3. saved'.pending.sha = NoCommit
    BY <2>2, <1>bare DEF OnceInv
  <2>4. Loaded'.applied = saved.desired /\ Loaded'.pending = saved'.pending
    BY <2>1, <2>2, <1>types DEF Loaded, Recover, Ledgers
  <2>5. /\ Guarded(Loaded', saved.desired) /\ Guarded(saved', saved.desired)
    BY <2>1, <2>2, <2>3, <2>4, <1>running, <1>bare DEF Guarded
  <2>6. QED
    BY <2>1, <2>2, <2>3, <2>5 DEF OnceInv, AppliedOnce, Running

\* A pending commit may be applied again.
<1>18. CASE ApplyPends
  <2> DEFINE p == Again(ledger.pending, ledger.desired)
  <2>1. /\ Running /\ pc = "apply" /\ pc' = "idle" /\ UNCHANGED <<repo, tip>>
        /\ Kind = "team"
        /\ saved' = [ledger EXCEPT !.state = "pending", !.run = NoRun,
                        !.blocked = NoGate, !.pending = p]
        /\ ran' = [ran EXCEPT ![ledger.desired] = 0]
    BY <1>18 DEF ApplyPends, Finish, Save, Running
  <2>2. ran' = [ran EXCEPT ![saved.desired] = 0]
    BY <2>1, <1>running
  <2>3. ran'[tip] = 0
    BY <2>1, <2>2, <1>types DEF OnceInv
  <2>4. AppliedOnce'
    BY <2>2, <1>types DEF OnceInv, AppliedOnce
  <2>5. QED
    BY <2>1, <2>3, <2>4 DEF OnceInv, Running
<1>19. CASE UNCHANGED vars
  BY <1>19, <1>still DEF vars, world, obs
<1>20. QED
  BY <1>1, <1>2, <1>3, <1>4, <1>5, <1>6, <1>7, <1>8, <1>9, <1>10, <1>11, <1>12,
     <1>13, <1>14, <1>15, <1>16, <1>17, <1>18, <1>19
     DEF Next, TickStep, TickFails

-----------------------------------------------------------------------------
(* What counts as applied has succeeded. *)

LEMMA SucceededStep ==
  TypeOK /\ InStep /\ SucceededInv /\ [Next]_vars => SucceededInv'
<1> SUFFICES ASSUME TypeOK, InStep, SucceededInv, [Next]_vars
             PROVE SucceededInv'
  OBVIOUS
<1>types. /\ ledger \in Ledgers /\ saved \in Ledgers /\ tip \in Commits
  BY DEF TypeOK
<1>loaded. /\ Loaded \in Ledgers /\ Loaded.applied \in {saved.applied, NoCommit}
  BY LoadedFacts
<1>polled. /\ Polled(Loaded, tip) \in Ledgers
           /\ Polled(Loaded, tip).applied = Loaded.applied
  BY <1>loaded, <1>types, LedgerTypes, PolledGuard DEF TypeOK
<1>poll. pc = "poll" => ledger = Loaded
  BY DEF InStep
<1>running. Running => ledger = saved
  BY DEF InStep, Running
\* Steps that keep or forget what is applied.
<1>keeps. ASSUME succeeded' = succeeded, pc' # "record",
                 saved'.applied \in {saved.applied, NoCommit}
          PROVE SucceededInv'
  BY <1>keeps DEF SucceededInv, AppliedSucceeded
<1>same. ASSUME UNCHANGED <<saved, succeeded>>, pc' = pc \/ pc' # "record"
         PROVE SucceededInv'
  BY <1>same DEF SucceededInv, AppliedSucceeded
<1>1. ASSUME NEW c \in Commits, Push(c) PROVE SucceededInv'
  BY <1>1, <1>same DEF Push
<1>2. ASSUME NEW r \in Repos, Repoint(r) PROVE SucceededInv'
  BY <1>2, <1>same DEF Repoint
<1>3. ASSUME NEW t \in Triggers, Start(t) PROVE SucceededInv'
  BY <1>3, <1>same DEF Start
<1>4. CASE TimePasses
  BY <1>4, <1>same DEF TimePasses, obs
<1>5. CASE ArgoConverges
  BY <1>5, <1>same DEF ArgoConverges, obs
<1>6. CASE Crash
  BY <1>6, <1>same DEF Crash, obs
<1>7. CASE StandStill
  <2>1. /\ succeeded' = succeeded /\ pc' = "idle"
        /\ saved' = [Polled(Loaded, tip)
                       EXCEPT !.state = Settled(Polled(Loaded, tip).state)]
    BY <1>7, <1>poll DEF StandStill, Finish, Save, obs
  <2>2. saved'.applied = Loaded.applied
    BY <2>1, <1>polled DEF Ledgers
  <2>3. QED
    BY <2>1, <2>2, <1>loaded, <1>keeps
<1>8. CASE Act
  <2>1. /\ succeeded' = succeeded /\ pc' = "checkout"
        /\ saved' = [Polled(Loaded, tip) EXCEPT !.state = "change-detected",
                        !.run = [sha |-> tip, phase |-> "poll"]]
    BY <1>8, <1>poll DEF Act, Save, obs
  <2>2. saved'.applied = Loaded.applied
    BY <2>1, <1>polled DEF Ledgers
  <2>3. QED
    BY <2>1, <2>2, <1>loaded, <1>keeps
<1>9. CASE Checkout
  <2>1. /\ succeeded' = succeeded /\ pc' = "check" /\ Running
        /\ saved' = [ledger EXCEPT !.state = "validating", !.run.phase = "check"]
    BY <1>9 DEF Checkout, Save, obs, Running
  <2>2. saved'.applied = saved.applied
    BY <2>1, <1>running, <1>types DEF Ledgers
  <2>3. QED
    BY <2>1, <2>2, <1>keeps
<1>10. CASE Validate
  <2>1. /\ succeeded' = succeeded /\ pc' = "apply" /\ Running
        /\ saved' = [ledger EXCEPT !.state = "applying", !.run.phase = "apply"]
    BY <1>10 DEF Validate, Save, Running
  <2>2. saved'.applied = saved.applied
    BY <2>1, <1>running, <1>types DEF Ledgers
  <2>3. QED
    BY <2>1, <2>2, <1>keeps
<1>11. CASE Apply
  <2>1. /\ saved' = saved /\ ledger = saved
        /\ succeeded' = succeeded \cup {ledger.desired}
    BY <1>11, <1>running DEF Apply, Running
  <2>2. QED
    BY <2>1 DEF SucceededInv, AppliedSucceeded
<1>12. CASE Record
  <2>1. /\ succeeded' = succeeded /\ pc = "record" /\ pc' = "wait" /\ Running
        /\ saved' = [ledger EXCEPT !.applied = ledger.desired, !.blocked = NoGate,
             !.pending = IF Kind = "team" THEN NoGate ELSE @,
             !.state = "waiting-for-argocd", !.run.phase = "argocd"]
    BY <1>12 DEF Record, Save, obs, Running
  <2>2. saved'.applied = saved.desired
    BY <2>1, <1>running, <1>types DEF Ledgers
  <2>3. QED
    BY <2>1, <2>2 DEF SucceededInv, AppliedSucceeded
<1>13. CASE Await
  <2>1. /\ succeeded' = succeeded /\ pc' = "idle" /\ Running
        /\ saved' = [ledger EXCEPT !.run = NoRun,
                        !.state = IF healthy THEN "synced" ELSE "degraded"]
    BY <1>13 DEF Await, Finish, Save, obs, Running
  <2>2. saved'.applied = saved.applied
    BY <2>1, <1>running, <1>types DEF Ledgers
  <2>3. QED
    BY <2>1, <2>2, <1>keeps
<1>14. CASE PollFails
  <2>1. PICK s \in {"authentication-required", "degraded"} :
          /\ succeeded' = succeeded /\ pc' = "idle"
          /\ saved' = [Loaded EXCEPT !.state = s]
    BY <1>14, <1>poll DEF PollFails, Finish, Save, obs
  <2>2. saved'.applied = Loaded.applied
    BY <2>1, <1>loaded DEF Ledgers
  <2>3. QED
    BY <2>1, <2>2, <1>loaded, <1>keeps
<1>15. CASE NotReady
  <2>1. /\ succeeded' = succeeded /\ pc' = "idle"
        /\ saved' = [Polled(Loaded, tip) EXCEPT !.state = "degraded"]
    BY <1>15, <1>poll DEF NotReady, Finish, Save, obs
  <2>2. saved'.applied = Loaded.applied
    BY <2>1, <1>polled DEF Ledgers
  <2>3. QED
    BY <2>1, <2>2, <1>loaded, <1>keeps
<1>fails. ASSUME Running, FailRun, succeeded' = succeeded
          PROVE SucceededInv'
  <2>1. /\ pc' = "idle"
        /\ saved' = [ledger EXCEPT !.state = "failed", !.run = NoRun,
                        !.blocked = Again(@, ledger.desired)]
    BY <1>fails DEF FailRun, Finish, Save
  <2>2. saved'.applied = saved.applied
    BY <2>1, <1>fails, <1>running, <1>types DEF Ledgers
  <2>3. QED
    BY <1>fails, <2>1, <2>2, <1>keeps
<1>16. CASE StepFails
  BY <1>16, <1>fails DEF StepFails, Running, obs
<1>17. CASE ApplyFails
  BY <1>17, <1>fails DEF ApplyFails, Running, obs
<1>18. CASE ApplyPends
  <2>1. /\ succeeded' = succeeded /\ pc' = "idle" /\ Running
        /\ saved' = [ledger EXCEPT !.state = "pending", !.run = NoRun,
             !.blocked = NoGate, !.pending = Again(ledger.pending, ledger.desired)]
    BY <1>18 DEF ApplyPends, Finish, Save, Running
  <2>2. saved'.applied = saved.applied
    BY <2>1, <1>running, <1>types DEF Ledgers
  <2>3. QED
    BY <2>1, <2>2, <1>keeps
<1>19. CASE UNCHANGED vars
  BY <1>19, <1>same DEF vars, obs
<1>20. QED
  BY <1>1, <1>2, <1>3, <1>4, <1>5, <1>6, <1>7, <1>8, <1>9, <1>10, <1>11, <1>12,
     <1>13, <1>14, <1>15, <1>16, <1>17, <1>18, <1>19
     DEF Next, TickStep, TickFails

-----------------------------------------------------------------------------
(* A block holds. *)

\* Loading keeps whose block it is, unless the repository is another.
LEMMA LoadedBlock ==
  ASSUME TypeOK, GateInv, saved.repo = repo, saved.blocked.sha # NoCommit
  PROVE  Loaded.blocked.sha = saved.blocked.sha
<1>1. saved \in Ledgers
  BY DEF TypeOK
<1>2. CASE saved.run = NoRun
  BY <1>2 DEF Loaded, Recover
<1>3. CASE saved.run # NoRun /\ saved.run.phase = "argocd"
                            /\ saved.applied = saved.run.sha
  BY <1>1, <1>3 DEF Loaded, Recover, Ledgers
<1>4. CASE saved.run # NoRun /\ ~(saved.run.phase = "argocd"
                              /\ saved.applied = saved.run.sha)
  <2>1. saved.blocked.sha = saved.run.sha
    BY <1>4 DEF GateInv
  <2>2. Loaded.blocked = Again(saved.blocked, saved.run.sha)
    BY <1>1, <1>4 DEF Loaded, Recover, Ledgers
  <2>3. QED
    BY <2>1, <2>2 DEF Again
<1>5. QED
  BY <1>2, <1>3, <1>4

LEMMA GateStep ==
  TypeOK /\ InStep /\ GateInv /\ [Next]_vars => GateInv'
<1> SUFFICES ASSUME TypeOK, InStep, GateInv, [Next]_vars PROVE GateInv'
  OBVIOUS
<1>types. /\ ledger \in Ledgers /\ saved \in Ledgers /\ tip \in Commits
  BY DEF TypeOK
<1>loaded. Loaded \in Ledgers /\ Loaded.run = NoRun
  BY LoadedFacts
<1>polled. /\ Polled(Loaded, tip) \in Ledgers
           /\ Polled(Loaded, tip).run = NoRun
           /\ Polled(Loaded, tip).blocked.sha \in {tip, NoCommit}
  <2>1. Gate(Loaded.blocked, tip).sha \in {tip, NoCommit}
    BY DEF Gate, NoGate
  <2>2. QED
    BY <2>1, <1>loaded, <1>types, LedgerTypes, PolledGuard DEF TypeOK
<1>poll. pc = "poll" => ledger = Loaded
  BY DEF InStep
<1>running. Running => ledger = saved
  BY DEF InStep, Running
<1>ends. ASSUME saved'.run = NoRun, pc' = "idle" PROVE GateInv'
  BY <1>ends DEF GateInv, Running
<1>same. ASSUME saved' = saved,
                \/ pc' \in {"idle", "poll"}
                \/ (pc' = pc \/ Running) /\ trigger' = trigger
         PROVE GateInv'
  BY <1>same DEF GateInv, Running
<1>1. ASSUME NEW c \in Commits, Push(c) PROVE GateInv'
  BY <1>1, <1>same DEF Push
<1>2. ASSUME NEW r \in Repos, Repoint(r) PROVE GateInv'
  BY <1>2, <1>same DEF Repoint
<1>3. ASSUME NEW t \in Triggers, Start(t) PROVE GateInv'
  <2>1. saved' = saved /\ pc' = "poll"
    BY <1>3 DEF Start
  <2>2. QED
    BY <2>1, <1>same
<1>4. CASE TimePasses
  BY <1>4, <1>same DEF TimePasses
<1>5. CASE ArgoConverges
  BY <1>5, <1>same DEF ArgoConverges
<1>6. CASE Crash
  BY <1>6, <1>same DEF Crash
<1>7. CASE StandStill
  <2>1. /\ pc' = "idle"
        /\ saved' = [Polled(Loaded, tip)
                       EXCEPT !.state = Settled(Polled(Loaded, tip).state)]
    BY <1>7, <1>poll DEF StandStill, Finish, Save
  <2>2. saved'.run = NoRun
    BY <2>1, <1>polled DEF Ledgers
  <2>3. QED
    BY <2>1, <2>2, <1>ends
<1>8. CASE Act
  <2> DEFINE l == Polled(Loaded, tip)
  <2>1. /\ trigger' = trigger /\ ShouldApply(l, tip)
        /\ saved' = [l EXCEPT !.state = "change-detected",
                              !.run = [sha |-> tip, phase |-> "poll"]]
    BY <1>8, <1>poll DEF Act, Save
  <2>2. saved'.run.sha = tip /\ saved'.blocked = l.blocked
    BY <2>1, <1>polled DEF Ledgers
  <2>3. l.blocked.sha # NoCommit => trigger = "retry"
    BY <2>1, <1>polled DEF ShouldApply
  <2>4. QED
    BY <2>1, <2>2, <2>3, <1>polled DEF GateInv
\* A step of the run that keeps its commit and its block.
<1>next. ASSUME Running, trigger' = trigger, saved'.run.sha = saved.run.sha,
                saved.run # NoRun, saved'.blocked = saved.blocked
         PROVE GateInv'
  BY <1>next DEF GateInv
<1>run. Running => saved.run # NoRun
  BY WatcherAssumption DEF InStep, Running, NoRun
<1>9. CASE Checkout
  <2>1. /\ Running /\ trigger' = trigger
        /\ saved' = [ledger EXCEPT !.state = "validating", !.run.phase = "check"]
    BY <1>9 DEF Checkout, Save, Running
  <2>2. saved'.run.sha = saved.run.sha /\ saved'.blocked = saved.blocked
    BY <2>1, <1>running, <1>types DEF Ledgers
  <2>3. QED
    BY <2>1, <2>2, <1>run, <1>next
<1>10. CASE Validate
  <2>1. /\ Running /\ trigger' = trigger
        /\ saved' = [ledger EXCEPT !.state = "applying", !.run.phase = "apply"]
    BY <1>10 DEF Validate, Save, Running
  <2>2. saved'.run.sha = saved.run.sha /\ saved'.blocked = saved.blocked
    BY <2>1, <1>running, <1>types DEF Ledgers
  <2>3. QED
    BY <2>1, <2>2, <1>run, <1>next
<1>11. CASE Apply
  BY <1>11, <1>same DEF Apply, Running
<1>12. CASE Record
  <2>1. saved' = [ledger EXCEPT !.applied = ledger.desired, !.blocked = NoGate,
             !.pending = IF Kind = "team" THEN NoGate ELSE @,
             !.state = "waiting-for-argocd", !.run.phase = "argocd"]
    BY <1>12 DEF Record, Save
  <2>2. saved'.blocked.sha = NoCommit
    BY <2>1, <1>types DEF Ledgers, NoGate
  <2>3. QED
    BY <2>2 DEF GateInv
<1>13. CASE Await
  <2>1. /\ pc' = "idle"
        /\ saved' = [ledger EXCEPT !.run = NoRun,
                        !.state = IF healthy THEN "synced" ELSE "degraded"]
    BY <1>13 DEF Await, Finish, Save
  <2>2. saved'.run = NoRun
    BY <2>1, <1>types DEF Ledgers
  <2>3. QED
    BY <2>1, <2>2, <1>ends
<1>14. CASE PollFails
  <2>1. PICK s \in {"authentication-required", "degraded"} :
          pc' = "idle" /\ saved' = [Loaded EXCEPT !.state = s]
    BY <1>14, <1>poll DEF PollFails, Finish, Save
  <2>2. saved'.run = NoRun
    BY <2>1, <1>loaded DEF Ledgers
  <2>3. QED
    BY <2>1, <2>2, <1>ends
<1>15. CASE NotReady
  <2>1. pc' = "idle" /\ saved' = [Polled(Loaded, tip) EXCEPT !.state = "degraded"]
    BY <1>15, <1>poll DEF NotReady, Finish, Save
  <2>2. saved'.run = NoRun
    BY <2>1, <1>polled DEF Ledgers
  <2>3. QED
    BY <2>1, <2>2, <1>ends
<1>fails. ASSUME FailRun PROVE GateInv'
  <2>1. /\ pc' = "idle"
        /\ saved' = [ledger EXCEPT !.state = "failed", !.run = NoRun,
                        !.blocked = Again(@, ledger.desired)]
    BY <1>fails DEF FailRun, Finish, Save
  <2>2. saved'.run = NoRun
    BY <2>1, <1>types DEF Ledgers
  <2>3. QED
    BY <2>1, <2>2, <1>ends
<1>16. CASE StepFails
  BY <1>16, <1>fails DEF StepFails
<1>17. CASE ApplyFails
  BY <1>17, <1>fails DEF ApplyFails
<1>18. CASE ApplyPends
  <2>1. /\ pc' = "idle"
        /\ saved' = [ledger EXCEPT !.state = "pending", !.run = NoRun,
             !.blocked = NoGate, !.pending = Again(ledger.pending, ledger.desired)]
    BY <1>18 DEF ApplyPends, Finish, Save
  <2>2. saved'.run = NoRun
    BY <2>1, <1>types DEF Ledgers
  <2>3. QED
    BY <2>1, <2>2, <1>ends
<1>19. CASE UNCHANGED vars
  BY <1>19, <1>same DEF vars
<1>20. QED
  BY <1>1, <1>2, <1>3, <1>4, <1>5, <1>6, <1>7, <1>8, <1>9, <1>10, <1>11, <1>12,
     <1>13, <1>14, <1>15, <1>16, <1>17, <1>18, <1>19
     DEF Next, TickStep, TickFails

\* The step that GateHeld speaks of.
BlockKept ==
  saved.blocked.sha # NoCommit /\ saved'.blocked.sha # saved.blocked.sha =>
    \/ saved'.desired # saved.blocked.sha \/ trigger = "retry"
    \/ saved'.repo # saved.repo

LEMMA BlockStep == IInv /\ [Next]_vars => BlockKept
<1> SUFFICES ASSUME TypeOK, InStep, GateInv, [Next]_vars PROVE BlockKept
  BY DEF IInv
<1>types. /\ saved \in Ledgers /\ tip \in Commits
  BY DEF TypeOK
<1>loaded. Loaded \in Ledgers /\ Loaded.repo = repo
  BY LoadedFacts
<1>polled. /\ Polled(Loaded, tip) \in Ledgers
           /\ Polled(Loaded, tip).repo = repo
           /\ Polled(Loaded, tip).desired = tip
           /\ Loaded.blocked.sha = tip => Polled(Loaded, tip).blocked.sha = tip
  BY <1>loaded, <1>types, LedgerTypes, PolledGuard DEF TypeOK, Gate
<1>poll. pc = "poll" => ledger = Loaded
  BY DEF InStep
\* Nothing but a tick that has polled, or runs, changes the ledger.
<1>1. CASE saved' = saved
  BY <1>1 DEF BlockKept
<1>2. CASE Running
  BY <1>2 DEF GateInv, BlockKept
<1>3. ASSUME saved'.repo = repo, saved'.desired = tip,
             Loaded.blocked.sha = tip => saved'.blocked.sha = tip
      PROVE  BlockKept
  BY <1>3, LoadedBlock DEF BlockKept
<1>4. CASE StandStill
  <2>1. saved' = [Polled(Loaded, tip)
                   EXCEPT !.state = Settled(Polled(Loaded, tip).state)]
    BY <1>4, <1>poll DEF StandStill, Finish, Save
  <2>2. /\ saved'.repo = repo /\ saved'.desired = tip
        /\ saved'.blocked = Polled(Loaded, tip).blocked
    BY <2>1, <1>polled DEF Ledgers
  <2>3. QED
    BY <2>2, <1>polled, <1>3
<1>5. CASE Act
  <2>1. saved' = [Polled(Loaded, tip) EXCEPT !.state = "change-detected",
                    !.run = [sha |-> tip, phase |-> "poll"]]
    BY <1>5, <1>poll DEF Act, Save
  <2>2. /\ saved'.repo = repo /\ saved'.desired = tip
        /\ saved'.blocked = Polled(Loaded, tip).blocked
    BY <2>1, <1>polled DEF Ledgers
  <2>3. QED
    BY <2>2, <1>polled, <1>3
<1>6. CASE NotReady
  <2>1. saved' = [Polled(Loaded, tip) EXCEPT !.state = "degraded"]
    BY <1>6, <1>poll DEF NotReady, Finish, Save
  <2>2. /\ saved'.repo = repo /\ saved'.desired = tip
        /\ saved'.blocked = Polled(Loaded, tip).blocked
    BY <2>1, <1>polled DEF Ledgers
  <2>3. QED
    BY <2>2, <1>polled, <1>3
<1>7. CASE PollFails
  <2>1. PICK s \in {"authentication-required", "degraded"} :
          saved' = [Loaded EXCEPT !.state = s]
    BY <1>7, <1>poll DEF PollFails, Finish, Save
  <2>2. saved'.repo = repo /\ saved'.blocked = Loaded.blocked
    BY <2>1, <1>loaded DEF Ledgers
  <2>3. QED
    BY <2>2, LoadedBlock DEF BlockKept
<1>8. \/ saved' = saved \/ Running
      \/ StandStill \/ Act \/ NotReady \/ PollFails
  BY DEF Next, TickStep, TickFails, Push, Repoint, Start, TimePasses,
         ArgoConverges, Crash, Checkout, Validate, Apply, Record, Await,
         StepFails, ApplyFails, ApplyPends, Running, vars
<1>9. QED
  BY <1>1, <1>2, <1>4, <1>5, <1>6, <1>7, <1>8

-----------------------------------------------------------------------------
(* Synced tells the truth. *)

\* A tick calls a commit synced where it stands still, or after the wait.
LEMMA SyncedStep == IInv /\ SyncedOrHeld /\ [Next]_vars => SyncedOrHeld'
<1> SUFFICES ASSUME IInv, SyncedOrHeld, [Next]_vars PROVE SyncedOrHeld'
  OBVIOUS
<1>types. /\ ledger \in Ledgers /\ saved \in Ledgers /\ tip \in Commits
  BY DEF IInv, TypeOK
<1>same. ASSUME UNCHANGED saved PROVE SyncedOrHeld'
  BY <1>same DEF SyncedOrHeld
<1>other. ASSUME saved'.state # "synced" PROVE SyncedOrHeld'
  BY <1>other DEF SyncedOrHeld
<1>1. CASE StandStill
  <2>1. PICK l : l = Polled(ledger, tip)
    OBVIOUS
  <2>2. l \in Ledgers /\ l.desired = tip
    BY <2>1, <1>types, LedgerTypes, PolledGuard DEF IInv, TypeOK
  <2>3. /\ ~ShouldApply(l, tip)
        /\ saved' = [l EXCEPT !.state = Settled(l.state)]
    BY <1>1, <2>1 DEF StandStill, Finish, Save
  <2>4. tip \in {l.applied, l.blocked.sha, l.pending.sha}
    BY <2>3 DEF ShouldApply
  <2>5. /\ saved'.desired = l.desired /\ saved'.applied = l.applied
        /\ saved'.blocked = l.blocked /\ saved'.pending = l.pending
    BY <2>2, <2>3 DEF Ledgers
  <2>6. QED
    BY <2>2, <2>4, <2>5 DEF SyncedOrHeld
<1>2. CASE Await
  <2>1. ledger = saved /\ saved.applied = saved.desired
    BY <1>2 DEF Await, IInv, InStep, OnceInv
  <2>2. saved' = [ledger EXCEPT !.run = NoRun,
                     !.state = IF healthy THEN "synced" ELSE "degraded"]
    BY <1>2 DEF Await, Finish, Save
  <2>3. saved'.applied = ledger.applied /\ saved'.desired = ledger.desired
    BY <2>2, <1>types DEF Ledgers
  <2>4. QED
    BY <2>1, <2>3 DEF SyncedOrHeld
<1>3. CASE PollFails
  <2>1. \E st \in {"authentication-required", "degraded"} : saved' = [ledger EXCEPT !.state = st]
    BY <1>3 DEF PollFails, Finish, Save
  <2>2. saved'.state # "synced"
    BY <2>1, <1>types DEF Ledgers
  <2>3. QED
    BY <2>2, <1>other
<1>4. CASE Act \/ NotReady
  <2>1. PICK l : l = Polled(ledger, tip)
    OBVIOUS
  <2>2. l \in Ledgers
    BY <2>1, <1>types, LedgerTypes DEF IInv, TypeOK
  <2>3. \/ saved' = [l EXCEPT !.state = "change-detected", !.run = [sha |-> tip, phase |-> "poll"]]
        \/ saved' = [l EXCEPT !.state = "degraded"]
    BY <1>4, <2>1 DEF Act, NotReady, Finish, Save
  <2>4. saved'.state # "synced"
    BY <2>2, <2>3 DEF Ledgers
  <2>5. QED
    BY <2>4, <1>other
<1>5. CASE Checkout \/ Validate \/ Record
  <2>1. \/ saved' = [ledger EXCEPT !.state = "validating", !.run.phase = "check"]
        \/ saved' = [ledger EXCEPT !.state = "applying", !.run.phase = "apply"]
        \/ saved' = [ledger EXCEPT !.applied = ledger.desired, !.blocked = NoGate,
             !.pending = IF Kind = "team" THEN NoGate ELSE @,
             !.state = "waiting-for-argocd", !.run.phase = "argocd"]
    BY <1>5 DEF Checkout, Validate, Record, Save
  <2>2. saved'.state # "synced"
    BY <2>1, <1>types DEF Ledgers
  <2>3. QED
    BY <2>2, <1>other
<1>6. CASE StepFails \/ ApplyFails \/ ApplyPends
  <2>1. \/ saved' = [ledger EXCEPT !.state = "failed", !.run = NoRun,
                        !.blocked = Again(@, ledger.desired)]
        \/ saved' = [ledger EXCEPT !.state = "pending", !.run = NoRun,
             !.blocked = NoGate, !.pending = Again(ledger.pending, ledger.desired)]
    BY <1>6 DEF StepFails, ApplyFails, ApplyPends, FailRun, Finish, Save
  <2>2. saved'.state # "synced"
    BY <2>1, <1>types DEF Ledgers
  <2>3. QED
    BY <2>2, <1>other
<1>7. CASE \/ \E c \in Commits : Push(c)
           \/ \E r \in Repos : Repoint(r)
           \/ \E t \in Triggers : Start(t)
           \/ TimePasses \/ ArgoConverges \/ Crash \/ Apply \/ UNCHANGED vars
  BY <1>7, <1>same DEF Push, Repoint, Start, TimePasses, ArgoConverges, Crash, Apply, vars
<1>8. QED
  BY <1>1, <1>2, <1>3, <1>4, <1>5, <1>6, <1>7 DEF Next, TickStep, TickFails

-----------------------------------------------------------------------------
(* The theorems *)

LEMMA Inductive == Spec => []IInv
<1>1. Init => IInv
  <2>1. Init => SucceededInv
    BY DEF Init, EmptyLedger, SucceededInv, AppliedSucceeded
  <2>2. Init => GateInv
    BY DEF Init, EmptyLedger, GateInv, Running
  <2>3. QED
    BY <2>1, <2>2, TypeInit, InStepInit, OnceInit DEF IInv
<1>2. IInv /\ [Next]_vars => IInv'
  BY TypeStep, InStepStep, OnceStep, SucceededStep, GateStep DEF IInv
<1>3. QED
  BY <1>1, <1>2, PTL DEF Spec

\* Every state of the watcher has the types TypeOK gives: whatever reconcileOnce
\* saves, after a crash too, is a ledger whose commits, phase and counts are sound.
THEOREM TypeCorrect == Spec => []TypeOK
<1>1. IInv => TypeOK
  BY DEF IInv
<1>2. QED
  BY <1>1, Inductive, PTL

\* Whatever fails, is interrupted or moves, no commit is applied a second time
\* by reconcileOnce unless the branch moved, someone asked for it, or it is pending.
THEOREM AppliedOnceKept == Spec => []AppliedOnce
<1>1. IInv => AppliedOnce
  BY DEF IInv, OnceInv
<1>2. QED
  BY <1>1, Inductive, PTL

\* appliedSha of the saved ledger is always a commit whose apply succeeded.
THEOREM AppliedSucceededKept == Spec => []AppliedSucceeded
<1>1. IInv => AppliedSucceeded
  BY DEF IInv, SucceededInv
<1>2. QED
  BY <1>1, Inductive, PTL

\* No step of a tick drops the block of a commit that is still desired, but
\* for `hg reconcile retry` or another repository.
THEOREM BlockHolds == Spec => GateHeld
<1>1. IInv /\ [Next]_vars => [BlockKept]_vars
  BY BlockStep
<1>2. QED
  BY <1>1, Inductive, PTL DEF Spec, GateHeld, BlockKept

\* When reconcileOnce leaves the state at synced, the desired commit is the one
\* applied last, or a block or a pending record tells why it is not.
THEOREM SyncedOrHeldKept == Spec => []SyncedOrHeld
<1>1. Init => SyncedOrHeld
  BY DEF Init, EmptyLedger, SyncedOrHeld
<1>2. IInv /\ SyncedOrHeld /\ [Next]_vars => SyncedOrHeld'
  BY SyncedStep
<1>3. QED
  BY <1>1, <1>2, Inductive, PTL DEF Spec
=============================================================================
