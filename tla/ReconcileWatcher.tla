---------------------------- MODULE ReconcileWatcher ----------------------------
(***************************************************************************)
(* The reconcile watcher of a destination host: one tick of                *)
(* `hg reconcile run`, `sync` or `retry`, from the poll of the branch over *)
(* checkout, checks and apply to the wait for Argo CD, with the ledger it  *)
(* saves on the way and repairs after a process that died.                 *)
(*                                                                         *)
(* One tick runs at a time (flock, released by the kernel); a tick that    *)
(* finds the lock held changes nothing.  The branch may move during a      *)
(* tick.  Commands run outside the process: an apply may have happened,    *)
(* in part or whole, when the process dies before it saves that.           *)
(***************************************************************************)
EXTENDS Naturals

CONSTANTS
  Commits,
  NoCommit,    \* an sha that is not set
  Partial,     \* what an apply that did not succeed leaves deployed
  Repos,       \* repository and branch the configuration may name
  Kind,        \* "command", or "team": `hg team resume`, which may be pending
  Triggers,    \* who starts ticks: "timer", "sync", "retry"
  BackoffCap,  \* PENDING_BACKOFF.capSeconds, in baseSeconds
  Faults,      \* what may go wrong
  MaxFaults,   \* how often, all kinds together
  MaxPushes    \* how often the branch moves

ASSUME WatcherAssumption ==
  /\ NoCommit \notin Commits /\ Partial \notin Commits
  /\ Kind \in {"command", "team"}
  /\ Triggers \subseteq {"timer", "sync", "retry"}
  /\ BackoffCap \in Nat \ {0}
  /\ Faults \subseteq {"crash", "poll", "argo", "git", "check", "apply",
                       "pending", "repoint"}
  /\ MaxFaults \in Nat /\ MaxPushes \in Nat

VARIABLES
  repo, tip,   \* the configured repository and the head of its branch
  saved,       \* the ledger on disk
  ledger,      \* the ledger of the running tick
  pc, trigger, \* where the tick is and what started it
  backoff,     \* time left until pending.nextAttemptAt
  deployed,    \* what the last apply left
  healthy,     \* do all Applications report Synced and Healthy
  ran,         \* unasked applies of each commit since the branch moved or
               \* someone asked, the succeeded ones, and the bounds
  succeeded, pushes, faults

world == <<repo, tip, deployed, healthy, backoff>>
obs   == <<ran, succeeded, pushes>>
vars  == <<world, saved, ledger, pc, trigger, obs, faults>>

-----------------------------------------------------------------------------
NoRun  == [sha |-> NoCommit, phase |-> "none"]
NoGate == [sha |-> NoCommit, attempts |-> 0]

EmptyLedger(r) ==
  [repo |-> r, state |-> "change-detected", desired |-> NoCommit,
   applied |-> NoCommit, run |-> NoRun, blocked |-> NoGate, pending |-> NoGate]

\* One attempt more on the gate g of commit c.
Again(g, c) ==
  [sha |-> c, attempts |-> (IF g.sha = c THEN g.attempts ELSE 0) + 1]

\* Mutant: the delay is not capped.
pendingBackoffUncapped(attempts) == 2^(attempts - 1)

\* min(cap, base * 2^(attempts - 1)), the base being one unit of time.
pendingBackoff(attempts) ==
  LET steps == 2^(attempts - 1)
  IN IF steps \in 0..BackoffCap THEN steps ELSE BackoffCap

\* Mutant: an interrupted run is forgotten.
RecoverForgetting(l) == [l EXCEPT !.run = NoRun]

\* recoverLedger: a run without a result died; the wait for Argo CD comes
\* after a successful apply and does not block the commit.
Recover(l) ==
  IF l.run = NoRun THEN l
  ELSE IF l.run.phase = "argocd" /\ l.applied = l.run.sha
  THEN [l EXCEPT !.state = "degraded", !.run = NoRun]
  ELSE [l EXCEPT !.state = "failed", !.run = NoRun,
                 !.blocked = Again(l.blocked, l.run.sha)]

\* What a tick starts from: a ledger of another repository or branch is void.
Loaded == IF saved.repo = repo THEN Recover(saved) ELSE EmptyLedger(repo)

\* A gate of another commit than the desired one clears itself.
Gate(g, c) == IF g.sha = c THEN g ELSE NoGate

Polled(l, c) ==
  [l EXCEPT !.desired = c, !.blocked = Gate(@, c), !.pending = Gate(@, c)]

\* Mutant: an operator's sync passes the block, not only a retry.
ShouldApplySyncing(l, c) ==
  \/ trigger # "timer"
  \/ /\ l.blocked.sha # c
     /\ IF l.pending.sha = c THEN backoff = 0 ELSE c # l.applied

\* Mutant: a pending commit that is due is not different from the applied.
ShouldApplyDifferent(l, c) ==
  \/ trigger = "retry"
  \/ l.blocked.sha # c /\ l.pending.sha # c /\ (c # l.applied \/ trigger = "sync")

\* Mutant: a commit is new if it is not the one the last poll saw.
ShouldApplySeen(l, c) ==
  \/ trigger = "retry"
  \/ /\ l.blocked.sha # c
     /\ \/ trigger = "sync"
        \/ IF l.pending.sha = c THEN backoff = 0 ELSE c # ledger.desired

ShouldApply(l, c) ==
  \/ trigger = "retry"
  \/ /\ l.blocked.sha # c
     /\ \/ trigger = "sync"
        \/ IF l.pending.sha = c THEN backoff = 0 ELSE c # l.applied

Init ==
  /\ repo \in Repos /\ tip \in Commits
  /\ saved = EmptyLedger(repo) /\ ledger = EmptyLedger(repo)
  /\ pc = "idle" /\ trigger = "timer" /\ backoff = 0
  /\ deployed = NoCommit /\ healthy = TRUE
  /\ ran = [c \in Commits |-> 0] /\ succeeded = {}
  /\ pushes = 0 /\ faults = 0

Fault(kind) == kind \in Faults /\ faults < MaxFaults /\ faults' = faults + 1

Reset == ran' = [c \in Commits |-> 0]

-----------------------------------------------------------------------------
(* Around the tick *)

Push(c) ==
  /\ c # tip /\ pushes < MaxPushes /\ pushes' = pushes + 1
  /\ tip' = c /\ Reset
  /\ UNCHANGED <<repo, deployed, healthy, backoff, saved, ledger, pc, trigger,
                 succeeded, faults>>

\* `hg reconcile install` with another repository or branch.
Repoint(r) ==
  /\ r # repo /\ pc = "idle" /\ Fault("repoint")
  /\ repo' = r /\ tip' \in Commits /\ Reset
  /\ UNCHANGED <<deployed, healthy, backoff, saved, ledger, pc, trigger,
                 succeeded, pushes>>

TimePasses ==
  /\ backoff > 0 /\ backoff' = backoff - 1
  /\ UNCHANGED <<repo, tip, deployed, healthy, saved, ledger, pc, trigger, obs,
                 faults>>

ArgoConverges ==
  /\ ~healthy /\ healthy' = TRUE
  /\ UNCHANGED <<repo, tip, deployed, backoff, saved, ledger, pc, trigger, obs,
                 faults>>

\* The host, or systemd's timeout, ends the process; an apply may be cut.
Crash ==
  /\ pc # "idle" /\ Fault("crash")
  /\ pc' = "idle" /\ ledger' = saved
  /\ deployed' \in IF pc = "apply" THEN {deployed, Partial} ELSE {deployed}
  /\ UNCHANGED <<repo, tip, healthy, backoff, saved, trigger, obs>>

-----------------------------------------------------------------------------
(* The tick *)

Start(t) ==
  /\ pc = "idle" /\ pc' = "poll" /\ trigger' = t
  /\ ledger' = Loaded
  /\ IF t = "timer" THEN UNCHANGED ran ELSE Reset
  /\ UNCHANGED <<world, saved, succeeded, pushes, faults>>

Save(l, label) == saved' = l /\ ledger' = l /\ pc' = label

Finish(l) == Save(l, "idle")

\* failRun: the desired commit is blocked.
FailRun ==
  Finish([ledger EXCEPT !.state = "failed", !.run = NoRun,
                        !.blocked = Again(@, ledger.desired)])

PollFails ==
  /\ pc = "poll" /\ Fault("poll")
  /\ \E s \in {"authentication-required", "degraded"} :
       Finish([ledger EXCEPT !.state = s])
  /\ UNCHANGED <<world, trigger, obs>>

\* Nothing to do: the state is settled, and a degraded one looked at again.
Settled(s) ==
  IF s \in {"failed", "pending"} THEN s
  ELSE IF s = "degraded" /\ ~healthy THEN "degraded" ELSE "synced"

StandStill ==
  /\ pc = "poll"
  /\ LET l == Polled(ledger, tip)
     IN ~ShouldApply(l, tip) /\ Finish([l EXCEPT !.state = Settled(@)])
  /\ UNCHANGED <<world, trigger, obs, faults>>

Act ==
  /\ pc = "poll"
  /\ LET l == Polled(ledger, tip)
     IN /\ ShouldApply(l, tip)
        /\ Save([l EXCEPT !.state = "change-detected",
                          !.run = [sha |-> tip, phase |-> "poll"]], "checkout")
  /\ UNCHANGED <<world, trigger, obs, faults>>

\* argocdReady says no before anything is touched.
NotReady ==
  /\ pc = "poll" /\ Fault("argo")
  /\ LET l == Polled(ledger, tip)
     IN ShouldApply(l, tip) /\ Finish([l EXCEPT !.state = "degraded"])
  /\ UNCHANGED <<world, trigger, obs>>

Checkout ==
  /\ pc = "checkout"
  /\ Save([ledger EXCEPT !.state = "validating", !.run.phase = "check"], "check")
  /\ UNCHANGED <<world, trigger, obs, faults>>

\* Mutant: appliedSha advances before the command runs.
ValidateApplied ==
  /\ pc = "check"
  /\ Save([ledger EXCEPT !.state = "applying", !.run.phase = "apply",
                         !.applied = ledger.desired], "apply")
  /\ ran' = [ran EXCEPT ![ledger.desired] = @ + 1]
  /\ UNCHANGED <<world, trigger, succeeded, pushes, faults>>

\* The checks passed: the apply command starts.
Validate ==
  /\ pc = "check"
  /\ Save([ledger EXCEPT !.state = "applying", !.run.phase = "apply"], "apply")
  /\ ran' = [ran EXCEPT ![ledger.desired] = @ + 1]
  /\ UNCHANGED <<world, trigger, succeeded, pushes, faults>>

StepFails ==
  /\ \/ pc = "checkout" /\ Fault("git")
     \/ pc = "check" /\ Fault("check")
  /\ FailRun
  /\ UNCHANGED <<world, trigger, obs>>

\* The command succeeds; Argo CD may not have noticed yet.
Apply ==
  /\ pc = "apply" /\ pc' = "record"
  /\ deployed' = ledger.desired
  /\ succeeded' = succeeded \cup {ledger.desired}
  /\ healthy' \in {healthy, FALSE}
  /\ UNCHANGED <<repo, tip, backoff, saved, ledger, trigger, ran, pushes, faults>>

ApplyFails ==
  /\ pc = "apply" /\ Fault("apply")
  /\ deployed' \in {deployed, Partial}
  /\ FailRun
  /\ UNCHANGED <<repo, tip, healthy, backoff, trigger, obs>>

\* Exit 75 of `hg team resume --unattended`.
ApplyPends ==
  /\ pc = "apply" /\ Kind = "team" /\ Fault("pending")
  /\ deployed' \in {deployed, Partial}
  /\ LET pending == Again(ledger.pending, ledger.desired)
     IN /\ Finish([ledger EXCEPT !.state = "pending", !.run = NoRun,
                                 !.blocked = NoGate, !.pending = pending])
        /\ backoff' = pendingBackoff(pending.attempts)
  /\ ran' = [ran EXCEPT ![ledger.desired] = 0]
  /\ UNCHANGED <<repo, tip, healthy, trigger, succeeded, pushes>>

\* The ledger learns of the successful apply before the wait.
Record ==
  /\ pc = "record"
  /\ Save([ledger EXCEPT !.applied = ledger.desired, !.blocked = NoGate,
             !.pending = IF Kind = "team" THEN NoGate ELSE @,
             !.state = "waiting-for-argocd", !.run.phase = "argocd"], "wait")
  /\ UNCHANGED <<world, trigger, obs, faults>>

\* Converged, or the wait timed out.
Await ==
  /\ pc = "wait"
  /\ Finish([ledger EXCEPT !.run = NoRun,
                           !.state = IF healthy THEN "synced" ELSE "degraded"])
  /\ UNCHANGED <<world, trigger, obs, faults>>

TickStep == StandStill \/ Act \/ Checkout \/ Validate \/ Apply \/ Record \/ Await

TickFails == PollFails \/ NotReady \/ StepFails \/ ApplyFails \/ ApplyPends

Next ==
  \/ \E c \in Commits : Push(c)
  \/ \E r \in Repos : Repoint(r)
  \/ \E t \in Triggers : Start(t)
  \/ TimePasses \/ ArgoConverges \/ Crash
  \/ TickStep \/ TickFails

Spec == Init /\ [][Next]_vars

\* systemd fires the timer again after every tick, commands end or are
\* killed, and Argo CD converges on what was applied.
FairSpec ==
  /\ Spec
  /\ WF_vars(\E t \in Triggers : Start(t)) /\ WF_vars(TickStep)
  /\ WF_vars(TimePasses) /\ WF_vars(ArgoConverges)

-----------------------------------------------------------------------------
(* Properties *)

States == {"synced", "change-detected", "validating", "applying",
           "waiting-for-argocd", "degraded", "failed", "pending",
           "authentication-required"}

Shas == Commits \cup {NoCommit}

Gates == [sha : Shas, attempts : Nat]

Ledgers ==
  [repo : Repos, state : States, desired : Shas, applied : Shas,
   run : [sha : Shas, phase : {"none", "poll", "check", "apply", "argocd"}],
   blocked : Gates, pending : Gates]

TypeOK ==
  /\ repo \in Repos /\ tip \in Commits
  /\ saved \in Ledgers /\ ledger \in Ledgers
  /\ pc \in {"idle", "poll", "checkout", "check", "apply", "record", "wait"}
  /\ trigger \in {"timer", "sync", "retry"} /\ backoff \in 0..BackoffCap
  /\ deployed \in Shas \cup {Partial} /\ healthy \in BOOLEAN
  /\ ran \in [Commits -> Nat] /\ succeeded \subseteq Commits
  /\ pushes \in 0..MaxPushes /\ faults \in 0..MaxFaults

\* "A failed commit is never re-attempted until the desired SHA changes or an
\* operator runs retry": left alone, no commit is applied twice, whichever
\* phase failed or was interrupted; only a pending one is tried again.
AppliedOnce == \A c \in Commits : ran[c] <= 1

\* "The last commit applied SUCCESSFULLY. A failed apply never advances it",
\* also when the process died somewhere in between.
AppliedSucceeded == saved.applied # NoCommit => saved.applied \in succeeded

\* A block ends only when the branch moved, a retry was asked for, or the
\* watcher was pointed elsewhere; sync does not pass it.
GateHeld ==
  [][saved.blocked.sha # NoCommit /\ saved'.blocked.sha # saved.blocked.sha =>
       \/ saved'.desired # saved.blocked.sha \/ trigger = "retry"
       \/ saved'.repo # saved.repo]_vars

\* A tick that finds nothing to do and calls that synced is right: the desired
\* commit is the applied one, or a gate holds it (after a failed poll the state
\* no longer tells).
SyncedOrHeld ==
  saved.state = "synced" =>
    saved.desired \in {saved.applied, saved.blocked.sha, saved.pending.sha}

\* Every commit the branch stays at is in the end applied or blocked, waits
\* for a decision included: "a pending record nothing could ever retry is a
\* stall".
Decided ==
  \A c \in Commits :
    tip = c ~> \/ tip # c
               \/ saved.desired = c /\ saved.blocked.sha = c
               \/ saved.desired = c /\ saved.applied = c /\ saved.pending.sha # c
=============================================================================
