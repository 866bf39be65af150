# A verification project for harness-hg

harness-hg runs teams of AI agents on Kubernetes from Git. Its own logic sits in a
few places that keep state across failures: the event router that carries events
between agents, the reconcile watcher that applies a Git branch to a host, the team
installer, the script that serves workspaces to agents, the skills installer, and the
Nexus document with its editor. The rest renders manifests, calls other tools, or
reads and reports.

This directory holds TLA+ modules of that logic, TLC configurations that check
them on small instances, and TLAPS proofs. Paths are relative to the repository root.

## Inventory

| Component | State it keeps | Operations | Interacts with | Hard behaviour |
|---|---|---|---|---|
| Event router, ingest (`control-plane/event-router/chart/files/router.ts` 224-313, 805-876, 1125-1443) | replay guards in memory | `POST /v1/events`, `/v1/hooks`, `/v1/connect`, `fanOut` | producers and webhook senders; Redis streams; agents, directly | concurrent requests, partial fan-out, redelivery, eviction, restart |
| Event router, business outcomes (`router.ts` 465-557) | Redis markers, a window and counters in memory | `recordBusinessOutcome` | every post to `/v1/events` | awaits between two windows that can disagree, late commands, outages |
| Event router, delivery worker (`router.ts` 878-1114, 1466-1490) | Redis stream, pending entries, dead letters, done markers; blocked keys and promise chains in memory | claim, read, attempt, retry, park, acknowledge, replay | Redis, agents, overlapping routers during a rollout | crashes between any two commands, lost replies, reclaim, ordering, poison messages |
| Reconcile watcher (`cli/src/reconcile/index.ts` 140-290, 577-617, 700-1007) | ledger on disk, lock, checkout | ticks of the timer, `sync`, `retry` | Git forge, the apply command, Argo CD | process death with an apply outside of it, failed polls, moving branch, pending decisions |
| Team install (`cli/src/team/command.ts`, `ledger.ts`, `inputs.ts`) | stage ledger, proofs, acceptance evidence, lock | `apply`, `resume`, `publish`, probes of 8 stages | watcher (exit 75 = pending), publication, cluster | crash between stages, decisions on the last run's record, outside changes |
| Team publication (`publisher.ts`, `recovery.ts`) | branches and pull requests on the forge | push, open, merge, receipts | forge, reviewers | lost replies, reused branches |
| Workspace sync (`harness/eve/charts/eve-agent/files/workspace-sync.sh`, `boot.sh`) | revisions, live link, stamps, history | `once`, `loop`, pin | the agent reads and edits the live tree | crash between switch and stamp, rewritten history, pruning, rebinding |
| Nexus document (`control-plane/nexus/plugin_api.py` 6119-6145, `nexus-ui/src/stores/document.ts`) | a JSON document with a revision; undo stacks in tabs | load, edit, undo, save, adopt, overwrite, reset | several browser tabs, a thread pool | compare and write in two steps, lost answers, edits during a save |
| Skills installation (`cli/src/skills/install.ts`) | approvals, packages, lock, journal | approve, install, roll back, recover | agent project, its editors | crash between any two steps, local modifications |
| Backup and restore (`cli/src/backup/routines.ts`) | artifacts, Argo CD's auto-sync flags | back up, restore | Argo CD, cluster | crash while auto-sync is paused |
| GitOps emitter (`plugin/gitops_emitter`) | none besides the GitOps repository | render, commit, push with one rebase | forge, other emitters | concurrent pushes |
| Communication lifecycle, CLI front door, provisioning commands | none, or one record | one-shot sequences | external tools | failures in the middle |
| Control-plane and harness charts, infrastructure, contracts, documentation | none in a program of this repository | - | - | - |

What makes each correct:

- *Router*: an accepted event is never lost; it is carried out once but for failures;
  events of one key are carried out in order; every event is settled in the end; one
  edge's failure leaves the others alone; a replay is refused only when
  another request of the delivery was let past; an outcome is counted once per id and an id that drifts is reported.
- *Watcher*: a commit that failed is not applied again unasked; `appliedSha` names a
  commit whose apply succeeded; a block ends only by a push or a retry; a crash while
  waiting for Argo CD blocks nothing; every desired commit is decided in the end;
  `synced` is never said of a commit that is neither applied nor held by a gate.
- *Team install and publication*: complete means installed, also after a crash and by a
  skip; the acceptance scenario, which writes, passes once per input unless its evidence was
  lost or the credentials changed; a commit without agent inputs rolls nothing out; the desired commit is installed in the end.
- *Workspace sync*: there is always a tree once there was one; it is a commit its branch
  had, and within a branch moves only forward; the stamp tells of the tree served; old
  revisions go; the tip is served in the end, or its refusal is seen.
- *Nexus document*: no save overwrites what its tab has not seen, none is refused
  without a reason, `saved` means that the server holds the shown document, and edits
  reach the server in the end.
- *Skills*: packages and lock change together or not at all, and a local modification
  is never overwritten.
- *Backup, emitter*: auto-sync resumed; no concurrent commit dropped.

The hazards this list is drawn from are in `PROJECT.json`, each at its line.

## Modules

| Module | Models |
|---|---|
| `RouterQueue` | one queued edge: stream, group, worker loop, promise chains, markers, dead letters, replay, for any number of overlapping routers |
| `EventLifecycle` | abstract: what a queued edge promises per event (absent, queued, delivered, dead) |
| `RouterIngest` | how requests pass the replay guards and fan out over the edges |
| `BusinessOutcomes` | `recordBusinessOutcome` for concurrent posts |
| `ReconcileWatcher` | ticks of the watcher with its ledger, gates and recovery |
| `TeamInstall` | runs of `apply`, `resume` and `publish` over the stages, with the destination, the forge and the cluster around them |
| `WorkspaceSync` | one workspace on its claim: `boot.sh` for a pinned and `workspace-sync.sh` for a tracked binding |
| `ServedTree` | abstract: what a reader of a tracked workspace is promised |
| `SkillsInstall` | approval, installation under the journal, roll back, recovery |
| `AtomicInstall` | abstract: packages and lock change at once |
| `WorkspaceDocument` | the document on the server and the tabs that edit copies of it |
| `MC*` | constants of the small instances |
| `*_proofs` | theorems about the module they are named after |

Operators named in `PROJECT.json` as mutants (`SaveOwn`, `CarriedComplete`, ...) stand
beside the definition they would replace and are used by no specification; each is a
plausible bug that makes the property it is paired with fail.

### RouterQueue

`log`, `lastRead`, `idle` and `dlq` are the Redis stream, the group's last-delivered
id, its pending list and the dead-letter stream; `done` holds the events with a done
marker. Both streams share one sequence, so an entry's id is its position in it.
`up`, `loop`, `batch`, `claimCursor`, `blockedKeys`, `task` and `replay` are the memory
of a router process, and `Crash` clears them. `task[r][n].ahead` are the entries before
`n` in the promise chain of its key: an entry acts when none is left (`At`).

Between two awaits the code runs alone, so an action is what happens up to the next
await. A claim or a read and the enqueueing of its reply are therefore separate, and a
delivery, the marker and the acknowledgement are three actions. A command can be
rejected (`CommandLost`, `LoopFails`, `ReplayFails`), carried out or not before that, or
stay unanswered for ever where it is sent without a timeout (`NoReply`); a destination
can carry an event out and lose the answer. Time is `idle`: `Tick` lets pending entries
age up to `MinIdle`, the 5000 ms of XAUTOCLAIM.

Left out: formats, CEL filters, backoff delays between attempts (an attempt may happen
at any later time), metrics. One edge is modelled, since edges share no state but the
process. `effects` counts what destinations carried out, and `faults` and `replays`
bound what goes wrong.

`EventLifecycle` is refined by `RouterQueue` with `status` computed from `log`, the
pending list, `dlq` and `effects`. `FairSpec` there asks that what is queued is settled.

### RouterIngest

A request is a program counter `at` with the edge its fan-out has reached. Requests
interleave at every await. `seenSignatures` and `seenDeliveries` are the guards, which
forget everything when full or restarted; `wipes` counts that. An edge is queued,
direct or filtered. `carried` and `forwarded` count what reached an edge or an agent,
`outages` how often Redis or an agent gave no answer. An answer of the agent, an error of
its own included (`upstream`), goes back as it is, and the guard has remembered the
delivery before. Which path each delivery takes,
whether it is acceptable, and whether there is a Redis, are chosen in `Init` and never
change, so one run covers all of them.

### BusinessOutcomes

`bizseen` and `bizsubj` are the Redis keys, `seen` the window in memory, `late` the
commands that timed out and may still be carried out. The counter itself is in memory
in the code; `counted` observes it across restarts. `durable` is chosen in `Init`.
`faults` are the answers Redis did not give and the keys that expired, `restarts` and
`evictions` what the window in memory lost: `OvercountPaid` says which of them a count
too many costs, and that with Redis a restart is not among them. `UncountedExcused`
excuses restarts: between `SET NX` and the count a crash loses the outcome, and the code
makes no claim for that case.

### ReconcileWatcher

`saved` is the ledger on disk and `ledger` the one a tick works on; they differ only
while recovery or a poll has changed what is not saved yet. One tick runs at a time
(`flock`), so `pc` is one program counter. `deployed`, `healthy`, `repo` and `tip` are the
world: what the last apply left, whether Argo CD calls it converged, and the configured
branch and its head. The branch may move at any step. `Crash` drops the tick at any
point, an apply in the middle included; the next `Start` repairs the ledger
(`recoverLedger`). `backoff` is the time to the next attempt of a pending commit in units
of the base delay. `ran` and `succeeded` observe the apply commands.

Left out: the credentials, the units, the log, what a check prints. The checkout of a
commit is one step that may fail.

### TeamInstall

`ledger` is the file of the installation, `prior` what the run read of it before it
withdrew `complete`, and `mem` what `executeStages` works on; `Save` writes it out after
every change, as the code does. `proofs` and `evidence` are the other files, by the input
they speak of. An `input` is what the ledger's hash tells apart: the effective commit and,
under a version 2 plan (`Locked`), the commit the lock names. `Resolve` is
`decideSource`, `Skip` is `skipReason` with its effect, and the loop over the stages is
`Keep` (a passed stage is probed and still holds), `ProbeThrows`, `Redo` (the stage and
all after it are forgotten) and `Apply`/`Accept` with a `Verdict`. `published` is done by
`publishProjection`, whose steps on the forge (`CloneChanged`, `Open`, `Merge`...) are
actions of their own, since `hg team publish` runs them too, a reviewer merges between
them, and a reply may be lost. The stages' own work is one step each.

`dest`, `heads`, `cluster` and `stack` are the destination branch, the branches of the
contents with the base each was cut from, what Argo CD rolled out, and the credentials the
bootstrap stack holds. `creds` are the credentials the environment has and `held` those a
run started with (`credentialFingerprint` reads the environment of the process, which does
not change under it); proofs, evidence and the record of what was applied carry the
credentials they were made with, so that after a `Rotate` the runtime is proved again,
nothing is skipped, and acceptance runs again. The rotated credentials are among those the
stack holds. `Accept` passes, and `AcceptKept` writes the evidence; in between the run may
die or the write fail, and the answer of the scenario may be lost (`AcceptLost`):
`unkept` counts the passes without evidence and `rotated` the rotations. An evidence file
that was cut off while it was written is not modelled. `moved` observes what others changed since a run last looked; the properties
excuse exactly that. `flock` gives one run at a time, so `pc` is one program counter.

### WorkspaceSync

The claim's files are variables of their own: `path` (nothing, a checkout, a link to a
revision), `revs`, `writable`, the three stamps and `history`. `s` holds the variables of
`sync_one`. Each command of the script that changes what the agent, `hg workspace verify`
or the next attempt can see is an action, from `Begin` to `Prune`; a removal and a clone
can be cut in half (`Crash`). `sync_fail` is `Failed` and part of every failing
action. The parts of `Record` (the access, the sha, the marker) may each fail; the script
goes on and stamps success all the same, and `undone` remembers which failed in the last
record. What `sync_fail` writes, and the writes of the history and the removals of the
prune, are taken to succeed. `boot.sh` is `PinStart` to `PinStamp` for a pinned binding, and runs the same
attempt as the loop for a tracked one. `Push`, `Edit` and `Restart` are the remote, the
agent and the operator who declares another binding.

`ServedTree` is refined with `tree <- LiveSha`, `declared <- binding.branch`,
`branch <- from`: every step of the script, its failures and crashes included, moves the
tree forward on its branch, to another declared branch, or not at all. A record that was
cut off is forgiven there, because the script then takes the declared branch for the one
the tree came from.

### SkillsInstall

A package is the content a review gives it, `Absent`, `Edited` or `Torn` (cut off in
the middle); `journal` is the file and the transaction directory it names. `Swap`,
`Locks`, `Verify` and `Unlink` are the loop, the lock, the check and the point where the
installation counts. `JournalFails` and `Fails` enter the `catch`: a write of the journal that fails may
leave no file, a torn one or the whole, and while there is one the packages are put back.
`Restore` to `Recovered` are the way back, there from what the process remembers of its
backups and at the start of the next installation (`recoverInstall`) from the journal;
`RestoreFails` leaves the rest to the next installation. `Crash` may tear
the package, the lock or the journal at hand. `Edit` is a person at the tree, at any
moment.

`AtomicInstall` is refined with what may be relied on: under a journal its backups, else
the tree (`Kept`, `KeptLock`). While a run rolls back under a journal it could not write
(not `Guarded`), that is the memory of the run; dying or failing again there may tear one
package or the lock, and the abstract machine has a step for exactly this (`Damage`). A modification made while an installation is under way may
survive or be lost (`amid`), one made before is never overwritten.

### WorkspaceDocument

`file` is the document with the number of the write it is of (the code has only its
revision; the number tells two documents of one revision apart). A `tab` is the store:
document, undo and redo stacks, the revision of the ref, the save state, the conflict
offered; `knows` and `offered` are the writes its revisions stand for. A save is a record
in `puts` that is compared, written and answered in three steps, as `put_workspace` runs
in a thread pool; it can fail for the tab before or after each of them (`heard`). A
read is in `gets`. `Reset` is the owner's. `outdated` are the writes that were stored and
replaced when a save was last written over one it was not compared with, or a reset came.

## Runs and bounds

`CHECK_DEADLOCK FALSE` is said where requests, posts or edits run out and the system
rests, or where a binding is pinned and nothing is left to do.

| Run | Bounds | States | Shows |
|---|---|---|---|
| `queue_faults` | 3 events of 2 keys, block policy, 2 attempts, replies of 2, 1 fault of 5 kinds | 1,067,968 | repeated effects are paid for by faults; order within a key until a fault; the entries of a key never run two at a time |
| `queue_replay` | 1 event, dead-letter policy, 1 replay, 1 crash, Redis fault or lost response, fair | 102,500 | custody, settling and the live lifecycle through a replay |
| `queue_overlap` | 2 routers, 1 event, no ordering, 2 faults | 60,795 | overlapping processes lose nothing, and each step moves one event along its lifecycle, or none |
| `ingest_faults` | 3 requests of 2 deliveries on any path, 3 edges, guards of 1 key, 2 faults | 191,236 | accepted means carried by every queued edge; guards admit once per memory; edges are independent while Redis answers; a refused replay was preceded by one that was let past |
| `outcomes_faults` | 5 posts of 3 ids, window of 2, 2 faults | 71,414 | overcounts paid, undercounts excused, drift reported |
| `watcher_faults` | 2 commits, 2 repositories, 1 push, 3 faults of 8 kinds, all triggers, fair | 289,012 | no unasked second apply; applied succeeded; blocks hold; `synced` only of an applied commit or one a gate holds; every desired commit is decided |
| `sync_faults` | 3 commits in a line, 2 branches, 4 bindings, 2 pushes in any direction, 1 edit, 1 restart, 1 fault (any part of a record included), 2 revisions kept, fair | 1,264,664 | the tree is whole, committed and a step of the promise; the stamp tells of it, and a success repairs access, sha and marker; revisions stay few; the tip is served in the end, or verify says why not |
| `install_faults` | 3 commits (one changes only content, one agents), 1 release, 1 apply or publish by hand, 2 credentials, 1 drift or rotation, 1 fault of 7 kinds, hand merges, fair | 1,470,471 | complete means installed with the accepted credentials; acceptance once per input, rotation and lost evidence; content rolls nothing; the desired commit is installed |
| `skills_faults` | 2 skills, 2 reviews, 3 approvals, 2 edits, 3 crashes or failures, fair | 126,281 | atomic to a reader, but for a failed journal whose rollback is cut off; edits kept; an approved review is installed |
| `document_tabs` | 2 tabs, one still loading and one with an undone edit, 2 edits, 1 lost request or reset, fair | 341,402 | accepted saves knew what they were compared with, outdated tabs excused; refused ones are stale; saved is confirmed; edits are stored in the end |

Why the bounds are enough to see what matters: two entries of one key are the least
that can be out of order, and the third in `queue_faults` gives a second key to
interleave. Two faults allow a fault during the recovery from the first; where a run has
one, restarts, pushes, hand merges or runs by hand come on top of it, so that a crash
meets a moved world, and `skills_faults` has three because the recovery of a recovery is
where a journal can fail. A guard of one entry or a window smaller than the ids is at its
limit at once; two kept revisions of three commits prune at once. In `sync_faults` a push
may go back on the line, which rewrites history. The three commits of `install_faults` are
the least with a carried and a rolled out release of the same history; 3 merge retries,
the code's number, are reached by `tries` within a run only with more faults than one,
so that path ends at the first. The tabs of `document_tabs` start in different states
because an edit budget of two would not reach an undone save and a conflict in one
behaviour. The three ordering policies and both kinds of exhausted entry occur among the
queue's runs.

Two runs expect a violation: a comment says more than the code does (`findings` in
`PROJECT.json` quotes it).

- `queue_blocked_group`: a blocked group is not retried before the process restarts
  (`router.ts:903` against its comment at 905).
- `document_midflight`: an edit made while a save is under way leaves the tab in
  `saving` once the save is answered: the handler sends `edited` (`document.ts:322`),
  which from `saving` stays `saving` (222), and no Save button is shown. `EventuallySaved`
  excuses a tab that is `Stuck` in this way.

## Divergences

What else the code does beside what a comment or a document says, met while modelling.
The passing properties state what does hold.

- *Order after a restart*: a restarted router reads new entries of a key before it may
  claim those the dead one left, since XAUTOCLAIM waits 5000 ms (`router.ts:1068` against
  878); a rejected command has the same effect (1000). `FifoUnlessFault` is what holds.
- *Outcomes*: "must degrade to the old behaviour" (`router.ts:494-495`): a drift check
  that fails drops an outcome whose id was already marked (529), and an id counted in
  memory during an outage is fresh to Redis afterwards. `UncountedExcused` and
  `OvercountPaid` say when.
- *Fan-out*: a failed XADD takes the later edges with it, and the redelivery is refused
  as a replay (`router.ts:840`, 1381), although "an already-seen signature is a replay, not a
  retry" (1367); so is the redelivery of an event that the agent answered with an error of
  its own (301-307). `EdgesKept` excuses the first, and `ReplayWasAdmitted` says only that
  the other request got past the guard.
- *Replay*: a dead letter can be replayed after its entry was delivered late
  (`router.ts:1484`); the event is then carried out twice.
- *Watcher's state*: after a failed poll the watcher calls a blocked commit `synced`, since
  only three of the states are kept (`reconcile/index.ts:761`); `failed` outlives its
  block when the branch is forced back (756-761), and `degraded` is also said of commits
  never applied (744, 776), against `_docs/wiki/reference/contracts/runtime-overlay.md:131`.
- *Unavailable*: "Only a workspace with no tree at all gets the .unavailable marker"
  (`workspace-sync.sh:35-36`); a checkout left by a pinned binding is no link, so a failed
  first attempt of the tracked binding marks it unavailable while it is served (153-154).
- *Rolling back*: "Rolling back an installation is reverting the lock commit"
  (`_docs/adr/0190-locked-installation-revisions.md:20`). The branch of a content is named
  after it and used again (`publisher.ts:162-178`): where the forge keeps merged branches,
  publishing an earlier content finds its merged branch, and no pull request can be opened
  for it. `EventuallyInstalled` is checked with a forge that deletes them.
- *Content-only commits*: they are "applied without a rollout and without acceptance"
  (`_docs/adr/0198-content-only-commits.md:8-9`). Under a version 2 plan the lock is part of
  the input, so no such commit is skipped: every stage is probed and acceptance runs again.
- *Saves*: "a stale tab can NEVER silently overwrite" (`plugin_api.py:6129`;
  `_docs/wiki/reference/configuration.md:84`). The comparison and the write are two steps of a
  handler that runs in a thread pool, so two saves of one revision may both be accepted; a
  reset starts revisions again, so a tab from before can meet its number once more; and a
  tab that never loaded shows the built-in document as revision 1, which is a revision the
  server may hold. `AcceptedKnew` does not exclude the race: it says that only a tab that
  never loaded, or heard nothing since a race or a reset, can pass the comparison with a
  document it does not know.
- *Success that is none*: a chmod, the sha or the removal of the marker can fail, and the
  success is stamped all the same (`workspace-sync.sh:288-295`); no later attempt retries
  the failure before its interval has passed. `SuccessComplete` excuses what failed in the
  last record (`undone`) and nothing older.
- *Credentials changed and changed back*: "at exactly this stage input and these
  credentials" (`team/inputs.ts:296`). `complete` is saved before the record of what was
  applied; after a crash in between, a content-only `resume` compares with an older record,
  and with the credentials changed back it may skip although the stack holds the others.
  It takes two rotations, which is beyond the bound of `install_faults`.
- *Conflicts*: a failed read after a 409 leaves the tab in `conflict` without a banner, and a
  first load that arrives late replaces edits already made (`document.ts:283`). `Stuck`
  excuses the first.
- *Skills*: "The journal permits recovery after process death" (`install.ts:151`). A crash
  while the journal itself is written leaves one that no installation can read, and every
  later one stops there. Where the write fails and the process lives on, the `catch` puts the
  packages back under that journal (186, 199-208); a death or a second failure there leaves
  one of them torn, with backups that nothing finds. An edit made between the backup and the journal is lost. `Refused`,
  `Damage` and `amid` excuse them.

## Fairness

All of it is weak fairness of steps that stay enabled until they happen. Nobody is
obliged to publish, push, edit, release, replay, merge by hand or stop failing; the
bounds on faults do the latter.

- `RouterQueue!FairSpec`: the event loop runs ready continuations (each key's chain, the
  worker loop, a replay request), timers fire, and Kubernetes restarts a dead pod.
- `ReconcileWatcher!FairSpec`: systemd starts ticks again and again, each step of a tick
  ends or is killed, time passes, and Argo CD converges on what was applied.
- `WorkspaceSync!FairSpec`: the script runs on and its loop returns after every interval;
  a fetch of a branch that is gone fails in the end.
- `TeamInstall!FairSpec`: the watcher resumes again and again, a run goes on, and Argo CD
  rolls out what the destination declares.
- `SkillsInstall!FairSpec`: the operator installs again after a failure, and a run goes on.
- `WorkspaceDocument!FairSpec`: requests are served and answered, and a user who is offered
  a way to save or to resolve a conflict takes it.
- `EventLifecycle!FairSpec` states the promise itself.

`TeamInstall` and `ReconcileWatcher` are the two sides of one call: the watcher runs
`hg team resume` as its apply command and reads a pending exit. Each contains what the
other may see of it (`Resume` is enabled whenever no run is; an apply succeeds, fails or is
pending), so their runs check the two sides without the product.

## Theorems

The theorems hold for every value of the constants that satisfies the module's `ASSUME`:
all sets of events, commits, reviews or tabs, all bounds and kinds of fault. Each proof
module states an inductive invariant as a conjunction of named parts, proves that every
action keeps each part, and derives the properties.

`RouterQueue_proofs`: `TypeCorrect`. `TypeOK` is inductive by itself: every action keeps
batches, tasks and replayed rows within the entries that exist, because the log only grows.
`CustodyKept`, and from it `EventsKept` (`NoEventLost`) and `MarkersHonest`
(`DoneMeansDelivered`, a conjunct of `Custody` and not a property of its own in a run), are
the second part. `NoEventLost` is not inductive: an acknowledgement removes the last place
that holds an event, and is safe only because of what the task did before. `Custody` adds
what is needed: an entry that is neither unread, pending nor a dead letter has been superseded
(its event carried out, or added again after it), a task about to mark has carried its
event out, a task about to acknowledge and a replay about to delete have a superseded
entry, and a done marker stands only for an event that was carried out.

`LifecycleImplemented` (`ImplementsLifecycle`): every step of any number of routers is a
step of `EventLifecycle`, or none. The mapping has a fifth status, `lost`, that the abstract machine does not know; `NoEventLost` rules it out, so
that a status is told by three facts (`Shown`: was the event carried out, is a copy held, was
it accepted), and each action is a stutter where it changes none (`SameShown`) and one move of
one event otherwise. Custody is what an acknowledgement needs: the event it lets go was
carried out, is parked, or has another copy.

`ChainsSerial` says that every process handles the entries of a key one at a time, although
entries are claimed again while a chain still has them. Its invariant `ChainsOK` says of a
promise chain that it is one queue per key (`Queue`), of which one entry acts (`Heads`);
that a reply waits to be enqueued only between a command and its handling (`Batches`), and
that no entry of a blocked key is attempted (`Keys`). The last two theorems assume `OneRouter`: one process at a time,
its crashes and restarts included, which is the deployment (one replica) between two
rollouts; the two processes of a rollout (`queue_overlap`) share no chain, and can repeat and
reorder each other's entries.
`OncePerFault` (`AtMostOncePerFault`) keeps an account: an event that is attempted has no
marker (`Fresh`), and its effects are at most the faults and one more once the marker is set
or about to be (`Paid`). Two entries of one event, the second added by a replay, have one
chain, and only `ChainsOK` says that they are not both at their attempt. `FifoKept`
(`FifoUnlessFault`) needs `InOrder`: until the first failure every pending entry is in the
hands of the process or stopped behind a poison entry (`InHand`), and an entry waits in its
chain for every earlier one that is not settled (`Waits`).

`RouterIngest_proofs`: `AcceptedEverywhereKept`, `GuardedOnceKept`, `EdgesKeptAlways`,
`ReplayWasAdmittedKept`, `TypeCorrect`. `FanInv` says what a fan-out has left behind at each
edge it passed;
`ReplayInv` that what a guard remembers or turned away had been let past; `GuardInv`
counts: the requests of a delivery that got past are at most the memories the guard lost
and one more while it remembers, and each request reaches an edge at most once. Only the
count of requests makes `GuardedOnce` inductive: `carried` alone does not know how many
requests are still on their way. `TypeCorrect` includes the bound of the guards (`Guards`):
neither outgrows `SeenMax`, whatever comes in.

`BusinessOutcomes_proofs`: `TypeCorrect`, `OvercountPaidKept`, `UncountedExcusedKept` and
`DriftReportedKept`.
`CountInv` adds to the count of an id the posts that Redis told it is fresh and that have not
counted it yet (`Claimed`): the sum is at most what Redis remembers and the failures.
`LedgerInv` says that, without failures, a remembered id is counted or claimed, which is why
a post that finds its id taken may leave. `CallsInv` is needed for the types: only a post
with an id and a subject speaks to Redis about them. The posts must be finitely many.
`DriftReportedKept` assumes `OneSubject`, that an event id is the id of one logical outcome
and its retries; `SubjectInv` says for every subject (`KeyInv`) that its key holds an id that
was counted, that while it holds none every id that passed its own SET has a post about to
ask, and that what was reported is the number of ids counted later. This is the race of two
fresh ids: whichever SET NX comes second finds the key.

`ReconcileWatcher_proofs`: `TypeCorrect`, `AppliedOnceKept`, `AppliedSucceededKept`,
`BlockHolds` (`GateHeld`) and `SyncedOrHeldKept`. None of these is inductive, not even the types:
`ran[ledger.desired]` needs a desired commit. `IInv` adds

- `InStep`: the running tick's ledger is the saved one, or what is loaded from it before
  the first save, and while it runs the saved `run` names its commit and its phase;
- `OnceInv`: a head of the branch that ran is *guarded* by the ledger as the next tick
  will load it (blocked, or applied and not pending), and a commit between poll and
  apply has not run. This is where a crash matters: an interrupted run is guarded
  because `recoverLedger` will block it, or has applied it already;
- `SucceededInv`: what a tick is about to record has succeeded;
- `GateInv`: a block beside an unfinished run is of the commit it runs, and only a retry
  runs a blocked commit, so the steps that lift a block belong to a retry.

`SyncedOrHeld` follows by induction from `IInv`: the state becomes `synced` only where a
tick stands still at a gate or after the wait.

`TeamInstall_proofs`: `TypeCorrect`, `CompleteInstalledKept`, `AcceptedOnceKept`,
`ContentRollsNothingKept`. `RunInv` is what a run knows at each point (whose input `mem` is
of, that `complete` is withdrawn while it runs); `CompleteInv` carries `Standing`, what a
complete ledger says, from the stages that passed (`Passed`) to the ledger, and through
`prior` to a skip, which writes a complete ledger without looking; `AcceptInv` pairs every
acceptance with evidence at the credentials in use, the run at it, a pass that left none, or
a rotation; `CarryInv` says why a run that
publishes did not carry what was deployed.

`WorkspaceSync_proofs`: `ServedWholeKept`, `StampHonestKept`, `ServedAsCommittedKept`,
`SuccessCompleteKept`, `RevisionsBoundedKept`, `TypeCorrect` and the refinement
`ServedTreeImplemented`. `TipInv`: the tip an
attempt took is one its branch had, and the guard's verdict about it still holds when it is
switched to. `LinkInv`: nothing moves the link under an attempt, and what it will lead to is
there. `StampInv`: the branch an attempt would write is that of the tree. `CompleteInv`
carries the sha, the marker and the permissions from the step that sets them, or leaves them
`undone`, to the stamp, and to the states in which the agent runs. `BoundInv` counts the
revisions at every point of an attempt: those kept, one per cut, and the one being made
(`Extra`), until the prune, which knows from the history what may stay. It needs that the
history has no commit twice and is cut to size when the prune comes (`LatestFacts`,
`KeptFacts`); a crash can leave it one line longer.

`SkillsInstall_proofs`: `EditsKeptAlways` and the refinement `AtomicInstallImplemented`.
`Plain` says what the tree is without a journal, `Stands` that a journal names exactly the
packages of its review or its lock with what was there, and that the backups a run goes by
are those of the journal unless it could not be written; `AsBefore` that before the exchange
the tree still is what was copied, `Progress` how far the exchange or
the way back has come. Together they show that the refinement mapping stands still until the
journal is unlinked.

`WorkspaceDocument_proofs`: `AcceptedKnewKept`, `RefusedIsStaleKept`,
`SavedIsConfirmedKept`. `Known` says of every pair of a write and a revision that anyone
holds (a tab, a conflict, a save, an answer) that it is `Sound`: of the stored write it
has the stored revision, and any other write that is not `outdated` has an earlier revision,
however many races and resets came before.

Every invariant, action property and refinement of the passing runs is a theorem. Only
model-checked is liveness, which no prover here reaches, nor `ENABLED`, of which fairness
is made: `EventuallySettled`, `ImplementsLiveLifecycle` (its safety half is
`LifecycleImplemented`), `Decided`, `EventuallyServed`, `NeverQuiet`, `EventuallyInstalled`
of both installers and `EventuallySaved`.

## Plan

1. Version 2 plans and a forge that keeps merged branches as instances of `TeamInstall`.
2. The GitOps emitter's push as two emitters and a forge, and the evaluation store.

## Not modelled

- *GitOps emitter*: two pushers and one rebase are simple control; what matters, whether a
  rebase conflicts and what the merged files say, is in their text.
- *Backup and restore*: one sequence of external tools; auto-sync is paused and resumed by
  the same command, and nothing in the repository looks after it once that command died.
- *Evaluation store* of the Nexus API: reads, merges and writes files under one lock, so
  its steps do not interleave. The other handlers aggregate for reading.
- *Communication lifecycle*: provider calls in sequence, with one record per deployment.
- *Receipts of recovery* (`team/recovery.ts`), the attended gates and what the stages of
  an installation do inside themselves.
- Rendering, validation, compilation and reporting commands (pure functions over files,
  or calls of external tools), Helm charts, Pulumi programs, schemas, and documentation:
  they have no state that survives a step, or belong to third parties.
