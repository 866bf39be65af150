--------------------------- MODULE WorkspaceSync ---------------------------
(***************************************************************************)
(* One workspace of an agent pod (workspace-sync.sh and the workspace part *)
(* of boot.sh).  The claim outlives the pod: the workspace path, which is  *)
(* a checkout (pinned) or a link to a retained revision (tracked), the     *)
(* revisions, the stamps and the history.  The build container pins or     *)
(* refreshes `once' before the agent starts; the sync container refreshes  *)
(* in a loop beside it.  Every step on the claim that the agent, verify or *)
(* the next attempt can see is an action of its own, so a crash may come   *)
(* between any two.                                                        *)
(***************************************************************************)
EXTENDS Naturals, FiniteSets, Sequences, SequencesExt

CONSTANTS
  Commits, NoCommit,
  Branches, NoBranch,
  Ancestors,      \* <<c, d>>: c is d or an ancestor of it
  Start,          \* [branch -> its first tip]
  Bindings,       \* what an operator may declare
  Keep,           \* HG_WORKSPACE_KEEP_REVISIONS
  MaxFailures,    \* bound: consecutiveFailures is counted up to here
  Faults,         \* the kinds of fault that may happen
  Budget          \* bound: how many pushes, edits, restarts and faults

Tracked(b) == b.branch # NoBranch

ASSUME SyncAssumption ==
  /\ NoCommit \notin Commits /\ NoBranch \notin Branches
  /\ Ancestors \subseteq Commits \X Commits
  /\ \A c \in Commits : <<c, c>> \in Ancestors
  /\ Start \in [Branches -> Commits]
  /\ Bindings \subseteq [branch : Branches \cup {NoBranch},
                         sha : Commits \cup {NoCommit},
                         access : {"read-only", "read-write"}]
  /\ \A b \in Bindings : Tracked(b) <=> b.sha = NoCommit
  /\ Keep \in Nat \ {0} /\ MaxFailures \in Nat \ {0}
  /\ Faults \subseteq {"crash", "fetch", "clone", "link", "record", "stamp"}
  /\ Budget \in [{"push", "edit", "restart", "fault"} -> Nat]

VARIABLES
  remote,     \* [branch -> its tip on the server, or NoCommit]
  tips,       \* observed: [branch -> the tips it has had]
  binding,    \* the declared binding the pod runs with
  \* The claim.
  path,       \* the workspace path: nothing, a checkout, or a link
  revs,       \* [commit -> its revision: absent, clean or modified]
  writable,   \* the revisions whose permissions let the agent write
  shaStamp,   \* .stamps/<name>
  marker,     \* .stamps/<name>.unavailable
  stamp,      \* .stamps/<name>.json
  history,    \* .history, oldest first, each commit where it comes last
  \* The script.
  agentUp,    \* has the build container finished
  pc,
  s,          \* the S_ and s_ variables of sync_one
  \* Observed.
  from,       \* the branch the served revision came from
  recorded,   \* has a success stamp been written since the last switch
  undone,     \* what failed of the last record
  touched,    \* the revisions modified since this attempt began
  left        \* what remains of Budget

claim    == <<path, revs, writable, shaStamp, marker, stamp, history>>
world    == <<remote, tips, binding>>
observed == <<from, recorded, undone, touched>>
vars     == <<world, claim, agentUp, pc, s, observed, left>>

Nothing     == [kind |-> "none", rev |-> NoCommit]
Checkout(c) == [kind |-> "dir", rev |-> c]
Link(c)     == [kind |-> "link", rev |-> c]
Partial     == Checkout(NoCommit)
NoStamp     == [branch |-> NoBranch, sha |-> NoCommit, fetched |-> NoCommit, failures |-> 0]
Idle        == [live |-> NoCommit, served |-> NoBranch, fetched |-> NoCommit,
                failures |-> 0, tip |-> NoCommit]

\* The revision the link leads to; a checkout at the path is not one.
LiveSha == IF path.kind = "link" THEN path.rev ELSE NoCommit

Init ==
  /\ remote = Start /\ tips = [b \in Branches |-> {remote[b]}]
  /\ binding \in Bindings
  /\ path = Nothing /\ revs = [c \in Commits |-> "absent"] /\ writable = {}
  /\ shaStamp = NoCommit /\ marker = FALSE /\ stamp = NoStamp /\ history = <<>>
  /\ agentUp = FALSE /\ pc = "boot" /\ s = Idle
  /\ from = NoBranch /\ recorded = TRUE /\ undone = {} /\ touched = {}
  /\ left = Budget

Spend(what) == left[what] > 0 /\ left' = [left EXCEPT ![what] = @ - 1]
Fault(kind) == kind \in Faults /\ Spend("fault")

-----------------------------------------------------------------------------
\* The world around the script.

\* A branch moves, forward or rewritten, or is deleted.
Push(b, c) ==
  /\ Spend("push") /\ c # remote[b]
  /\ remote' = [remote EXCEPT ![b] = c]
  /\ tips' = [tips EXCEPT ![b] = @ \cup ({c} \ {NoCommit})]
  /\ UNCHANGED <<binding, claim, agentUp, pc, s, observed>>

\* The agent changes a revision it may write to, the live one or an old one.
Edit(c) ==
  /\ agentUp /\ revs[c] = "clean" /\ c \in writable /\ Spend("edit")
  /\ revs' = [revs EXCEPT ![c] = "modified"]
  /\ touched' = touched \cup {c}
  /\ UNCHANGED <<world, path, writable, shaStamp, marker, stamp, history,
                 agentUp, pc, s, from, recorded, undone>>

\* The pod is replaced, with the same binding or another.
Restart(b) ==
  /\ Spend("restart") /\ binding' = b /\ agentUp' = FALSE /\ pc' = "boot" /\ s' = Idle
  /\ UNCHANGED <<remote, tips, claim, observed>>

\* The history with a commit at its end, and nowhere else.
Latest(h, c) == Append(RemoveFirst(h, c), c)

\* What a success puts in order beside the link.
Parts == {"access", "sha", "marker"}

Access ==
  IF binding.access = "read-only" THEN writable \ {s.tip} ELSE writable \cup {s.tip}

\* These parts are done; a chmod that failed or was cut off may have changed
\* the access all the same.
Recording(parts) ==
  /\ \/ writable' = Access
     \/ "access" \notin parts /\ writable' = writable
  /\ shaStamp' = IF "sha" \in parts THEN s.tip ELSE shaStamp
  /\ marker' = (marker /\ "marker" \notin parts)

\* The container dies.  A removal or a clone it was at is left half done, and
\* the history may have its new line but not be cut to size.
Crash ==
  /\ Fault("crash") /\ pc \notin {"idle", "boot"} /\ s' = Idle
  /\ pc' = IF agentUp THEN "idle" ELSE "boot"
  /\ \/ pc = "record" /\ \E parts \in SUBSET Parts : Recording(parts)
     \/ UNCHANGED <<writable, shaStamp, marker>>
  /\ \/ UNCHANGED <<path, revs, history>>
     \/ /\ pc \in {"pinremove", "pinclone", "clear"}
        /\ path.kind # "link" /\ path' = Partial /\ UNCHANGED <<revs, history>>
     \/ /\ pc = "keep" /\ history' = Latest(history, s.tip) /\ UNCHANGED <<path, revs>>
     \/ /\ pc = "prune"
        /\ \E c \in Commits : revs[c] = "clean" /\ LiveSha # c
                              /\ c \notin Range(history)
                              /\ revs' = [revs EXCEPT ![c] = "modified"]
        /\ UNCHANGED <<path, history>>
  /\ UNCHANGED <<world, stamp, agentUp, observed>>

-----------------------------------------------------------------------------
\* boot.sh, workspace_clone: a pinned binding.

Ready == agentUp' = TRUE /\ pc' = "idle" /\ s' = Idle

\* A link and everything of the tracked time go; what is left may be right.
PinStart ==
  /\ pc = "boot" /\ ~Tracked(binding)
  /\ path' = IF path.kind = "link" THEN Nothing ELSE path
  /\ shaStamp' = IF path.kind = "link" THEN NoCommit ELSE shaStamp
  /\ stamp' = NoStamp /\ history' = <<>>
  /\ revs' = [c \in Commits |-> "absent"] /\ writable' = {}
  /\ from' = NoBranch /\ recorded' = TRUE
  /\ IF shaStamp' = binding.sha /\ path'.kind = "dir"
     THEN Ready
     ELSE pc' = "pinremove" /\ UNCHANGED <<agentUp, s>>
  /\ UNCHANGED <<world, marker, undone, touched, left>>

PinRemove ==
  /\ pc = "pinremove"
  /\ path' = Nothing /\ shaStamp' = NoCommit /\ marker' = FALSE /\ pc' = "pinclone"
  /\ UNCHANGED <<world, revs, writable, stamp, history, agentUp, s, observed, left>>

PinClone ==
  /\ pc = "pinclone"
  /\ path' = Checkout(binding.sha) /\ pc' = "pinstamp"
  /\ UNCHANGED <<world, revs, writable, shaStamp, marker, stamp, history,
                 agentUp, s, observed, left>>

PinCloneFails ==
  /\ pc = "pinclone" /\ Fault("clone")
  /\ path' = Nothing /\ marker' = TRUE /\ Ready
  /\ UNCHANGED <<world, revs, writable, shaStamp, stamp, history, observed>>

PinStamp ==
  /\ pc = "pinstamp" /\ shaStamp' = binding.sha /\ Ready
  /\ UNCHANGED <<world, path, revs, writable, marker, stamp, history, observed, left>>

-----------------------------------------------------------------------------
\* workspace-sync.sh, sync_one: a tracked binding.

\* Mutant: the branch of the binding is taken for that of the tree served.
BeginDeclared ==
  /\ pc = IF agentUp THEN "idle" ELSE "boot"
  /\ Tracked(binding)
  /\ s' = [live |-> LiveSha, served |-> binding.branch, fetched |-> stamp.fetched,
           failures |-> stamp.failures, tip |-> NoCommit]
  /\ pc' = "fetch" /\ touched' = {}
  /\ UNCHANGED <<world, claim, agentUp, from, recorded, undone, left>>

\* The attempt starts from the link and the stamp, as they are now.
Begin ==
  /\ pc = IF agentUp THEN "idle" ELSE "boot"
  /\ Tracked(binding)
  /\ s' = [live     |-> LiveSha,
           served   |-> IF LiveSha # NoCommit /\ stamp.branch # NoBranch
                        THEN stamp.branch ELSE binding.branch,
           fetched  |-> stamp.fetched,
           failures |-> stamp.failures,
           tip      |-> NoCommit]
  /\ pc' = "fetch" /\ touched' = {}
  /\ UNCHANGED <<world, claim, agentUp, from, recorded, undone, left>>

Counted(n) == IF n < MaxFailures THEN n + 1 ELSE n

\* Mutant: a failure is stamped and not counted.
FailedUncounted ==
  /\ stamp' = [branch |-> s.served, sha |-> s.live, fetched |-> s.fetched,
               failures |-> s.failures]
  /\ marker' = (marker \/ s.live = NoCommit)
  /\ Ready

\* sync_fail: the stamp tells of the failure and of the tree still served.
Failed ==
  /\ stamp' = [branch |-> s.served, sha |-> s.live, fetched |-> s.fetched,
               failures |-> Counted(s.failures)]
  /\ marker' = (marker \/ s.live = NoCommit)
  /\ Ready

FetchFails ==
  /\ pc = "fetch" /\ Failed
  /\ \/ remote[binding.branch] = NoCommit /\ UNCHANGED left
     \/ Fault("fetch")
  /\ UNCHANGED <<world, path, revs, writable, shaStamp, history, observed>>

Fetch ==
  /\ pc = "fetch" /\ remote[binding.branch] # NoCommit
  /\ s' = [s EXCEPT !.tip = remote[binding.branch]] /\ pc' = "check"
  /\ UNCHANGED <<world, claim, agentUp, observed, left>>

\* Mutant: any tip is taken.
UnsafeModified == s.live # NoCommit /\ revs[s.live] # "clean"

\* Mutant: the history is looked at across branches.
UnsafeAcross ==
  s.live # NoCommit /\ (revs[s.live] # "clean" \/ <<s.live, s.tip>> \notin Ancestors)

\* The live revision is not its commit, or the branch was rewritten.
Unsafe ==
  /\ s.live # NoCommit
  /\ \/ revs[s.live] # "clean"
     \/ s.served = binding.branch /\ <<s.live, s.tip>> \notin Ancestors

Refuse ==
  /\ pc = "check" /\ Unsafe /\ Failed
  /\ UNCHANGED <<world, path, revs, writable, shaStamp, history, observed, left>>

\* Mutant: a tip that is served already is inspected like any other.
CheckAgain ==
  /\ pc = "check" /\ ~Unsafe /\ pc' = "inspect"
  /\ UNCHANGED <<world, claim, agentUp, s, observed, left>>

Check ==
  /\ pc = "check" /\ ~Unsafe
  /\ pc' = IF s.tip = s.live THEN "record" ELSE "inspect"
  /\ UNCHANGED <<world, claim, agentUp, s, observed, left>>

\* Mutant: what is there is served.
InspectTrusting ==
  /\ pc = "inspect"
  /\ pc' = IF revs[s.tip] # "absent" THEN "clear" ELSE "clone"
  /\ UNCHANGED <<world, claim, agentUp, s, observed, left>>

\* A retained revision that is no longer its commit is removed.
Inspect ==
  /\ pc = "inspect"
  /\ \/ revs[s.tip] = "clean" /\ pc' = "clear" /\ UNCHANGED revs
     \/ /\ revs[s.tip] # "clean" /\ pc' = "clone"
        /\ revs' = [revs EXCEPT ![s.tip] = "absent"]
  /\ writable' = {c \in writable : revs'[c] # "absent"}
  /\ UNCHANGED <<world, path, shaStamp, marker, stamp, history,
                 agentUp, s, observed, left>>

\* The checkout is made beside and moved to its place.
Clone ==
  /\ pc = "clone"
  /\ revs' = [revs EXCEPT ![s.tip] = "clean"] /\ writable' = writable \cup {s.tip}
  /\ pc' = "clear"
  /\ UNCHANGED <<world, path, shaStamp, marker, stamp, history, agentUp, s, observed, left>>

CloneFails ==
  /\ pc = "clone" /\ Fault("clone") /\ Failed
  /\ UNCHANGED <<world, path, revs, writable, shaStamp, history, observed>>

\* A checkout the binding was pinned to is removed; a link stays.
Clear ==
  /\ pc = "clear"
  /\ path' = IF path.kind = "dir" THEN Nothing ELSE path
  /\ pc' = "switch"
  /\ UNCHANGED <<world, revs, writable, shaStamp, marker, stamp, history,
                 agentUp, s, observed, left>>

\* One rename.
Switch ==
  /\ pc = "switch" /\ path' = Link(s.tip) /\ pc' = "record"
  /\ from' = binding.branch /\ recorded' = FALSE
  /\ UNCHANGED <<world, revs, writable, shaStamp, marker, stamp, history,
                 agentUp, s, undone, touched, left>>

SwitchFails ==
  /\ pc = "switch" /\ Fault("link") /\ Failed
  /\ UNCHANGED <<world, path, revs, writable, shaStamp, history, observed>>

\* Mutant: access is set when a revision is made, and not again.
RecordOnce ==
  /\ pc = "record"
  /\ writable' = IF binding.access = "read-only" /\ s.tip # s.live
                 THEN writable \ {s.tip} ELSE writable
  /\ shaStamp' = s.tip /\ marker' = FALSE /\ pc' = "stamp" /\ undone' = {}
  /\ UNCHANGED <<world, path, revs, stamp, history, agentUp, s, from, recorded, touched, left>>

\* chmod, the sha and the marker: each may fail, and the script goes on.
Record ==
  /\ pc = "record" /\ pc' = "stamp"
  /\ \E failed \in SUBSET Parts :
       /\ Recording(Parts \ failed) /\ undone' = failed
       /\ \/ failed = {} /\ UNCHANGED left
          \/ failed # {} /\ Fault("record")
  /\ UNCHANGED <<world, path, revs, stamp, history, agentUp, s, from, recorded, touched>>

Stamped ==
  /\ stamp' = [branch |-> binding.branch, sha |-> s.tip, failures |-> 0,
               fetched |-> IF s.tip # s.live \/ s.fetched = NoCommit THEN s.tip ELSE s.fetched]
  /\ from' = binding.branch /\ recorded' = TRUE /\ UNCHANGED left

\* write_stamp, which may fail and is not tried again.
Stamp ==
  /\ pc = "stamp" /\ pc' = "keep"
  /\ \/ Stamped
     \/ Fault("stamp") /\ UNCHANGED <<stamp, from, recorded>>
  /\ UNCHANGED <<world, path, revs, writable, shaStamp, marker, history, agentUp, s,
                 undone, touched>>

\* Mutant: the oldest are kept.
NewestFirst(h, c) ==
  LET all == Latest(h, c)
  IN  IF Len(all) > Keep THEN SubSeq(all, 1, Keep) ELSE all

\* The newest Keep distinct revisions, oldest first.
Newest(h, c) ==
  LET all == Latest(h, c)
      n   == Len(all)
  IN  IF n > Keep THEN SubSeq(all, n - Keep + 1, n) ELSE all

\* prune_revisions: first the history is rewritten, ...
KeepHistory ==
  /\ pc = "keep" /\ history' = Newest(history, s.tip) /\ pc' = "prune"
  /\ UNCHANGED <<world, path, revs, writable, shaStamp, marker, stamp,
                 agentUp, s, observed, left>>

\* ... then what is in it no longer is removed.
Prune ==
  /\ pc = "prune"
  /\ revs' = [c \in Commits |-> IF c = s.tip \/ c \in Range(history) THEN revs[c] ELSE "absent"]
  /\ writable' = {c \in writable : revs'[c] # "absent"}
  /\ Ready
  /\ UNCHANGED <<world, path, shaStamp, marker, stamp, history, observed, left>>

-----------------------------------------------------------------------------
PinStep  == PinStart \/ PinRemove \/ PinClone \/ PinStamp
SyncStep == Begin \/ Fetch \/ Refuse \/ Check \/ Inspect \/ Clone \/ Clear \/ Switch
            \/ Record \/ Stamp \/ KeepHistory \/ Prune
Failure  == FetchFails \/ CloneFails \/ SwitchFails \/ PinCloneFails
Moves    == \E b \in Branches, c \in Commits \cup {NoCommit} : Push(b, c)
Edits    == \E c \in Commits : Edit(c)
Restarts == \E b \in Bindings : Restart(b)

Next == PinStep \/ SyncStep \/ Failure \/ Moves \/ Edits \/ Restarts \/ Crash

Spec == Init /\ [][Next]_vars

\* The script runs on, and its loop comes back after every interval.
FairSpec == Spec /\ WF_vars(PinStep \/ SyncStep \/ FetchFails)

-----------------------------------------------------------------------------
Steps == {"idle", "boot", "pinremove", "pinclone", "pinstamp", "fetch", "check", "inspect",
          "clone", "clear", "switch", "record", "stamp", "keep", "prune"}

TypeOK ==
  /\ remote \in [Branches -> Commits \cup {NoCommit}]
  /\ tips \in [Branches -> SUBSET Commits]
  /\ binding \in Bindings
  /\ path \in [kind : {"none", "dir", "link"}, rev : Commits \cup {NoCommit}]
  /\ revs \in [Commits -> {"absent", "clean", "modified"}]
  /\ writable \in SUBSET Commits /\ shaStamp \in Commits \cup {NoCommit}
  /\ marker \in BOOLEAN
  /\ stamp \in [branch : Branches \cup {NoBranch}, sha : Commits \cup {NoCommit},
                fetched : Commits \cup {NoCommit}, failures : 0..MaxFailures]
  /\ history \in Seq(Commits)
  /\ agentUp \in BOOLEAN /\ pc \in Steps
  /\ s \in [live : Commits \cup {NoCommit}, served : Branches \cup {NoBranch},
            fetched : Commits \cup {NoCommit}, failures : 0..MaxFailures,
            tip : Commits \cup {NoCommit}]
  /\ from \in Branches \cup {NoBranch} /\ recorded \in BOOLEAN
  /\ undone \in SUBSET Parts /\ touched \in SUBSET Commits
  /\ left \in [DOMAIN Budget -> Nat]

\* The link always leads to a revision that is there: neither the prune nor
\* the removal of a modified revision, nor a crash, takes the tree a reader has.
ServedWhole == path.kind = "link" => path.rev \in Commits /\ revs[path.rev] # "absent"

\* A revision is served only as exactly its commit, unless it is changed while
\* the attempt that serves it is under way (workspace-sync.sh:21-23).
ServedAsCommitted ==
  [][path' # path /\ path'.kind = "link"
       => revs[path'.rev] = "clean" \/ path'.rev \in touched]_vars

\* The stamp's branch and commit are those of the tree served, through failed
\* attempts on another branch, and unless the success was never written down.
StampHonest ==
  LiveSha # NoCommit /\ recorded => stamp.sha = LiveSha /\ stamp.branch = from

\* A success that was written down left undone only what failed in the last
\* attempt itself, which the script reports and stamps as a success all the
\* same: whatever was left by an earlier one, cut off, failed or made under
\* another binding, is repaired.  The commit is recorded, the marker of a
\* failure is gone, and the live revision has the declared access.
SuccessComplete ==
  pc = "idle" /\ LiveSha # NoCommit /\ recorded
    => /\ shaStamp = LiveSha \/ "sha" \in undone
       /\ marker => "marker" \in undone
       /\ Tracked(binding) /\ stamp.failures = 0 =>
            (LiveSha \in writable <=> binding.access = "read-write") \/ "access" \in undone

Cuts == (Budget.fault - left.fault) + (Budget.restart - left.restart)

\* Every attempt that ends prunes: only one that was cut off leaves more.
RevisionsBounded ==
  pc = "idle" => Cardinality({c \in Commits : revs[c] # "absent"}) <= Keep + Cuts

Tree == INSTANCE ServedTree WITH tree <- LiveSha, declared <- binding.branch, branch <- from

\* Every step is one the reader was promised, or changes nothing for it.
ImplementsServedTree == Tree!Spec

\* What the next attempt will refuse: no tip, a live revision that was changed,
\* a rewritten branch, or a branch moved to when the record of the last was cut off.
Refused ==
  /\ Tracked(binding)
  /\ \/ remote[binding.branch] = NoCommit
     \/ /\ LiveSha # NoCommit
        /\ \/ revs[LiveSha] # "clean"
           \/ /\ from = binding.branch \/ ~recorded
              /\ <<LiveSha, remote[binding.branch]>> \notin Ancestors

\* The agent is served the tip of its branch again and again, once the
\* failures end, or there is a reason to refuse it.
EventuallyServed ==
  []<>(Tracked(binding) => Refused \/ LiveSha = remote[binding.branch])

\* hg workspace verify finds nothing wrong (judgeBound, staleness apart).
VerifyOk ==
  /\ path.kind # "none" /\ ~marker
  /\ LiveSha # NoCommit => (LiveSha \in writable <=> binding.access = "read-write")
  /\ stamp.sha = path.rev /\ stamp.branch = binding.branch /\ stamp.failures = 0

\* Serving an old tree is allowed, doing it quietly is not: a refusal that
\* stays makes verify fail for good.
NeverQuiet == <>[]Refused => <>[]~VerifyOk
=============================================================================
