---------------------------- MODULE TeamInstall ----------------------------
(***************************************************************************)
(* hg team resume, apply and publish (team/command.ts, ledger.ts,          *)
(* inputs.ts, publisher.ts): a run resolves its source, carries the        *)
(* deployed commit forward when no agent input changed, skips or takes the *)
(* eight stages, and publishes through a branch named after the content    *)
(* and a pull request.  The ledger is a file; the runs of an installation  *)
(* exclude each other by flock, which a crash lets go.  The destination    *)
(* repository, GitHub and the cluster are outside and go on by themselves. *)
(***************************************************************************)
EXTENDS Naturals, Sequences, FiniteSets

CONSTANTS
  Commits, NoCommit,
  AgentInputs,    \* [commit -> the digest of what an agent is built from]
  Ancestors,      \* <<c, d>>: c is d or an ancestor of it
  Credentials, NoCredentials, FirstCredentials,
  Locked,         \* a version 2 plan: the lock, in every input, names the commit
  DeleteMerged,   \* does the forge delete the branch of a merged pull request
  Faults,         \* the kinds of fault that may happen
  Budget          \* bound: how many releases, runs by hand, drifts or rotations, and faults

ASSUME InstallAssumption ==
  /\ NoCommit \notin Commits
  /\ Ancestors \subseteq Commits \X Commits
  /\ \A c \in Commits : <<c, c>> \in Ancestors
  /\ DOMAIN AgentInputs = Commits
  /\ NoCredentials \notin Credentials /\ FirstCredentials \in Credentials
  /\ Locked \in BOOLEAN /\ DeleteMerged \in BOOLEAN
  /\ Faults \subseteq {"crash", "preflight", "probe", "apply", "review", "moved", "reply"}
  /\ Budget \in [{"release", "byhand", "drift", "fault"} -> Nat]

Stages == <<"validated", "runtime-verified", "provisioned", "published", "ready",
            "transport-verified", "active", "acceptance-verified">>
StageNames == {Stages[n] : n \in 1..8}
Probed     == StageNames \ {"active", "acceptance-verified"}

VARIABLES
  desired,   \* the commit the plan or its lock asks for
  creds,     \* the values of the credentials the next run will read
  \* Outside.
  dest,      \* the content of the destination branch: the effective commit, or none
  heads,     \* [commit -> the branch of its content: its state, and the base it was cut from]
  cluster,   \* what Argo CD has rolled out
  stack,     \* the credentials the bootstrap stack holds, or none: it drifted
  \* Files of the installation.
  ledger,
  proofs,    \* [input -> the credentials its runtime proof is of]
  evidence,  \* [input -> the credentials its acceptance evidence is of]
  \* The run.
  pc, kind, prior, mem, at, source, effective, tries,
  held,      \* the credentials the run has read
  \* Observed.
  accepted,  \* [input -> how often its acceptance scenario passed]
  unkept,    \* [input -> how often a pass left no evidence]
  rotated,   \* how often the credentials changed
  moved,     \* what others moved since a run last looked at it
  left       \* what remains of Budget

wanted  == <<desired, creds, rotated>>
outside == <<dest, heads, cluster, stack>>
files   == <<ledger, proofs, evidence>>
run     == <<kind, prior, source, effective, held>>
counted == <<accepted, unkept>>
vars    == <<wanted, outside, files, pc, run, mem, at, tries, counted, moved, left>>

OrNone   == Commits \cup {NoCommit}
Inputs   == [effective : OrNone, locked : OrNone]
NoInput  == [effective |-> NoCommit, locked |-> NoCommit]
NoRecord == [input |-> NoInput, credentials |-> NoCredentials,
             desired |-> NoCommit, effective |-> NoCommit]
NoProof  == [st \in StageNames |-> "none"]
NoLedger == [input |-> NoInput, stages |-> NoProof, complete |-> FALSE,
             applied |-> NoRecord, skipped |-> FALSE]
NoHead   == [state |-> "none", base |-> NoCommit]

Init ==
  /\ desired \in Commits
  /\ creds = FirstCredentials /\ held = NoCredentials /\ rotated = 0
  /\ dest = NoCommit /\ heads = [c \in Commits |-> NoHead]
  /\ cluster = NoCommit /\ stack = NoCredentials /\ ledger = NoLedger
  /\ proofs = [i \in Inputs |-> NoCredentials] /\ evidence = [i \in Inputs |-> NoCredentials]
  /\ pc = "idle" /\ kind = "resume" /\ prior = NoLedger /\ mem = NoLedger
  /\ at = 1 /\ source = NoCommit /\ effective = NoCommit /\ tries = 0
  /\ accepted = [i \in Inputs |-> 0] /\ unkept = [i \in Inputs |-> 0] /\ moved = {} /\ left = Budget

Spend(what) == left[what] > 0 /\ left' = [left EXCEPT ![what] = @ - 1]
Fault(what) == what \in Faults /\ Spend("fault")

\* What the run is about.
Input == [effective |-> effective, locked |-> IF Locked THEN source ELSE NoCommit]
Stage == Stages[at]

Idle == pc' = "idle" /\ mem' = NoLedger /\ at' = 1 /\ tries' = 0
        /\ kind' = "resume" /\ prior' = NoLedger /\ source' = NoCommit /\ effective' = NoCommit
        /\ held' = NoCredentials

-----------------------------------------------------------------------------
\* The world around the run.

Release(c) ==
  /\ Spend("release") /\ c # desired /\ desired' = c
  /\ UNCHANGED <<creds, rotated, outside, files, pc, run, mem, at, tries, counted, moved>>

\* A secret is changed, or changed back: a run that started keeps what it read.
Rotate(k) ==
  /\ Spend("drift") /\ k # creds /\ creds' = k /\ rotated' = rotated + 1
  /\ UNCHANGED <<desired, outside, files, pc, run, mem, at, tries, counted, moved>>

Drift ==
  /\ Spend("drift") /\ stack # NoCredentials /\ stack' = NoCredentials
  /\ moved' = moved \cup {"provisioned"}
  /\ UNCHANGED <<wanted, dest, heads, cluster, files, pc, run, mem, at, tries, counted>>

\* Argo CD rolls out what the destination declares.
Rollout ==
  /\ cluster # dest /\ cluster' = dest
  /\ UNCHANGED <<wanted, dest, heads, stack, files, pc, run, mem, at, tries,
                 counted, moved, left>>

\* A branch merges when the base did not change what it changes too.
Mergeable(c) == heads[c].state = "open" /\ heads[c].base = dest

Merged(c) ==
  /\ dest' = c
  /\ heads' = [heads EXCEPT ![c] = IF DeleteMerged THEN NoHead ELSE [@ EXCEPT !.state = "merged"]]

\* A reviewer merges a pull request that a run left open.
MergeByHand(c) ==
  /\ Mergeable(c) /\ Merged(c) /\ moved' = moved \cup {"published"}
  /\ UNCHANGED <<wanted, cluster, stack, files, pc, run, mem, at, tries, counted, left>>

Crash ==
  /\ Fault("crash") /\ pc # "idle" /\ Idle
  /\ unkept' = IF pc = "accepted" THEN [unkept EXCEPT ![Input] = @ + 1] ELSE unkept
  /\ UNCHANGED <<wanted, outside, files, accepted, moved>>

-----------------------------------------------------------------------------
\* A run starts (command.ts): the last run's completeness is withdrawn first.

Start(k) ==
  /\ pc = "idle" /\ kind' = k /\ prior' = ledger /\ held' = creds /\ pc' = "decide"
  /\ IF k = "publish" THEN UNCHANGED ledger
     ELSE ledger' = [ledger EXCEPT !.complete = FALSE, !.skipped = FALSE]
  /\ UNCHANGED <<wanted, outside, proofs, evidence, source, effective, mem, at, tries,
                 counted, moved>>

Resume == Start("resume") /\ UNCHANGED left
ByHand == Spend("byhand") /\ \E k \in {"apply", "publish"} : Start(k)

\* Nothing was mutated: the evidence of the stages stays.
PreflightFails ==
  /\ pc = "decide" /\ Fault("preflight") /\ Idle
  /\ IF kind = "publish" THEN UNCHANGED ledger ELSE ledger' = [ledger EXCEPT !.complete = FALSE]
  /\ UNCHANGED <<wanted, outside, proofs, evidence, counted, moved>>

\* Mutant: only a run that completed leaves something to carry.
CarriedComplete(c) ==
  /\ prior.complete /\ prior.applied.effective \notin {NoCommit, c}
  /\ AgentInputs[prior.applied.effective] = AgentInputs[c]
  /\ <<prior.applied.effective, c>> \in Ancestors

\* decideSource: the deployed commit stays when nothing an agent is built from
\* changed since, and it is in the history of the new one.
Carried(c) ==
  /\ prior.applied.effective \notin {NoCommit, c}
  /\ AgentInputs[prior.applied.effective] = AgentInputs[c]
  /\ <<prior.applied.effective, c>> \in Ancestors

Resolve ==
  /\ pc = "decide"
  /\ source' = desired
  /\ effective' = IF Carried(desired) THEN prior.applied.effective ELSE desired
  /\ pc' = IF kind = "publish" THEN "clone" ELSE "enter"
  /\ UNCHANGED <<wanted, outside, files, kind, prior, held, mem, at, tries, counted, moved, left>>

Recorded == [input |-> Input, credentials |-> held,
             desired |-> source, effective |-> effective]

\* Mutant: the last run need not have completed.
SkipsIncomplete ==
  /\ kind = "resume" /\ prior.input = Input
  /\ prior.applied.input = Input /\ prior.applied.credentials = held /\ source # effective

\* skipReason: with the same credentials, too.
Skips ==
  /\ kind = "resume" /\ prior.complete /\ prior.input = Input
  /\ prior.applied.input = Input /\ prior.applied.credentials = held /\ source # effective

Skip ==
  /\ pc = "enter" /\ Skips
  /\ ledger' = [prior EXCEPT !.complete = TRUE, !.applied = Recorded, !.skipped = TRUE]
  /\ Idle
  /\ UNCHANGED <<wanted, outside, proofs, evidence, counted, moved, left>>

\* readLedger: evidence of another input does not count.
Enter ==
  /\ pc = "enter" /\ ~Skips
  /\ mem' = [ledger EXCEPT !.input = Input, !.complete = FALSE,
                           !.stages = IF ledger.input = Input THEN @ ELSE NoProof]
  /\ pc' = "stages"
  /\ UNCHANGED <<wanted, outside, files, run, at, tries, counted, moved, left>>

-----------------------------------------------------------------------------
\* executeStages.

\* The production runtime was started with these credentials.
RuntimeProved == proofs' = [proofs EXCEPT ![Input] = held]

\* What a probe would see.
Holds(st) ==
  CASE st = "runtime-verified" -> proofs[Input] = held
    [] st = "provisioned"      -> stack = held
    [] st = "published"        -> dest = effective
    [] st = "ready"            -> cluster = effective
    [] OTHER                   -> TRUE

Reprobed == at <= 8 /\ mem.stages[Stage] = "pass" /\ Stage \in Probed

\* The stage still holds.
Keep ==
  /\ pc = "stages" /\ Reprobed /\ Holds(Stage)
  /\ at' = at + 1 /\ moved' = moved \ {Stage}
  /\ UNCHANGED <<wanted, outside, files, pc, run, mem, tries, counted, left>>

Save(next) == mem' = next /\ ledger' = next

\* A probe that throws: nothing is mutated, and the evidence behind it stays.
ProbeThrows ==
  /\ pc = "stages" /\ Reprobed /\ Fault("probe")
  /\ Save([mem EXCEPT !.stages[Stage] = "unknown"]) /\ pc' = "tail"
  /\ UNCHANGED <<wanted, outside, proofs, evidence, run, at, tries, counted, moved>>

\* The stage is done again, and whatever depends on it with it.
Redo ==
  /\ pc = "stages" /\ at <= 8 /\ ~(Reprobed /\ Holds(Stage))
  /\ Save([mem EXCEPT !.stages = [st \in StageNames |->
             IF \E n \in at..8 : Stages[n] = st THEN "none" ELSE @[st]]])
  /\ pc' = IF Stage = "published" THEN "clone" ELSE "apply"
  /\ UNCHANGED <<wanted, outside, proofs, evidence, run, at, tries, counted, moved, left>>

\* The verdict of the stage is recorded; only a pass goes on.
Verdict(v) ==
  /\ Save([mem EXCEPT !.stages[Stage] = v])
  /\ IF v = "pass" THEN at' = at + 1 /\ pc' = "stages" ELSE pc' = "tail" /\ UNCHANGED at

Apply ==
  /\ pc = "apply" /\ Stage # "acceptance-verified"
  /\ CASE Stage = "runtime-verified" ->
            RuntimeProved /\ Verdict("pass") /\ UNCHANGED <<stack, moved>>
       [] Stage = "provisioned" ->
            stack' = held /\ moved' = moved \ {Stage} /\ Verdict("pass") /\ UNCHANGED proofs
       [] Stage \in {"ready", "active"} ->
            Verdict(IF cluster = effective THEN "pass" ELSE "unknown")
            /\ UNCHANGED <<proofs, stack, moved>>
       [] OTHER -> Verdict("pass") /\ UNCHANGED <<proofs, stack, moved>>
  /\ UNCHANGED <<wanted, dest, heads, cluster, evidence, run, tries, counted, left>>

\* Refused by an authorization, a gate or the provider, or failed.
ApplyFails ==
  /\ pc = "apply" /\ Fault("apply") /\ \E v \in {"fail", "unknown"} : Verdict(v)
  /\ UNCHANGED <<wanted, outside, proofs, evidence, run, tries, counted, moved>>

\* The scenario writes, so evidence at this input and these credentials is used
\* again ...
Accept ==
  /\ pc = "apply" /\ Stage = "acceptance-verified"
  /\ \/ evidence[Input] = held /\ Verdict("pass") /\ UNCHANGED accepted
     \/ /\ evidence[Input] # held /\ pc' = "accepted"
        /\ accepted' = [accepted EXCEPT ![Input] = @ + 1]
        /\ UNCHANGED <<ledger, mem, at>>
  /\ UNCHANGED <<wanted, outside, proofs, evidence, run, tries, unkept, moved, left>>

\* It passes and its answer is lost, or its evidence cannot be written.
AcceptLost ==
  /\ \/ pc = "accepted" /\ UNCHANGED accepted
     \/ /\ pc = "apply" /\ Stage = "acceptance-verified" /\ evidence[Input] # held
        /\ accepted' = [accepted EXCEPT ![Input] = @ + 1]
  /\ Fault("reply") /\ Verdict("fail") /\ unkept' = [unkept EXCEPT ![Input] = @ + 1]
  /\ UNCHANGED <<wanted, outside, proofs, evidence, run, tries, moved>>

\* Mutant: evidence is used again, and never written.
AcceptKeptNot ==
  /\ pc = "accepted" /\ Verdict("pass")
  /\ UNCHANGED <<wanted, outside, proofs, evidence, run, tries, counted, moved, left>>

\* ... and is written when it has passed, over that of other credentials.
AcceptKept ==
  /\ pc = "accepted" /\ evidence' = [evidence EXCEPT ![Input] = held] /\ Verdict("pass")
  /\ UNCHANGED <<wanted, outside, proofs, run, tries, counted, moved, left>>

Complete ==
  /\ pc = "stages" /\ at = 9 /\ pc' = "tail"
  /\ Save([mem EXCEPT !.complete = \A st \in StageNames : mem.stages[st] = "pass"])
  /\ UNCHANGED <<wanted, outside, proofs, evidence, run, at, tries, counted, moved, left>>

\* runOrSkip: what the destination declares is recorded once publication stands.
Settle ==
  /\ pc = "tail"
  /\ ledger' = [mem EXCEPT !.applied = IF mem.stages["published"] = "pass" THEN Recorded ELSE @,
                           !.skipped = FALSE]
  /\ Idle
  /\ UNCHANGED <<wanted, outside, proofs, evidence, counted, moved, left>>

-----------------------------------------------------------------------------
\* publishProjection, as a stage or as a command of its own.

Published(v) ==
  IF kind = "publish" THEN Idle /\ UNCHANGED ledger
  ELSE Verdict(v) /\ tries' = 0 /\ UNCHANGED run

\* A stage that finds the content in place has looked at it; a command tells no one.
Stood == moved' = IF kind = "publish" THEN moved ELSE moved \ {"published"}

\* The runtime is proved, and the content compared with the destination's.
CloneUnchanged ==
  /\ pc = "clone" /\ dest = effective /\ RuntimeProved
  /\ Published("pass") /\ Stood
  /\ UNCHANGED <<wanted, outside, evidence, counted, left>>

\* Mutant: a branch that is there already is an error.
CloneAnew ==
  /\ pc = "clone" /\ dest # effective /\ RuntimeProved
  /\ IF heads[effective].state = "none"
     THEN /\ heads' = [heads EXCEPT ![effective] = [state |-> "pushed", base |-> dest]]
          /\ pc' = "open" /\ UNCHANGED <<ledger, run, mem, at, tries>>
     ELSE UNCHANGED heads /\ Published("fail")
  /\ UNCHANGED <<wanted, dest, cluster, stack, evidence, counted, moved, left>>

\* A branch of this content is used again, else it is cut from the base.
CloneChanged ==
  /\ pc = "clone" /\ dest # effective /\ RuntimeProved
  /\ IF heads[effective].state = "none"
     THEN heads' = [heads EXCEPT ![effective] = [state |-> "pushed", base |-> dest]]
     ELSE UNCHANGED heads
  /\ pc' = "open"
  /\ UNCHANGED <<wanted, dest, cluster, stack, ledger, evidence, run, mem, at, tries,
                 counted, moved, left>>

\* The forge opens no pull request for a branch the base contains, or that is gone.
Open ==
  /\ pc = "open"
  /\ \/ heads[effective].state \in {"none", "merged"} /\ Published("fail") /\ UNCHANGED heads
     \/ /\ heads[effective].state \in {"pushed", "open"}
        /\ heads' = [heads EXCEPT ![effective].state = "open"] /\ pc' = "merge"
        /\ UNCHANGED <<ledger, run, mem, at, tries>>
  /\ UNCHANGED <<wanted, dest, cluster, stack, proofs, evidence, counted, moved, left>>

Merge ==
  /\ pc = "merge" /\ Mergeable(effective) /\ Merged(effective)
  /\ moved' = IF kind = "publish" THEN moved \cup {"published"} ELSE moved \ {"published"}
  /\ Published("pass")
  /\ UNCHANGED <<wanted, cluster, stack, proofs, evidence, counted, left>>

\* A review is required, or the branch conflicts with the base: it waits.
MergeWaits ==
  /\ pc = "merge" /\ (Fault("review") \/ (~Mergeable(effective) /\ UNCHANGED left))
  /\ Published("unknown")
  /\ UNCHANGED <<wanted, outside, proofs, evidence, counted, moved>>

\* The base was modified: it is merged into the branch and the merge tried again.
MergeRetries ==
  /\ pc = "merge" /\ Fault("moved") /\ UNCHANGED <<wanted, outside, proofs, evidence, counted, moved>>
  /\ \/ tries = 2 /\ Published("fail")
     \/ tries < 2 /\ tries' = tries + 1 /\ UNCHANGED <<ledger, pc, run, mem, at>>

\* The merge is made and its reply lost.
MergeUnanswered ==
  /\ pc = "merge" /\ Mergeable(effective) /\ Fault("reply") /\ Merged(effective)
  /\ moved' = IF kind = "publish" THEN moved \cup {"published"} ELSE moved
  /\ Published("fail")
  /\ UNCHANGED <<wanted, cluster, stack, proofs, evidence, counted>>

-----------------------------------------------------------------------------
Publish == CloneUnchanged \/ CloneChanged \/ Open \/ Merge \/ MergeWaits
Stepped == Resolve \/ Skip \/ Enter \/ Keep \/ Redo \/ Apply \/ Accept \/ AcceptKept
           \/ Complete \/ Settle \/ Publish
Failure == PreflightFails \/ ProbeThrows \/ ApplyFails \/ AcceptLost \/ MergeRetries \/ MergeUnanswered
           \/ Crash
World   == \/ Drift \/ Rollout \/ (\E k \in Credentials : Rotate(k))
           \/ \E c \in Commits : Release(c) \/ MergeByHand(c)

Next == Resume \/ ByHand \/ Stepped \/ Failure \/ World

Spec == Init /\ [][Next]_vars

\* A watcher resumes again and again, a run goes on, Argo CD rolls out.
FairSpec == Spec /\ WF_vars(Resume) /\ WF_vars(Stepped) /\ WF_vars(Rollout)

-----------------------------------------------------------------------------
Verdicts == {"none", "pass", "fail", "unknown"}
Held     == Credentials \cup {NoCredentials}
Ledgers  == [input : Inputs, stages : [StageNames -> Verdicts], complete : BOOLEAN,
             applied : [input : Inputs, credentials : Held, desired : OrNone, effective : OrNone], skipped : BOOLEAN]

TypeOK ==
  /\ desired \in Commits /\ dest \in OrNone /\ cluster \in OrNone
  /\ creds \in Credentials /\ held \in Held /\ stack \in Held
  /\ heads \in [Commits -> [state : {"none", "pushed", "open", "merged"}, base : OrNone]]
  /\ ledger \in Ledgers /\ mem \in Ledgers /\ prior \in Ledgers
  /\ proofs \in [Inputs -> Held] /\ evidence \in [Inputs -> Held]
  /\ pc \in {"idle", "decide", "enter", "stages", "apply", "accepted", "tail",
             "clone", "open", "merge"}
  /\ kind \in {"resume", "apply", "publish"}
  /\ at \in 1..9 /\ tries \in 0..2 /\ source \in OrNone /\ effective \in OrNone
  /\ accepted \in [Inputs -> Nat] /\ unkept \in [Inputs -> Nat] /\ rotated \in Nat
  /\ moved \in SUBSET {"provisioned", "published"}
  /\ left \in [DOMAIN Budget -> Nat]

\* A ledger that says complete, a skip's too, speaks of an installation that is
\* there: whatever is not was moved by others since a run looked.  The stack
\* holds the credentials the acceptance passed with, whatever was rotated, and the
\* commit recorded as deployed is in the history of the one it stands for.
CompleteInstalled ==
  ledger.complete =>
    LET i == ledger.input IN
    /\ dest = i.effective \/ "published" \in moved
    /\ proofs[i] # NoCredentials /\ evidence[i] # NoCredentials
    /\ stack = evidence[i] \/ "provisioned" \in moved
    /\ ledger.skipped => ledger.applied.effective = i.effective
    /\ ledger.applied.effective # NoCommit
         => <<ledger.applied.effective, ledger.applied.desired>> \in Ancestors

\* The acceptance scenario, which writes, passes once per input: again only after
\* a pass that left no evidence (a crash, a lost answer, a failed write), or after
\* the credentials it depends on were rotated.
AcceptedOnce ==
  \A i \in Inputs : accepted[i] <= 1 + unkept[i] + rotated

\* A run that knows what is deployed changes the destination only for a commit
\* an agent is built differently from, or whose history was rewritten.
ContentRollsNothing ==
  [][pc = "merge" /\ pc' # pc /\ dest \notin {NoCommit, dest'} /\ prior.applied.effective = dest
       => \/ AgentInputs[dest'] # AgentInputs[dest]
          \/ <<dest, dest'>> \notin Ancestors]_vars

\* The desired commit is installed again and again, unless its publication waits
\* for a human.
EventuallyInstalled ==
  []<>(\/ /\ ledger.complete /\ ledger.applied.desired = desired
          /\ dest = ledger.applied.effective \/ "published" \in moved
       \/ ledger.stages["published"] = "unknown")
=============================================================================
