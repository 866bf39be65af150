------------------------- MODULE TeamInstall_proofs -------------------------
(***************************************************************************)
(* Theorems about hg team resume, apply and publish, for any commits,      *)
(* histories, agent inputs and bounds: a ledger that says complete speaks  *)
(* of an installation that is there, a repeated acceptance is paid for,    *)
(* and a content that changes no agent does not move the destination.      *)
(***************************************************************************)
EXTENDS TeamInstall, Integers, TLAPS

Running == pc \in {"enter", "stages", "apply", "accepted", "tail"}
Publishing == pc \in {"clone", "open", "merge"}

\* What a ledger records as deployed is in the history of what it stands for.
Recording(l) ==
  l.applied.effective # NoCommit => <<l.applied.effective, l.applied.desired>> \in Ancestors

\* What a complete ledger says.
Standing(l) ==
  l.complete =>
    /\ dest = l.input.effective \/ "published" \in moved
    /\ proofs[l.input] # NoCredentials /\ evidence[l.input] # NoCredentials
    /\ stack = evidence[l.input] \/ "provisioned" \in moved
    /\ l.skipped => l.applied.effective = l.input.effective

\* What the stages before n have left behind.
Passed(n) ==
  /\ n > 2 => proofs[Input] = held
  /\ n > 3 => stack = held \/ "provisioned" \in moved
  /\ n > 4 => dest = effective \/ "published" \in moved
  /\ n > 8 => evidence[Input] = held

RunInv ==
  /\ Recording(ledger) /\ Recording(mem) /\ Recording(prior)
  /\ pc \notin {"idle", "decide"} => effective \in Commits /\ <<effective, source>> \in Ancestors
  /\ Running => kind # "publish"
  /\ pc \in {"decide", "enter", "stages", "apply", "accepted"} \/ Publishing =>
       kind = "publish" \/ (~ledger.complete /\ ~ledger.skipped)
  /\ pc \in {"stages", "apply", "accepted", "tail"} \/ (Publishing /\ kind # "publish") =>
       mem.input = Input /\ ~mem.skipped /\ (pc # "tail" => ~mem.complete)
  /\ pc \in {"apply", "accepted"} \/ Publishing => kind = "publish" \/ at <= 8
  /\ pc = "accepted" => at = 8
  /\ Publishing /\ kind # "publish" => at = 4
  /\ pc = "apply" => at # 4
  /\ pc \in {"idle", "decide", "enter"} => at = 1
  /\ pc # "idle" => held \in Credentials

CompleteInv ==
  /\ Standing(ledger)
  /\ pc \in {"decide", "enter"} => Standing(prior)
  /\ pc \in {"stages", "apply", "accepted"} \/ (Publishing /\ kind # "publish") =>
       Passed(at)
  /\ pc = "tail" => Standing(mem)

\* The credentials that count: those of the run, or of the next one.
Read == IF pc = "idle" THEN creds ELSE held

\* A run whose credentials were rotated has a pass less to its account.
Behind == IF Read # creds THEN 1 ELSE 0

\* The pass there is evidence of, or that is about to leave some.
Standby(i) == IF evidence[i] = Read \/ (pc = "accepted" /\ i = Input) THEN 1 ELSE 0

AcceptInv ==
  /\ \A i \in Inputs : accepted[i] + Behind <= rotated + unkept[i] + Standby(i)
  /\ pc = "accepted" => evidence[Input] # held

\* Why a run that publishes does not carry what was deployed.
CarryInv ==
  pc \notin {"idle", "decide"} =>
    \/ effective = prior.applied.effective
    \/ effective = source /\ ~Carried(source)

IInv == TypeOK /\ RunInv /\ CompleteInv /\ AcceptInv /\ CarryInv

-----------------------------------------------------------------------------
(* Types *)

LEMMA StageFacts ==
  /\ Stages[1] = "validated" /\ Stages[2] = "runtime-verified" /\ Stages[3] = "provisioned"
  /\ Stages[4] = "published" /\ Stages[5] = "ready" /\ Stages[6] = "transport-verified"
  /\ Stages[7] = "active" /\ Stages[8] = "acceptance-verified"
  /\ \A n \in 1..8 : Stages[n] \in StageNames
  /\ "published" \in StageNames
BY DEF Stages, StageNames

LEMMA InputFacts ==
  /\ NoInput \in Inputs /\ NoRecord \in [input : Inputs, credentials : Held, desired : OrNone, effective : OrNone]
  /\ NoProof \in [StageNames -> Verdicts]
  /\ NoLedger \in Ledgers
  /\ NoLedger.applied.effective = NoCommit /\ ~NoLedger.complete /\ ~NoLedger.skipped
<1>1. NoInput \in Inputs
  BY DEF NoInput, Inputs, OrNone
<1>2. NoRecord \in [input : Inputs, credentials : Held, desired : OrNone, effective : OrNone]
  BY <1>1 DEF NoRecord, OrNone, Held
<1>3. NoProof \in [StageNames -> Verdicts]
  BY DEF NoProof, Verdicts
<1>4. QED
  BY <1>1, <1>2, <1>3 DEF NoLedger, Ledgers, NoRecord

LEMMA InputType == ASSUME TypeOK PROVE Input \in Inputs /\ Input.effective = effective
BY DEF TypeOK, Input, Inputs, OrNone

\* What writing into a ledger leaves of it.
LEMMA LedgerFacts ==
  ASSUME NEW l \in Ledgers
  PROVE  /\ \A st \in StageNames, v \in Verdicts :
              LET m == [l EXCEPT !.stages[st] = v] IN
              /\ m \in Ledgers /\ m.input = l.input /\ m.complete = l.complete
              /\ m.applied = l.applied /\ m.skipped = l.skipped
         /\ \A b \in BOOLEAN :
              LET m == [l EXCEPT !.complete = b] IN
              /\ m \in Ledgers /\ m.input = l.input /\ m.complete = b
              /\ m.applied = l.applied /\ m.skipped = l.skipped
         /\ \A g \in [StageNames -> Verdicts] :
              LET m == [l EXCEPT !.stages = g] IN
              /\ m \in Ledgers /\ m.input = l.input /\ m.complete = l.complete
              /\ m.applied = l.applied /\ m.skipped = l.skipped
BY DEF Ledgers

LEMMA IdleFacts ==
  ASSUME Idle
  PROVE  /\ pc' = "idle" /\ mem' = NoLedger /\ prior' = NoLedger /\ at' = 1 /\ tries' = 0
         /\ kind' = "resume" /\ source' = NoCommit /\ effective' = NoCommit
         /\ held' = NoCredentials
BY DEF Idle

LEMMA VerdictFacts ==
  ASSUME TypeOK, at \in 1..8, NEW v \in Verdicts, Verdict(v)
  PROVE  /\ mem' \in Ledgers /\ ledger' = mem' /\ mem'.input = mem.input
         /\ mem'.complete = mem.complete /\ mem'.applied = mem.applied
         /\ mem'.skipped = mem.skipped
         /\ \/ v = "pass" /\ at' = at + 1 /\ pc' = "stages"
            \/ at' = at /\ pc' = "tail"
BY StageFacts, LedgerFacts DEF Verdict, Save, TypeOK, Stage

\* The run's part of the types.
RunType ==
  /\ ledger \in Ledgers /\ mem \in Ledgers /\ prior \in Ledgers
  /\ pc \in {"idle", "decide", "enter", "stages", "apply", "accepted", "tail",
             "clone", "open", "merge"}
  /\ kind \in {"resume", "apply", "publish"}
  /\ at \in 1..9 /\ tries \in 0..2 /\ source \in OrNone /\ effective \in OrNone
  /\ held \in Held

LEMMA IdleType == ASSUME Idle, ledger' \in Ledgers PROVE RunType'
BY InputFacts, IdleFacts DEF RunType, OrNone, Held

LEMMA VerdictType ==
  ASSUME TypeOK, at \in 1..8, NEW v \in Verdicts, Verdict(v), UNCHANGED run, tries' \in 0..2
  PROVE  RunType'
BY VerdictFacts DEF RunType, TypeOK, run

LEMMA PublishedType ==
  ASSUME TypeOK, RunInv, Publishing, NEW v \in Verdicts, Published(v)
  PROVE  RunType'
<1>1. CASE kind = "publish"
  BY <1>1, IdleType DEF Published, TypeOK
<1>2. CASE kind # "publish"
  BY <1>2, VerdictType DEF Published, RunInv
<1>3. QED
  BY <1>1, <1>2

LEMMA RunTypeStep == TypeOK /\ RunInv /\ [Next]_vars => RunType'
<1> SUFFICES ASSUME TypeOK, RunInv, [Next]_vars PROVE RunType'
  OBVIOUS
<1> USE DEF Publishing, Running
<1>v. "pass" \in Verdicts /\ "fail" \in Verdicts /\ "unknown" \in Verdicts
  BY DEF Verdicts
<1>w. ASSUME UNCHANGED <<ledger, pc, run, mem, at, tries>> PROVE RunType'
  BY <1>w DEF RunType, TypeOK, run
<1>1. CASE World \/ UNCHANGED vars
  BY <1>1, <1>w DEF World, Drift, Rollout, Release, Rotate, MergeByHand, vars, files
<1>2. CASE Resume \/ ByHand
  <2>1. PICK k \in {"resume", "apply", "publish"} : Start(k)
    BY <1>2 DEF Resume, ByHand
  <2>2. [ledger EXCEPT !.complete = FALSE, !.skipped = FALSE] \in Ledgers
    BY DEF TypeOK, Ledgers
  <2>3. QED
    BY <2>1, <2>2 DEF Start, RunType, TypeOK, Held
<1>3. CASE Crash
  BY <1>3, IdleType DEF Crash, files, TypeOK
<1>4. CASE PreflightFails
  <2>1. ledger' \in Ledgers
    <3>1. [ledger EXCEPT !.complete = FALSE] \in Ledgers
      BY DEF TypeOK, Ledgers
    <3>2. QED
      BY <1>4, <3>1 DEF PreflightFails, TypeOK
  <2>2. QED
    BY <1>4, <2>1, IdleType DEF PreflightFails
<1>5. CASE Resolve
  BY <1>5 DEF Resolve, RunType, TypeOK, Carried, Ledgers, OrNone, files
<1>6. CASE Skip
  <2>1. Recorded \in [input : Inputs, credentials : Held, desired : OrNone, effective : OrNone]
    BY InputType DEF Recorded, TypeOK
  <2>2. ledger' \in Ledgers
    BY <1>6, <2>1 DEF Skip, TypeOK, Ledgers
  <2>3. QED
    BY <1>6, <2>2, IdleType DEF Skip
<1>7. CASE Enter
  <2>1. mem' \in Ledgers
    BY <1>7, InputType, InputFacts DEF Enter, TypeOK, Ledgers
  <2>2. QED
    BY <1>7, <2>1 DEF Enter, RunType, TypeOK, run, files
<1>8. CASE Keep
  BY <1>8 DEF Keep, Reprobed, RunType, TypeOK, run, files
<1>9. CASE ProbeThrows
  <2>1. mem' \in Ledgers /\ ledger' = mem'
    BY <1>9, <1>v, StageFacts, LedgerFacts DEF ProbeThrows, Save, Stage, Reprobed, TypeOK
  <2>2. QED
    BY <1>9, <2>1 DEF ProbeThrows, RunType, TypeOK, run
<1>10. CASE Redo
  <2>1. PICK g : g = [st \in StageNames |->
           IF \E n \in at..8 : Stages[n] = st THEN "none" ELSE mem.stages[st]]
    OBVIOUS
  <2>2. g \in [StageNames -> Verdicts]
    BY <2>1 DEF TypeOK, Ledgers, Verdicts
  <2>3. mem' = [mem EXCEPT !.stages = g] /\ ledger' = mem'
    BY <1>10, <2>1 DEF Redo, Save
  <2>4. mem' \in Ledgers /\ ledger' \in Ledgers
    BY <2>2, <2>3, LedgerFacts DEF TypeOK
  <2>5. QED
    BY <1>10, <2>4 DEF Redo, RunType, TypeOK, run
<1>11. CASE Apply \/ ApplyFails \/ Accept \/ AcceptLost \/ AcceptKept
  <2>1. at \in 1..8
    BY <1>11 DEF Apply, ApplyFails, Accept, AcceptLost, AcceptKept, RunInv, TypeOK
  <2>2. /\ UNCHANGED <<run, tries>>
        /\ (\E v \in Verdicts : Verdict(v)) \/ (pc' = "accepted" /\ UNCHANGED <<ledger, mem, at>>)
    BY <1>11, <1>v DEF Apply, ApplyFails, Accept, AcceptLost, AcceptKept
  <2>3. QED
    BY <2>1, <2>2, VerdictType DEF RunType, TypeOK, run
<1>12. CASE Complete
  <2>1. mem' \in Ledgers /\ ledger' = mem'
    BY <1>12, LedgerFacts DEF Complete, Save, TypeOK
  <2>2. QED
    BY <1>12, <2>1 DEF Complete, RunType, TypeOK, run
<1>13. CASE Settle
  <2>1. Recorded \in [input : Inputs, credentials : Held, desired : OrNone, effective : OrNone]
    BY InputType DEF Recorded, TypeOK
  <2>2. ledger' \in Ledgers
    BY <1>13, <2>1 DEF Settle, TypeOK, Ledgers
  <2>3. QED
    BY <1>13, <2>2, IdleType DEF Settle
<1>14. CASE Publish \/ MergeRetries \/ MergeUnanswered
  <2>1. Publishing
    BY <1>14 DEF Publish, MergeRetries, MergeUnanswered, CloneUnchanged, CloneChanged, Open,
       Merge, MergeWaits
  <2>2. \/ \E v \in Verdicts : Published(v)
        \/ /\ UNCHANGED <<ledger, run, mem, at>> /\ pc' \in {"open", "merge"}
           /\ tries' = tries \/ (tries < 2 /\ tries' = tries + 1)
    BY <1>14, <1>v DEF Publish, MergeRetries, MergeUnanswered, CloneUnchanged, CloneChanged, Open,
       Merge, MergeWaits
  <2>3. CASE \E v \in Verdicts : Published(v)
    BY <2>1, <2>3, PublishedType
  <2>4. QED
    BY <2>2, <2>3 DEF RunType, TypeOK, run
<1>15. QED
  BY <1>1, <1>2, <1>3, <1>4, <1>5, <1>6, <1>7, <1>8, <1>9, <1>10, <1>11, <1>12, <1>13, <1>14
     DEF Next, Stepped, Failure

LEMMA TypeStep == TypeOK /\ RunInv /\ [Next]_vars => TypeOK'
<1> SUFFICES ASSUME TypeOK, RunInv, [Next]_vars PROVE TypeOK'
  OBVIOUS
<1>1. RunType'
  BY RunTypeStep
<1>2. /\ desired' \in Commits /\ cluster' \in OrNone
      /\ creds' \in Credentials /\ rotated' \in Nat /\ stack' \in Held
  BY DEF Held, wanted, TypeOK, Next, Stepped, Failure, World, Publish, Resume, ByHand, Release, Rotate, Drift, Rollout,
     MergeByHand, Merged, Crash, Start, PreflightFails, Resolve, Skip, Enter, Keep, ProbeThrows,
     Redo, Apply, ApplyFails, Accept, AcceptLost, AcceptKept, Complete, Settle, CloneUnchanged,
     CloneChanged, Open, Merge, MergeWaits, MergeRetries, MergeUnanswered, vars, outside
<1>3. dest' \in OrNone /\ heads' \in [Commits -> [state : {"none", "pushed", "open", "merged"},
                                                   base : OrNone]]
  <2>1. ASSUME NEW c \in Commits, Merged(c)
        PROVE  dest' \in OrNone
               /\ heads' \in [Commits -> [state : {"none", "pushed", "open", "merged"}, base : OrNone]]
    BY <2>1 DEF Merged, NoHead, TypeOK, OrNone
  <2>2. CASE \E c \in Commits : MergeByHand(c)
    BY <2>1, <2>2 DEF MergeByHand
  <2>3. CASE Merge \/ MergeUnanswered
    <3>1. effective \in Commits /\ Merged(effective)
      BY <2>3 DEF Merge, MergeUnanswered, RunInv
    <3>2. QED
      BY <2>1, <3>1
  <2>4. CASE CloneChanged \/ Open
    <3>1. effective \in Commits
      BY <2>4 DEF CloneChanged, Open, RunInv
    <3>2. dest' = dest
      BY <2>4 DEF CloneChanged, Open
    <3>3. \/ heads' = heads
          \/ heads' = [heads EXCEPT ![effective] = [state |-> "pushed", base |-> dest]]
          \/ heads' = [heads EXCEPT ![effective].state = "open"]
      BY <2>4 DEF CloneChanged, Open
    <3>4. QED
      BY <3>1, <3>2, <3>3 DEF TypeOK
  <2>5. CASE UNCHANGED <<dest, heads>>
    BY <2>5 DEF TypeOK
  <2>6. QED
    BY <2>2, <2>3, <2>4, <2>5
       DEF Next, Stepped, Failure, World, Publish, Resume, ByHand, Release, Rotate, Drift, Rollout,
       Crash, Start, PreflightFails, Resolve, Skip, Enter, Keep, ProbeThrows,
       Redo, Apply, ApplyFails, Accept, AcceptLost, AcceptKept, Complete, Settle, CloneUnchanged,
       MergeWaits, MergeRetries, vars, outside
<1>4. /\ proofs' \in [Inputs -> Held] /\ evidence' \in [Inputs -> Held]
      /\ accepted' \in [Inputs -> Nat] /\ unkept' \in [Inputs -> Nat]
  <2>1. /\ proofs' \in {proofs, [proofs EXCEPT ![Input] = held]}
        /\ evidence' \in {evidence, [evidence EXCEPT ![Input] = held]}
        /\ accepted' \in {accepted, [accepted EXCEPT ![Input] = @ + 1]}
        /\ unkept' \in {unkept, [unkept EXCEPT ![Input] = @ + 1]}
    BY DEF Next, Stepped, Failure, World, Publish, Resume, ByHand, Release, Rotate, Drift, Rollout,
       MergeByHand, Crash, Start, PreflightFails, Resolve, Skip, Enter, Keep, ProbeThrows,
       Redo, Apply, ApplyFails, Accept, AcceptLost, AcceptKept, Complete, Settle, CloneUnchanged,
       CloneChanged, Open, Merge, MergeWaits, MergeRetries, MergeUnanswered, RuntimeProved, vars,
       files, counted
  <2>2. QED
    BY <2>1, InputType DEF TypeOK
<1>5. moved' \in SUBSET {"provisioned", "published"}
  BY DEF TypeOK, Next, Stepped, Failure, World, Publish, Resume, ByHand, Release, Rotate, Drift, Rollout,
     MergeByHand, Crash, Start, PreflightFails, Resolve, Skip, Enter, Keep, ProbeThrows,
     Redo, Apply, ApplyFails, Accept, AcceptLost, AcceptKept, Complete, Settle, CloneUnchanged, Stood,
     CloneChanged, Open, Merge, MergeWaits, MergeRetries, MergeUnanswered, vars
<1>6. left' \in [DOMAIN Budget -> Nat]
  <2>1. DOMAIN Budget = {"release", "byhand", "drift", "fault"}
    BY InstallAssumption
  <2>2. ASSUME NEW what \in DOMAIN Budget, Spend(what) PROVE left' \in [DOMAIN Budget -> Nat]
    BY <2>2 DEF Spend, TypeOK
  <2>3. left' = left \/ Spend("release") \/ Spend("byhand") \/ Spend("drift") \/ Spend("fault")
    BY DEF Next, Stepped, Failure, World, Publish, Resume, ByHand, Release, Rotate, Drift, Rollout,
       MergeByHand, Crash, Start, PreflightFails, Resolve, Skip, Enter, Keep, ProbeThrows, Fault,
       Redo, Apply, ApplyFails, Accept, AcceptLost, AcceptKept, Complete, Settle, CloneUnchanged,
       CloneChanged, Open, Merge, MergeWaits, MergeRetries, MergeUnanswered, vars
  <2>4. QED
    BY <2>1, <2>2, <2>3 DEF TypeOK
<1>7. QED
  BY <1>1, <1>2, <1>3, <1>4, <1>5, <1>6 DEF TypeOK, RunType

-----------------------------------------------------------------------------
(* The run *)

LEMMA IdleRun == ASSUME Idle, Recording(ledger)' PROVE RunInv'
BY IdleFacts, InputFacts DEF RunInv, Recording, Running, Publishing

\* A verdict is recorded; the run goes on to the next stage, or to its end.
LEMMA VerdictRun ==
  ASSUME TypeOK, RunInv, NEW v \in Verdicts, Verdict(v), UNCHANGED run,
         pc \in {"apply", "accepted"} \/ (Publishing /\ kind # "publish")
  PROVE  RunInv'
<1>1. at \in 1..8
  BY DEF TypeOK, RunInv, Publishing, Running
<1>2. Input' = Input
  BY DEF run, Input
<1>3. QED
  BY <1>1, <1>2, VerdictFacts DEF RunInv, Recording, Running, Publishing, run

LEMMA PublishedRun ==
  ASSUME TypeOK, RunInv, Publishing, NEW v \in Verdicts, Published(v)
  PROVE  RunInv'
<1>1. CASE kind = "publish"
  BY <1>1, IdleRun DEF Published, RunInv, Recording
<1>2. CASE kind # "publish"
  BY <1>2, VerdictRun DEF Published
<1>3. QED
  BY <1>1, <1>2

LEMMA CarriedFacts ==
  ASSUME TypeOK, Carried(desired) PROVE prior.applied.effective \in Commits
BY DEF TypeOK, Carried, Ledgers, OrNone

LEMMA RunStep == TypeOK /\ RunInv /\ [Next]_vars => RunInv'
<1> SUFFICES ASSUME TypeOK, RunInv, [Next]_vars PROVE RunInv'
  OBVIOUS
<1> USE DEF Publishing, Running
<1>v. "pass" \in Verdicts /\ "fail" \in Verdicts /\ "unknown" \in Verdicts
  BY DEF Verdicts
<1>w. ASSUME UNCHANGED <<ledger, pc, run, mem, at>> PROVE RunInv'
  BY <1>w DEF RunInv, run, Recording, Input
<1>1. CASE World \/ UNCHANGED vars
  BY <1>1, <1>w DEF World, Drift, Rollout, Release, Rotate, MergeByHand, vars, files
<1>2. CASE Resume \/ ByHand
  <2>1. PICK k \in {"resume", "apply", "publish"} : Start(k)
    BY <1>2 DEF Resume, ByHand
  <2>2. PICK l : l = [ledger EXCEPT !.complete = FALSE, !.skipped = FALSE]
    OBVIOUS
  <2>3. ~l.complete /\ ~l.skipped /\ l.applied = ledger.applied
    BY <2>2 DEF TypeOK, Ledgers
  <2>4. QED
    BY <2>1, <2>2, <2>3 DEF Start, RunInv, Recording, TypeOK
<1>3. CASE Crash
  BY <1>3, IdleRun DEF Crash, files, RunInv, Recording
<1>4. CASE PreflightFails
  <2>1. ledger'.applied = ledger.applied
    BY <1>4 DEF PreflightFails, TypeOK, Ledgers
  <2>2. QED
    BY <1>4, <2>1, IdleRun DEF PreflightFails, RunInv, Recording
<1>5. CASE Resolve
  <2>1. effective' \in Commits /\ <<effective', source'>> \in Ancestors
    BY <1>5, CarriedFacts, InstallAssumption DEF Resolve, TypeOK, Carried
  <2>2. QED
    BY <1>5, <2>1 DEF Resolve, RunInv, Recording, files
<1>6. CASE Skip
  <2>1. Recorded.effective = effective /\ Recorded.desired = source /\ ledger'.applied = Recorded
    BY <1>6 DEF Skip, Recorded, TypeOK, Ledgers
  <2>2. QED
    BY <1>6, <2>1, IdleRun DEF Skip, RunInv, Recording
<1>7. CASE Enter
  <2>1. /\ mem'.input = Input /\ ~mem'.complete /\ mem'.applied = ledger.applied
        /\ mem'.skipped = ledger.skipped
    BY <1>7 DEF Enter, TypeOK, Ledgers
  <2>2. Input' = Input
    BY <1>7 DEF Enter, run, Input
  <2>3. QED
    BY <1>7, <2>1, <2>2 DEF Enter, RunInv, Recording, run, files
<1>8. CASE Keep
  <2>1. Input' = Input
    BY <1>8 DEF Keep, run, Input
  <2>2. QED
    BY <1>8, <2>1 DEF Keep, RunInv, Recording, run, files
<1>9. CASE ProbeThrows
  <2>1. /\ mem'.input = mem.input /\ mem'.applied = mem.applied /\ mem'.skipped = mem.skipped
        /\ ledger' = mem'
    BY <1>9, <1>v, StageFacts, LedgerFacts DEF ProbeThrows, Save, Stage, Reprobed, TypeOK
  <2>2. Input' = Input
    BY <1>9 DEF ProbeThrows, run, Input
  <2>3. QED
    BY <1>9, <2>1, <2>2 DEF ProbeThrows, RunInv, Recording, run
<1>10. CASE Redo
  <2>1. PICK g : g = [st \in StageNames |->
           IF \E n \in at..8 : Stages[n] = st THEN "none" ELSE mem.stages[st]]
    OBVIOUS
  <2>2. mem' = [mem EXCEPT !.stages = g] /\ ledger' = mem'
    BY <1>10, <2>1 DEF Redo, Save
  <2>3. /\ mem'.input = mem.input /\ mem'.applied = mem.applied /\ mem'.skipped = mem.skipped
        /\ mem'.complete = mem.complete
    BY <2>2 DEF TypeOK, Ledgers
  <2>4. Input' = Input
    BY <1>10 DEF Redo, run, Input
  <2>5. Stage = "published" <=> at = 4
    BY <1>10, StageFacts DEF Redo, TypeOK, Stage
  <2>6. QED
    BY <1>10, <2>2, <2>3, <2>4, <2>5 DEF Redo, RunInv, Recording, run
<1>11. CASE Apply \/ ApplyFails \/ Accept \/ AcceptLost \/ AcceptKept
  <2>1. at \in 1..8
    BY <1>11 DEF Apply, ApplyFails, Accept, AcceptLost, AcceptKept, RunInv, TypeOK
  <2>2. /\ UNCHANGED <<run, tries>> /\ pc \in {"apply", "accepted"}
        /\ \/ \E v \in Verdicts : Verdict(v)
           \/ pc' = "accepted" /\ Stage = "acceptance-verified" /\ UNCHANGED <<ledger, mem, at>>
    BY <1>11, <1>v DEF Apply, ApplyFails, Accept, AcceptLost, AcceptKept
  <2>3. CASE \E v \in Verdicts : Verdict(v)
    BY <2>2, <2>3, VerdictRun
  <2>4. CASE pc' = "accepted" /\ Stage = "acceptance-verified" /\ UNCHANGED <<ledger, mem, at>>
    <3>1. at = 8
      BY <2>1, <2>4, StageFacts DEF Stage
    <3>2. Input' = Input
      BY <2>2 DEF run, Input
    <3>3. QED
      BY <2>2, <2>4, <3>1, <3>2 DEF RunInv, Recording, run
  <2>5. QED
    BY <2>2, <2>3, <2>4
<1>12. CASE Complete
  <2>1. /\ mem'.input = mem.input /\ mem'.applied = mem.applied /\ mem'.skipped = mem.skipped
        /\ ledger' = mem'
    BY <1>12, LedgerFacts DEF Complete, Save, TypeOK
  <2>2. Input' = Input
    BY <1>12 DEF Complete, run, Input
  <2>3. QED
    BY <1>12, <2>1, <2>2 DEF Complete, RunInv, Recording, run
<1>13. CASE Settle
  <2>1. Recorded.effective = effective /\ Recorded.desired = source
    BY DEF Recorded
  <2>2. ledger'.applied = Recorded \/ ledger'.applied = mem.applied
    BY <1>13 DEF Settle, TypeOK, Ledgers
  <2>3. QED
    BY <1>13, <2>1, <2>2, IdleRun DEF Settle, RunInv, Recording
<1>14. CASE Publish \/ MergeRetries \/ MergeUnanswered
  <2>1. Publishing
    BY <1>14 DEF Publish, MergeRetries, MergeUnanswered, CloneUnchanged, CloneChanged, Open,
       Merge, MergeWaits
  <2>2. \/ \E v \in Verdicts : Published(v)
        \/ UNCHANGED <<ledger, run, mem, at>> /\ pc' \in {"open", "merge"}
    BY <1>14, <1>v DEF Publish, MergeRetries, MergeUnanswered, CloneUnchanged, CloneChanged, Open,
       Merge, MergeWaits
  <2>3. CASE \E v \in Verdicts : Published(v)
    BY <2>1, <2>3, PublishedRun
  <2>4. CASE UNCHANGED <<ledger, run, mem, at>> /\ pc' \in {"open", "merge"}
    <3>1. Input' = Input
      BY <2>4 DEF run, Input
    <3>2. QED
      BY <2>1, <2>4, <3>1 DEF RunInv, Recording, run
  <2>5. QED
    BY <2>2, <2>3, <2>4
<1>15. QED
  BY <1>1, <1>2, <1>3, <1>4, <1>5, <1>6, <1>7, <1>8, <1>9, <1>10, <1>11, <1>12, <1>13, <1>14
     DEF Next, Stepped, Failure

-----------------------------------------------------------------------------
(* What complete means *)

\* Evidence stays, also that a runtime was proved, and nobody moves anything unnoticed.
Noticed ==
  /\ \A i \in Inputs : proofs[i] # NoCredentials => proofs'[i] # NoCredentials
  /\ evidence' = evidence
  /\ \/ "published" \in moved'
     \/ dest' = dest /\ "published" \notin moved
  /\ \/ "provisioned" \in moved'
     \/ stack' = stack /\ "provisioned" \notin moved

LEMMA StandingKept ==
  ASSUME NEW l \in Ledgers, Standing(l), Noticed PROVE Standing(l)'
BY DEF Standing, Noticed, Ledgers

LEMMA LedgerStands ==
  ASSUME TypeOK, Standing(ledger), Noticed, ledger' = ledger PROVE Standing(ledger)'
<1>1. PICK l \in Ledgers : l = ledger
  BY DEF TypeOK
<1>2. Standing(l)'
  BY <1>1, StandingKept
<1>3. QED
  BY <1>1, <1>2 DEF Standing

LEMMA IncompleteStands == ~ledger'.complete => Standing(ledger)'
BY DEF Standing

LEMMA PassedKept ==
  ASSUME Passed(at), Noticed, UNCHANGED <<at, source, effective, held, proofs>>
  PROVE  Passed(at)'
<1>1. Input' = Input
  BY DEF Input
<1>2. QED
  BY <1>1 DEF Passed, Noticed

\* What goes on around the run is noticed.
LEMMA NoticedStep ==
  ASSUME TypeOK, CompleteInv, Noticed,
         UNCHANGED <<ledger, mem, prior, at, pc, kind, source, effective, held, proofs>>
  PROVE  CompleteInv'
<1>1. Standing(ledger)'
  BY LedgerStands DEF CompleteInv
<1>2. Passed(at) => Passed(at)'
  BY PassedKept
<1>3. PICK p \in Ledgers, m \in Ledgers : p = prior /\ m = mem
  BY DEF TypeOK
<1>4. (Standing(p) => Standing(p)') /\ (Standing(m) => Standing(m)')
  BY StandingKept
<1>5. (Standing(prior) => Standing(prior)') /\ (Standing(mem) => Standing(mem)')
  BY <1>3, <1>4 DEF Standing
<1>6. QED
  BY <1>1, <1>2, <1>5 DEF CompleteInv, Publishing

LEMMA VerdictComplete ==
  ASSUME TypeOK, RunInv, NEW v \in Verdicts, Verdict(v),
         pc \in {"apply", "accepted"} \/ (Publishing /\ kind # "publish"),
         pc' = "stages" => Passed(at)'
  PROVE  CompleteInv'
<1>1. at \in 1..8 /\ ~mem.complete
  BY DEF TypeOK, RunInv, Publishing, Running
<1>2. ~mem'.complete /\ ledger' = mem' /\ pc' \in {"stages", "tail"}
  BY <1>1, VerdictFacts
<1>3. QED
  BY <1>2 DEF CompleteInv, Standing, Publishing

LEMMA IdleComplete == ASSUME Idle, Standing(ledger)' PROVE CompleteInv'
BY IdleFacts DEF CompleteInv, Publishing

LEMMA ApplyComplete ==
  TypeOK /\ RunInv /\ CompleteInv /\ (Apply \/ ApplyFails \/ Accept \/ AcceptLost \/ AcceptKept) => CompleteInv'
<1> SUFFICES ASSUME TypeOK, RunInv, CompleteInv, Apply \/ ApplyFails \/ Accept \/ AcceptLost \/ AcceptKept
             PROVE  CompleteInv'
  OBVIOUS
<1> USE DEF Publishing, Running
<1>1. /\ at \in 1..8 /\ pc \in {"apply", "accepted"} /\ Passed(at) /\ kind # "publish"
      /\ UNCHANGED run
  BY DEF Apply, ApplyFails, Accept, AcceptLost, AcceptKept, RunInv, TypeOK, CompleteInv
<1>2. Input' = Input
  BY <1>1 DEF run, Input
<1>3. CASE Apply
  <2>1. PICK v \in Verdicts : Verdict(v)
    BY <1>3 DEF Apply, Verdicts
  <2>2. ASSUME pc' = "stages" PROVE Passed(at)'
    <3>1. at' = at + 1 /\ at # 4 /\ at # 8
      BY <1>1, <1>3, <2>1, <2>2, VerdictFacts, StageFacts DEF Apply, RunInv, Stage
    <3>2. /\ at = 2 => proofs'[Input] = held
          /\ at # 2 => proofs' = proofs
          /\ at = 3 => stack' = held
          /\ at # 3 => stack' = stack /\ moved' = moved
      BY <1>1, <1>3, StageFacts, InputType DEF Apply, Stage, RuntimeProved, TypeOK
    <3>3. /\ evidence' = evidence /\ dest' = dest /\ effective' = effective /\ held' = held
          /\ "published" \in moved => "published" \in moved'
      BY <1>3 DEF Apply, outside, run
    <3>4. QED
      BY <1>1, <1>2, <3>1, <3>2, <3>3 DEF Passed
  <2>3. QED
    BY <1>1, <2>1, <2>2, VerdictComplete
<1>4. CASE ApplyFails
  <2>1. PICK v \in Verdicts : Verdict(v) /\ v # "pass"
    BY <1>4 DEF ApplyFails, Verdicts
  <2>2. pc' # "stages"
    BY <1>1, <2>1, VerdictFacts
  <2>3. QED
    BY <1>1, <2>1, <2>2, VerdictComplete
<1>5. CASE Accept /\ evidence[Input] # held
  <2>1. /\ Noticed /\ UNCHANGED <<ledger, at, source, effective, held, proofs>>
        /\ pc' = "accepted"
    BY <1>5 DEF Accept, Noticed, outside, run
  <2>2. Standing(ledger)' /\ Passed(at)'
    BY <1>1, <2>1, LedgerStands, PassedKept DEF CompleteInv
  <2>3. QED
    BY <2>1, <2>2 DEF CompleteInv
<1>6. CASE (Accept /\ evidence[Input] = held) \/ AcceptKept
  <2>1. Verdict("pass") /\ evidence'[Input] = held /\ at = 8 /\ "pass" \in Verdicts
    BY <1>1, <1>6, StageFacts, InputType DEF Accept, AcceptKept, RunInv, Stage, Verdicts, TypeOK
  <2>2. UNCHANGED <<proofs, stack, moved, dest, effective, held>>
    BY <1>6 DEF Accept, AcceptKept, outside, run
  <2>3. at' = 9
    BY <1>1, <2>1, VerdictFacts DEF Verdict
  <2>4. Passed(at)'
    BY <1>1, <1>2, <2>1, <2>2, <2>3 DEF Passed
  <2>5. QED
    BY <1>1, <2>1, <2>4, VerdictComplete
<1>7. CASE AcceptLost
  <2>1. Verdict("fail") /\ "fail" \in Verdicts
    BY <1>7 DEF AcceptLost, Verdicts
  <2>2. pc' # "stages"
    BY <1>1, <2>1, VerdictFacts
  <2>3. QED
    BY <1>1, <2>1, <2>2, VerdictComplete
<1>8. QED
  BY <1>3, <1>4, <1>5, <1>6, <1>7

LEMMA PublishComplete ==
  TypeOK /\ RunInv /\ CompleteInv /\ (Publish \/ MergeRetries \/ MergeUnanswered) => CompleteInv'
<1> SUFFICES ASSUME TypeOK, RunInv, CompleteInv, Publish \/ MergeRetries \/ MergeUnanswered
             PROVE  CompleteInv'
  OBVIOUS
<1> USE DEF Publishing, Running
<1>v. "pass" \in Verdicts /\ "fail" \in Verdicts /\ "unknown" \in Verdicts
  BY DEF Verdicts
<1>p. held \in Credentials
  BY DEF RunInv, Publish, MergeRetries, MergeUnanswered, CloneUnchanged, CloneChanged, Open,
     Merge, MergeWaits
<1>1. /\ Publishing /\ (proofs' = proofs \/ RuntimeProved) /\ evidence' = evidence
      /\ stack' = stack
      /\ "provisioned" \in moved => "provisioned" \in moved'
  BY DEF Publish, MergeRetries, MergeUnanswered, CloneUnchanged, CloneChanged, Open, Merge,
     MergeWaits, Stood, outside
<1>2. CASE kind = "publish"
  <2>1. \/ dest' = dest /\ moved' = moved
        \/ "published" \in moved' /\ ("provisioned" \in moved => "provisioned" \in moved')
    BY <1>2 DEF Publish, MergeRetries, MergeUnanswered, CloneUnchanged, CloneChanged, Open,
       Merge, MergeWaits, Stood, outside
  <2>0. \A i \in Inputs : proofs[i] # NoCredentials => proofs'[i] # NoCredentials
    BY <1>1, <1>p, InstallAssumption DEF RuntimeProved, TypeOK
  <2>2. Noticed
    BY <1>1, <2>0, <2>1 DEF Noticed
  <2>3. ledger' = ledger
    BY <1>2 DEF Publish, MergeRetries, MergeUnanswered, CloneUnchanged, CloneChanged, Open,
       Merge, MergeWaits, Published, Idle
  <2>4. Standing(ledger)'
    BY <2>2, <2>3, LedgerStands DEF CompleteInv
  <2>5. pc' = "idle" \/ (pc' \in {"open", "merge"} /\ kind' = kind)
    BY <1>2 DEF Publish, MergeRetries, MergeUnanswered, CloneUnchanged, CloneChanged, Open,
       Merge, MergeWaits, Published, Idle, run
  <2>6. QED
    BY <1>2, <2>4, <2>5 DEF CompleteInv
<1>3. CASE kind # "publish"
  <2>0. Passed(at) /\ at = 4 /\ ~ledger.complete
    BY <1>1, <1>3 DEF CompleteInv, RunInv
  <2>1. Passed(at) /\ at = 4 /\ ~ledger.complete /\ proofs'[Input] = held
    BY <1>1, <2>0, InputType DEF Passed, RuntimeProved, TypeOK
  <2>2. CASE \E v \in Verdicts : Published(v)
    <3>1. PICK v \in Verdicts : Published(v)
      BY <2>2
    <3>2. Verdict(v) /\ UNCHANGED run
      BY <1>3, <3>1 DEF Published
    <3>3. pc' = "stages" => v = "pass" /\ at' = 5
      BY <2>1, <3>2, VerdictFacts
    <3>4. pc' = "stages" => dest' = effective
      <4>1. ASSUME NEW w \in Verdicts, Published(w) PROVE mem'.stages["published"] = w
        <5>1. mem' = [mem EXCEPT !.stages["published"] = w]
          BY <1>3, <2>1, <4>1, StageFacts DEF Published, Verdict, Save, Stage
        <5>2. QED
          BY <5>1, StageFacts DEF TypeOK, Ledgers
      <4>2. v = "pass" => ~Published("fail") /\ ~Published("unknown")
        BY <1>v, <3>1, <4>1
      <4>3. v = "pass" /\ pc' = "stages" => dest' = effective
        BY <1>3, <3>2, <4>2 DEF Publish, MergeRetries, MergeUnanswered, CloneUnchanged,
           CloneChanged, Open, Merge, MergeWaits, Merged, outside
      <4>4. QED
        BY <3>3, <4>3
    <3>5. pc' = "stages" => Passed(at)'
      BY <1>1, <2>1, <3>2, <3>3, <3>4 DEF Passed, run, Input
    <3>6. QED
      BY <1>1, <1>3, <3>2, <3>5, VerdictComplete
  <2>3. CASE UNCHANGED <<ledger, run, mem, at, dest, moved>> /\ pc' \in {"open", "merge"}
    <3>1. Passed(at)'
      BY <1>1, <2>1, <2>3 DEF Passed, run, Input
    <3>2. QED
      BY <2>1, <2>3, <3>1 DEF CompleteInv, Standing
  <2>4. QED
    BY <1>v, <2>2, <2>3 DEF Publish, MergeRetries, MergeUnanswered, CloneUnchanged, CloneChanged,
       Open, Merge, MergeWaits, outside
<1>4. QED
  BY <1>2, <1>3

LEMMA CompleteStep == TypeOK /\ RunInv /\ CompleteInv /\ [Next]_vars => CompleteInv'
<1> SUFFICES ASSUME TypeOK, RunInv, CompleteInv, [Next]_vars PROVE CompleteInv'
  OBVIOUS
<1> USE DEF Publishing, Running
<1>1. CASE World \/ UNCHANGED vars
  <2>1. Noticed /\ UNCHANGED <<ledger, mem, prior, at, pc, kind, source, effective, held, proofs>>
    BY <1>1 DEF World, Drift, Rollout, Release, Rotate, MergeByHand, Merged, vars, files, run, outside,
       Noticed
  <2>2. QED
    BY <2>1, NoticedStep
<1>2. CASE Resume \/ ByHand
  <2>1. PICK k \in {"resume", "apply", "publish"} : Start(k)
    BY <1>2 DEF Resume, ByHand
  <2>2. Noticed /\ prior' = ledger /\ pc' = "decide"
    BY <2>1 DEF Start, Noticed, outside
  <2>3. PICK l \in Ledgers : l = ledger
    BY DEF TypeOK
  <2>4. Standing(l)'
    BY <2>2, <2>3, StandingKept DEF CompleteInv
  <2>5. Standing(prior)'
    BY <2>2, <2>3, <2>4 DEF Standing
  <2>6. ledger' = ledger \/ ~ledger'.complete
    BY <2>1 DEF Start, TypeOK, Ledgers
  <2>7. Standing(ledger)'
    BY <2>2, <2>6, LedgerStands, IncompleteStands DEF CompleteInv
  <2>8. QED
    BY <2>2, <2>5, <2>7 DEF CompleteInv
<1>3. CASE Crash \/ PreflightFails
  <2>1. Noticed /\ Idle
    BY <1>3 DEF Crash, PreflightFails, Noticed, files, outside
  <2>2. ledger' = ledger \/ ~ledger'.complete
    BY <1>3 DEF Crash, PreflightFails, files, TypeOK, Ledgers
  <2>3. QED
    BY <2>1, <2>2, LedgerStands, IncompleteStands, IdleComplete DEF CompleteInv
<1>4. CASE Resolve
  <2>1. Noticed /\ UNCHANGED <<ledger, prior, kind>>
        /\ pc' = IF kind = "publish" THEN "clone" ELSE "enter"
    BY <1>4 DEF Resolve, Noticed, outside, files
  <2>2. PICK p \in Ledgers : p = prior
    BY DEF TypeOK
  <2>3. Standing(p)'
    BY <1>4, <2>2, <2>1, StandingKept DEF CompleteInv, Resolve
  <2>4. Standing(prior)'
    BY <2>1, <2>2, <2>3 DEF Standing
  <2>5. Standing(ledger)'
    BY <2>1, LedgerStands DEF CompleteInv
  <2>6. QED
    BY <2>1, <2>4, <2>5 DEF CompleteInv
<1>5. CASE Skip
  <2>1. /\ prior.complete /\ prior.input = Input /\ Idle
        /\ UNCHANGED <<dest, stack, moved, proofs, evidence>>
    BY <1>5 DEF Skip, Skips, outside
  <2>2. /\ ledger'.input = prior.input /\ ledger'.applied = Recorded
    BY <1>5 DEF Skip, TypeOK, Ledgers
  <2>3. Recorded.effective = prior.input.effective
    BY <2>1, InputType DEF Recorded
  <2>4. Standing(prior)
    BY <1>5 DEF Skip, CompleteInv
  <2>5. Standing(ledger)'
    BY <2>1, <2>2, <2>3, <2>4 DEF Standing
  <2>6. QED
    BY <2>1, <2>5, IdleComplete
<1>6. CASE Enter
  <2>1. /\ Noticed /\ ledger' = ledger /\ pc' = "stages" /\ at' = at /\ at = 1
    BY <1>6 DEF Enter, Noticed, outside, files, RunInv
  <2>2. Passed(at)'
    BY <2>1 DEF Passed
  <2>3. QED
    BY <2>1, <2>2, LedgerStands DEF CompleteInv
<1>7. CASE Keep
  <2>1. at \in 1..8 /\ at' = at + 1 /\ Passed(at) /\ kind # "publish"
    BY <1>7 DEF Keep, Reprobed, CompleteInv, TypeOK, RunInv
  <2>2. /\ at = 2 => proofs[Input] = held
        /\ at = 3 => stack = held
        /\ at = 4 => dest = effective
        /\ at # 8
    BY <1>7, <2>1, StageFacts DEF Keep, Reprobed, Holds, Probed, Stage
  <2>3. /\ at # 4 => ("published" \in moved => "published" \in moved')
        /\ at # 3 => ("provisioned" \in moved => "provisioned" \in moved')
    BY <1>7, <2>1, StageFacts DEF Keep, Stage
  <2>4. Input' = Input /\ UNCHANGED <<proofs, evidence, stack, dest, effective, held>>
    BY <1>7 DEF Keep, run, Input, outside, files
  <2>5. Passed(at)'
    <3>1. PICK n : n = at + 1
      OBVIOUS
    <3>2. Passed(n)'
      BY <2>1, <2>2, <2>3, <2>4, <3>1 DEF Passed
    <3>3. QED
      BY <2>1, <3>1, <3>2 DEF Passed
  <2>6. pc' = "stages" /\ ~ledger'.complete
    BY <1>7, <2>1 DEF Keep, files, RunInv
  <2>7. QED
    BY <2>5, <2>6, IncompleteStands DEF CompleteInv
<1>8. CASE ProbeThrows
  <2>1. /\ mem'.complete = mem.complete /\ ledger' = mem' /\ pc' = "tail" /\ ~mem.complete
    BY <1>8, StageFacts, LedgerFacts DEF ProbeThrows, Save, Stage, Reprobed, TypeOK, RunInv, Verdicts
  <2>2. QED
    BY <2>1 DEF CompleteInv, Standing
<1>9. CASE Redo
  <2>1. /\ Noticed /\ UNCHANGED <<at, source, effective, held, proofs>>
        /\ pc' \in {"clone", "apply"}
    BY <1>9 DEF Redo, Noticed, outside, run
  <2>2. PICK g : g = [st \in StageNames |->
           IF \E n \in at..8 : Stages[n] = st THEN "none" ELSE mem.stages[st]]
    OBVIOUS
  <2>3. mem' = [mem EXCEPT !.stages = g] /\ ledger' = mem'
    BY <1>9, <2>2 DEF Redo, Save
  <2>4. ~ledger'.complete
    BY <1>9, <2>3 DEF TypeOK, Ledgers, RunInv, Redo
  <2>5. Passed(at)'
    BY <1>9, <2>1, PassedKept DEF CompleteInv, Redo
  <2>6. QED
    BY <2>1, <2>4, <2>5, IncompleteStands DEF CompleteInv
<1>10. CASE Apply \/ ApplyFails \/ Accept \/ AcceptLost \/ AcceptKept
  BY <1>10, ApplyComplete
<1>11. CASE Complete
  <2>1. /\ mem'.input = mem.input /\ mem'.skipped = mem.skipped /\ ledger' = mem'
        /\ pc' = "tail"
    BY <1>11, LedgerFacts DEF Complete, Save, TypeOK
  <2>2. Passed(9) /\ mem.input = Input /\ ~mem.skipped /\ held # NoCredentials
    BY <1>11, InstallAssumption DEF Complete, CompleteInv, RunInv
  <2>3. UNCHANGED <<dest, stack, moved, proofs, evidence>>
    BY <1>11 DEF Complete, outside
  <2>4. Standing(mem)'
    BY <2>1, <2>2, <2>3, InputType DEF Standing, Passed
  <2>5. QED
    BY <2>1, <2>4 DEF CompleteInv, Standing
<1>12. CASE Settle
  <2>1. /\ ledger'.complete = mem.complete /\ ledger'.input = mem.input /\ ~ledger'.skipped
        /\ UNCHANGED <<dest, stack, moved, proofs, evidence>> /\ Idle
    BY <1>12 DEF Settle, outside, TypeOK, Ledgers
  <2>2. Standing(mem)
    BY <1>12 DEF Settle, CompleteInv
  <2>3. Standing(ledger)'
    BY <2>1, <2>2 DEF Standing
  <2>4. QED
    BY <2>1, <2>3, IdleComplete
<1>13. CASE Publish \/ MergeRetries \/ MergeUnanswered
  BY <1>13, PublishComplete
<1>14. QED
  BY <1>1, <1>2, <1>3, <1>4, <1>5, <1>6, <1>7, <1>8, <1>9, <1>10, <1>11, <1>12, <1>13
     DEF Next, Stepped, Failure

-----------------------------------------------------------------------------
(* Acceptance, and what is carried *)

LEMMA AcceptStep == TypeOK /\ RunInv /\ AcceptInv /\ [Next]_vars => AcceptInv'
<1> SUFFICES ASSUME TypeOK, RunInv, AcceptInv, [Next]_vars PROVE AcceptInv'
  OBVIOUS
<1>0. /\ accepted \in [Inputs -> Nat] /\ unkept \in [Inputs -> Nat] /\ rotated \in Nat
      /\ evidence \in [Inputs -> Held] /\ Input \in Inputs
      /\ Behind \in {0, 1} /\ \A i : Standby(i) \in {0, 1}
  BY InputType DEF TypeOK, Behind, Standby
\* A step that passes, keeps and rotates nothing.
<1>1. ASSUME UNCHANGED <<creds, rotated, evidence, counted, held, Input>>,
             pc' = pc \/ {pc, pc'} \cap {"idle", "accepted"} = {}
      PROVE  AcceptInv'
  <2>1. Behind' = Behind /\ \A i : Standby(i)' = Standby(i)
    BY <1>1 DEF Behind, Standby, Read
  <2>2. QED
    BY <1>1, <2>1 DEF AcceptInv, counted
\* A run that ends, and leaves evidence of all that passed.
<1>2. ASSUME Idle, UNCHANGED <<creds, rotated, evidence, counted>>, pc \notin {"idle", "accepted"}
      PROVE  AcceptInv'
  <2>1. pc' = "idle" /\ Behind' = 0 /\ \A i : Standby(i)' = IF evidence[i] = creds THEN 1 ELSE 0
    BY <1>2, IdleFacts DEF Behind, Standby, Read
  <2>2. \A i \in Inputs : Standby(i) <= Behind + Standby(i)'
    BY <1>2, <2>1 DEF Behind, Standby, Read
  <2>3. QED
    BY <1>0, <1>2, <2>1, <2>2 DEF AcceptInv, counted
<1>3. CASE Resume \/ ByHand
  <2>1. /\ pc = "idle" /\ pc' = "decide" /\ held' = creds
        /\ UNCHANGED <<creds, rotated, evidence, counted>>
    BY <1>3 DEF Resume, ByHand, Start, wanted
  <2>2. Behind' = Behind /\ \A i : Standby(i)' = Standby(i)
    BY <2>1 DEF Behind, Standby, Read
  <2>3. QED
    BY <2>1, <2>2 DEF AcceptInv, counted
<1>4. ASSUME NEW k \in Credentials, Rotate(k) PROVE AcceptInv'
  <2>1. /\ rotated' = rotated + 1 /\ UNCHANGED <<evidence, counted, pc, held, Input>>
    BY <1>4 DEF Rotate, files, run, Input
  <2>2. /\ pc = "idle" => Behind' = 0
        /\ pc # "idle" => \A i : Standby(i)' = Standby(i)
        /\ Behind' \in {0, 1} /\ \A i : Standby(i)' \in {0, 1}
    BY <2>1 DEF Behind, Standby, Read
  <2>3. \A i \in Inputs : Behind' + Standby(i) <= Behind + 1 + Standby(i)'
    BY <1>0, <2>2
  <2>4. QED
    BY <1>0, <2>1, <2>2, <2>3 DEF AcceptInv, counted
<1>5. CASE Accept /\ evidence[Input] # held
  <2>1. /\ accepted' = [accepted EXCEPT ![Input] = @ + 1] /\ pc' = "accepted" /\ pc = "apply"
        /\ UNCHANGED <<creds, rotated, evidence, unkept, held, Input>>
    BY <1>5 DEF Accept, run, wanted, Input
  <2>2. /\ Behind' = Behind /\ Standby(Input) = 0 /\ Standby(Input)' = 1
        /\ \A i : i # Input => Standby(i)' = Standby(i)
    BY <1>5, <2>1 DEF Behind, Standby, Read
  <2>3. /\ accepted'[Input] = accepted[Input] + 1
        /\ \A i \in Inputs : i # Input => accepted'[i] = accepted[i]
    BY <1>0, <2>1
  <2>4. ASSUME NEW i \in Inputs PROVE accepted'[i] + Behind' <= rotated' + unkept'[i] + Standby(i)'
    BY <1>0, <2>1, <2>2, <2>3 DEF AcceptInv
  <2>5. QED
    BY <1>5, <2>1, <2>4 DEF AcceptInv
<1>6. CASE AcceptKept
  <2>1. /\ evidence' = [evidence EXCEPT ![Input] = held] /\ pc = "accepted" /\ Verdict("pass")
        /\ UNCHANGED <<creds, rotated, counted, held, Input>>
    BY <1>6 DEF AcceptKept, run, wanted, Input
  <2>2. pc' \notin {"idle", "accepted"}
    BY <2>1 DEF Verdict
  <2>3. Behind' = Behind /\ \A i \in Inputs : Standby(i)' = Standby(i)
    BY <1>0, <2>1, <2>2 DEF Behind, Standby, Read
  <2>4. QED
    BY <2>1, <2>2, <2>3 DEF AcceptInv, counted
<1>7. CASE AcceptLost
  <2>1. /\ unkept' = [unkept EXCEPT ![Input] = @ + 1] /\ pc \in {"apply", "accepted"}
        /\ UNCHANGED <<creds, rotated, evidence, held, Input>>
        /\ \/ pc = "accepted" /\ accepted' = accepted
           \/ pc = "apply" /\ accepted' = [accepted EXCEPT ![Input] = @ + 1]
    BY <1>7 DEF AcceptLost, run, wanted, Input
  <2>2. pc' \notin {"idle", "accepted"}
    BY <1>7 DEF AcceptLost, Verdict
  <2>3. /\ Behind' = Behind
        /\ \A i : i # Input => Standby(i)' = Standby(i)
        /\ Standby(Input)' = IF pc = "accepted" THEN 0 ELSE Standby(Input)
    BY <2>1, <2>2 DEF Behind, Standby, Read, AcceptInv
  <2>4. /\ unkept'[Input] = unkept[Input] + 1
        /\ \A i \in Inputs : i # Input => unkept'[i] = unkept[i] /\ accepted'[i] = accepted[i]
        /\ accepted'[Input] = IF pc = "accepted" THEN accepted[Input] ELSE accepted[Input] + 1
    BY <1>0, <2>1
  <2>5. ASSUME NEW i \in Inputs PROVE accepted'[i] + Behind' <= rotated' + unkept'[i] + Standby(i)'
    <3>1. CASE i # Input
      BY <1>0, <2>1, <2>3, <2>4, <3>1 DEF AcceptInv
    <3>2. CASE i = Input
      BY <1>0, <2>1, <2>3, <2>4, <3>2 DEF AcceptInv
    <3>3. QED
      BY <3>1, <3>2
  <2>6. QED
    BY <2>2, <2>5 DEF AcceptInv
<1>8. CASE Crash
  <2>1. Idle /\ UNCHANGED <<creds, rotated, evidence, accepted>> /\ pc # "idle"
    BY <1>8 DEF Crash, files, wanted
  <2>2. CASE pc # "accepted"
    BY <1>2, <1>8, <2>1, <2>2 DEF Crash, counted
  <2>3. CASE pc = "accepted"
    <3>1. unkept' = [unkept EXCEPT ![Input] = @ + 1]
      BY <1>8, <2>3 DEF Crash
    <3>2. pc' = "idle" /\ Behind' = 0 /\ \A i : Standby(i)' = IF evidence[i] = creds THEN 1 ELSE 0
      BY <2>1, IdleFacts DEF Behind, Standby, Read
    <3>3. /\ unkept'[Input] = unkept[Input] + 1
          /\ \A i \in Inputs : i # Input => unkept'[i] = unkept[i]
      BY <1>0, <3>1
    <3>4. ASSUME NEW i \in Inputs PROVE accepted'[i] + Behind' <= rotated' + unkept'[i] + Standby(i)'
      <4>1. CASE i = Input
        BY <1>0, <2>1, <3>2, <3>3, <4>1 DEF AcceptInv
      <4>2. CASE i # Input
        <5>1. Standby(i) <= Behind + Standby(i)'
          BY <2>1, <2>3, <3>2, <4>2 DEF Behind, Standby, Read
        <5>2. QED
          BY <1>0, <2>1, <3>2, <3>3, <4>2, <5>1 DEF AcceptInv
      <4>3. QED
        BY <4>1, <4>2
    <3>5. QED
      BY <3>2, <3>4 DEF AcceptInv
  <2>4. QED
    BY <2>2, <2>3
<1>9. CASE Drift \/ Rollout \/ (\E c \in Commits : Release(c) \/ MergeByHand(c)) \/ UNCHANGED vars
  BY <1>1, <1>9 DEF Drift, Rollout, Release, MergeByHand, vars, wanted, files, run, Input
<1>10. ASSUME NEW v, Verdict(v), pc \notin {"idle", "accepted"},
              UNCHANGED <<creds, rotated, evidence, counted, run>>
       PROVE  AcceptInv'
  BY <1>1, <1>10 DEF Verdict, run, Input
<1>11. CASE Apply \/ ApplyFails \/ (Accept /\ evidence[Input] = held)
  BY <1>10, <1>11 DEF Apply, ApplyFails, Accept, wanted, counted
<1>12. CASE Publish \/ MergeRetries \/ MergeUnanswered
  <2>1. /\ UNCHANGED <<creds, rotated, evidence, counted>> /\ pc \in {"clone", "open", "merge"}
        /\ \/ \E v : Published(v)
           \/ UNCHANGED run /\ pc' \in {"open", "merge"}
    BY <1>12 DEF Publish, CloneUnchanged, CloneChanged, Open, Merge, MergeWaits,
       MergeRetries, MergeUnanswered, wanted
  <2>2. CASE \E v : Published(v)
    BY <1>2, <1>10, <2>1, <2>2 DEF Published
  <2>3. CASE UNCHANGED run /\ pc' \in {"open", "merge"}
    BY <1>1, <2>1, <2>3 DEF run, Input
  <2>4. QED
    BY <2>1, <2>2, <2>3
<1>13. CASE PreflightFails \/ Skip \/ Settle
  BY <1>2, <1>13 DEF PreflightFails, Skip, Settle, wanted
<1>14. CASE Resolve
  <2>1. /\ UNCHANGED <<creds, rotated, evidence, counted, held>>
        /\ pc = "decide" /\ pc' \in {"clone", "enter"}
    BY <1>14 DEF Resolve, wanted, files
  <2>2. Behind' = Behind /\ \A i : Standby(i)' = Standby(i)
    BY <2>1 DEF Behind, Standby, Read
  <2>3. QED
    BY <2>1, <2>2 DEF AcceptInv, counted
<1>15. CASE Enter \/ Keep \/ ProbeThrows \/ Redo \/ Complete
  BY <1>1, <1>15 DEF Enter, Keep, ProbeThrows, Redo, Complete, wanted, files, run, Input
<1>16. QED
  BY <1>3, <1>4, <1>5, <1>6, <1>7, <1>8, <1>9, <1>11, <1>12, <1>13, <1>14, <1>15
     DEF Next, Stepped, Failure, World

LEMMA CarryStep == TypeOK /\ CarryInv /\ [Next]_vars => CarryInv'
<1> SUFFICES ASSUME TypeOK, CarryInv, [Next]_vars PROVE CarryInv'
  OBVIOUS
<1>1. CASE Resolve
  BY <1>1 DEF Resolve, CarryInv, Carried
<1>2. CASE pc' \in {"idle", "decide"}
  BY <1>2 DEF CarryInv
<1>3. CASE pc \notin {"idle", "decide"} /\ UNCHANGED <<prior, source, effective>>
  BY <1>3 DEF CarryInv, Carried
<1>4. CASE World \/ UNCHANGED vars
  BY <1>4 DEF World, Drift, Rollout, Release, Rotate, MergeByHand, vars, run, CarryInv, Carried
<1>5. CASE Publish \/ MergeRetries \/ MergeUnanswered
  BY <1>2, <1>3, <1>5 DEF Publish, MergeRetries, MergeUnanswered, CloneUnchanged, CloneChanged,
     Open, Merge, MergeWaits, Published, Idle, run
<1>6. QED
  BY <1>1, <1>2, <1>3, <1>4, <1>5 DEF Next, Stepped, Failure, Resume, ByHand, Start, Crash,
     PreflightFails, Skip, Enter, Keep, ProbeThrows, Redo, Apply, ApplyFails, Accept, AcceptLost, AcceptKept,
     Complete, Settle, Idle, run

-----------------------------------------------------------------------------
(* The theorems *)

LEMMA Initially == Init => IInv
<1> SUFFICES ASSUME Init PROVE IInv
  OBVIOUS
<1> USE InputFacts, InstallAssumption DEF Init
<1>1. TypeOK
  <2>1. /\ accepted \in [Inputs -> Nat] /\ unkept \in [Inputs -> Nat] /\ left \in [DOMAIN Budget -> Nat]
        /\ heads \in [Commits -> [state : {"none", "pushed", "open", "merged"}, base : OrNone]]
    BY DEF OrNone, NoHead
  <2>2. ledger \in Ledgers /\ mem \in Ledgers /\ prior \in Ledgers
    OBVIOUS
  <2>3. moved \in SUBSET {"provisioned", "published"} /\ proofs \in [Inputs -> Held]
        /\ evidence \in [Inputs -> Held]
    BY DEF Held
  <2>4. creds \in Credentials /\ held \in Held /\ stack \in Held /\ rotated \in Nat
    BY DEF Held
  <2>5. /\ at \in 1..9 /\ tries \in 0..2 /\ kind \in {"resume", "apply", "publish"}
        /\ desired \in Commits /\ dest \in OrNone /\ cluster \in OrNone
        /\ source \in OrNone /\ effective \in OrNone /\ pc = "idle"
    BY DEF OrNone
  <2>6. QED
    BY <2>1, <2>2, <2>3, <2>4, <2>5 DEF TypeOK
<1>2. RunInv
  BY DEF RunInv, Recording, Running, Publishing
<1>3. CompleteInv
  BY DEF CompleteInv, Standing, Publishing
<1>4. AcceptInv
  <2>1. Behind = 0 /\ \A i \in Inputs : Standby(i) \in {0, 1} /\ accepted[i] = 0 /\ unkept[i] = 0
    BY DEF Behind, Standby, Read
  <2>2. QED
    BY <2>1 DEF AcceptInv
<1>5. CarryInv
  BY DEF CarryInv
<1>6. QED
  BY <1>1, <1>2, <1>3, <1>4, <1>5 DEF IInv

LEMMA Inductive == Spec => []IInv
<1>1. IInv /\ [Next]_vars => IInv'
  BY TypeStep, RunStep, CompleteStep, AcceptStep, CarryStep DEF IInv
<1>2. QED
  BY <1>1, Initially, PTL DEF Spec

\* The runs of an installation and their files are well typed.
THEOREM TypeCorrect == Spec => []TypeOK
BY Inductive, PTL DEF IInv

\* Whatever is cut off, throws, is merged by hand or published beside it, a
\* ledger that says complete speaks of what is there (runOrSkip, executeStages).
THEOREM CompleteInstalledKept == Spec => []CompleteInstalled
<1>1. IInv => CompleteInstalled
  BY DEF IInv, CompleteInv, Standing, RunInv, Recording, CompleteInstalled
<1>2. QED
  BY <1>1, Inductive, PTL

\* The scenario that writes passes once per input: again only after a pass that
\* left no evidence, or after its credentials were rotated, also if they were
\* rotated while a run was under way (command.ts, acceptance-verified).
THEOREM AcceptedOnceKept == Spec => []AcceptedOnce
<1>1. IInv => AcceptedOnce
  <2> SUFFICES ASSUME IInv, NEW i \in Inputs PROVE accepted[i] <= 1 + unkept[i] + rotated
    BY DEF AcceptedOnce
  <2>1. /\ accepted[i] \in Nat /\ unkept[i] \in Nat /\ rotated \in Nat
        /\ Behind \in {0, 1} /\ Standby(i) \in {0, 1}
    BY DEF IInv, TypeOK, Behind, Standby
  <2>2. QED
    BY <2>1 DEF IInv, AcceptInv
<1>2. QED
  BY <1>1, Inductive, PTL

\* A release that an agent is not built from leaves the destination as it is
\* (decideSource), from the run's own merges.
THEOREM ContentRollsNothingKept == Spec => ContentRollsNothing
<1>1. ASSUME IInv, [Next]_vars, pc = "merge", pc' # pc, dest \notin {NoCommit, dest'},
             prior.applied.effective = dest
      PROVE  AgentInputs[dest'] # AgentInputs[dest] \/ <<dest, dest'>> \notin Ancestors
  <2>1. Merge \/ MergeUnanswered
    BY <1>1 DEF Next, Stepped, Failure, World, Publish, Resume, ByHand, Release, Rotate, Drift, Rollout,
       MergeByHand, Crash, Start, PreflightFails, Resolve, Skip, Enter, Keep, ProbeThrows,
       Redo, Apply, ApplyFails, Accept, AcceptLost, AcceptKept, Complete, Settle, CloneUnchanged,
       CloneChanged, Open, MergeWaits, MergeRetries, vars, outside
  <2>2. dest' = effective
    BY <2>1 DEF Merge, MergeUnanswered, Merged
  <2>3. effective = source /\ ~Carried(source) /\ effective # dest
    BY <1>1, <2>2 DEF IInv, CarryInv
  <2>4. QED
    BY <1>1, <2>2, <2>3 DEF Carried
<1>2. IInv /\ [Next]_vars =>
        [pc = "merge" /\ pc' # pc /\ dest \notin {NoCommit, dest'} /\ prior.applied.effective = dest
           => \/ AgentInputs[dest'] # AgentInputs[dest]
              \/ <<dest, dest'>> \notin Ancestors]_vars
  BY <1>1
<1>3. QED
  BY <1>2, Inductive, PTL DEF Spec, ContentRollsNothing
=============================================================================
