------------------------ MODULE WorkspaceSync_proofs ------------------------
(***************************************************************************)
(* Theorems about the tracked workspace, for any commits, branches,        *)
(* bindings and bounds: the link leads to a whole revision, one that is    *)
(* its commit, the stamp tells of the tree served, a reader sees no more   *)
(* than ServedTree promises, and the claim does not fill up.               *)
(***************************************************************************)
EXTENDS WorkspaceSync, SequenceTheorems, FiniteSetTheorems, TLAPS

OrNone == Commits \cup {NoCommit}

\* What the argument needs of the types.
Typed ==
  /\ remote \in [Branches -> OrNone] /\ tips \in [Branches -> SUBSET Commits]
  /\ binding \in Bindings
  /\ path \in [kind : {"none", "dir", "link"}, rev : OrNone]
  /\ revs \in [Commits -> {"absent", "clean", "modified"}]
  /\ stamp \in [branch : Branches \cup {NoBranch}, sha : OrNone,
                fetched : OrNone, failures : 0..MaxFailures]
  /\ s \in [live : OrNone, served : Branches \cup {NoBranch}, fetched : OrNone,
            failures : 0..MaxFailures, tip : OrNone]
  /\ from \in Branches \cup {NoBranch} /\ recorded \in BOOLEAN

-----------------------------------------------------------------------------
(* Where an attempt stands. *)

Pinning == pc \in {"pinremove", "pinclone", "pinstamp"}
Trying  == pc \in {"fetch", "check", "inspect", "clone", "clear", "switch"}
Chosen  == pc \in {"inspect", "clone", "clear", "switch"}
Serving == pc \in {"record", "stamp", "keep", "prune"}

\* The tip an attempt took is one its branch had, and converging on it is safe.
TipInv ==
  /\ \A b \in Branches : remote[b] \in tips[b] \cup {NoCommit}
  /\ Trying \/ Serving => Tracked(binding)
  /\ pc = "check" \/ Chosen \/ Serving => s.tip \in tips[binding.branch]
  /\ Chosen => /\ s.tip # s.live
               /\ s.live # NoCommit /\ s.served = binding.branch
                    => <<s.live, s.tip>> \in Ancestors

\* The link does not move under an attempt, and what it is about to lead to is
\* there: its commit, or modified since the attempt began.
LinkInv ==
  /\ ServedWhole
  /\ Trying => s.live = LiveSha
  /\ pc \in {"clear", "switch"} =>
        \/ revs[s.tip] = "clean"
        \/ revs[s.tip] = "modified" /\ s.tip \in touched
  /\ Serving => path = Link(s.tip)
  /\ Pinning => path.kind # "link" /\ ~Tracked(binding)

\* The branch an attempt would stamp for the tree served is the one it came from.
StampInv ==
  /\ StampHonest
  /\ path.kind = "link" => from \in Branches
  /\ Trying /\ LiveSha # NoCommit /\ recorded => s.served = from

IInv == Typed /\ TipInv /\ LinkInv /\ StampInv

Permitted(c) == c \in writable <=> binding.access = "read-write"

\* The sha and the marker are those of the tree served, or failed to be.
Noted ==
  /\ shaStamp = LiveSha \/ "sha" \in undone
  /\ marker => "marker" \in undone

\* What an attempt has put in order, or failed to, before its stamp, and that
\* the agent runs on an attempt that failed or came that far.
CompleteInv ==
  /\ (LiveSha # NoCommit /\ recorded) \/ pc = "stamp" => Noted
  /\ pc \in {"stamp", "keep", "prune"} => Permitted(s.tip) \/ "access" \in undone
  /\ agentUp /\ LiveSha # NoCommit /\ recorded /\ Tracked(binding) /\ stamp.failures = 0
       => Permitted(LiveSha) \/ "access" \in undone
  /\ pc = "idle" => agentUp

\* A record, whole or cut off, touches what it is about only.
LEMMA RecordingFacts ==
  ASSUME NEW parts, Recording(parts), binding \in Bindings
  PROVE  /\ "access" \in parts => (s.tip \in writable' <=> binding.access = "read-write")
         /\ \/ (s.tip \in writable' <=> binding.access = "read-write")
            \/ writable' = writable
         /\ shaStamp' = IF "sha" \in parts THEN s.tip ELSE shaStamp
         /\ "marker" \in parts => ~marker'
         /\ marker' => marker
<1>1. binding.access \in {"read-only", "read-write"}
  BY SyncAssumption
<1>2. s.tip \in Access <=> binding.access = "read-write"
  BY <1>1 DEF Access
<1>3. QED
  BY <1>2 DEF Recording

-----------------------------------------------------------------------------
(* Types *)

LEMMA BindingType ==
  ASSUME binding \in Bindings
  PROVE  /\ binding.branch \in Branches \cup {NoBranch}
         /\ binding.sha \in OrNone
         /\ Tracked(binding) => binding.branch \in Branches
BY SyncAssumption DEF OrNone, Tracked

LEMMA FailedType == Typed /\ Failed => stamp' \in [branch : Branches \cup {NoBranch},
                        sha : OrNone, fetched : OrNone, failures : 0..MaxFailures]
                      /\ s' = Idle
<1> SUFFICES ASSUME Typed, Failed
             PROVE  /\ stamp' \in [branch : Branches \cup {NoBranch},
                           sha : OrNone, fetched : OrNone, failures : 0..MaxFailures]
                    /\ s' = Idle
  OBVIOUS
<1>1. Counted(s.failures) \in 0..MaxFailures
  BY SyncAssumption DEF Typed, Counted
<1>2. QED
  BY <1>1 DEF Typed, Failed, Ready

LEMMA IdleType == Idle \in [live : OrNone, served : Branches \cup {NoBranch},
                    fetched : OrNone, failures : 0..MaxFailures, tip : OrNone]
BY SyncAssumption DEF Idle, OrNone

LEMMA TypedStep == Typed /\ TipInv /\ [Next]_vars => Typed'
<1> SUFFICES ASSUME Typed, TipInv, [Next]_vars PROVE Typed'
  OBVIOUS
<1> USE SyncAssumption
<1>b. /\ binding.branch \in Branches \cup {NoBranch} /\ binding.sha \in OrNone
      /\ Tracked(binding) => binding.branch \in Branches
  BY BindingType DEF Typed
<1>i. Idle \in [live : OrNone, served : Branches \cup {NoBranch},
        fetched : OrNone, failures : 0..MaxFailures, tip : OrNone]
  BY IdleType
<1>t. pc = "check" \/ Chosen \/ Serving => s.tip \in Commits
  BY <1>b DEF TipInv, Typed, Trying, Chosen, Serving
<1>1. ASSUME NEW b \in Branches, NEW c \in OrNone, Push(b, c) PROVE Typed'
  BY <1>1 DEF Typed, Push, OrNone, claim, observed
<1>2. ASSUME NEW c \in Commits, Edit(c) PROVE Typed'
  BY <1>2 DEF Typed, Edit, world
<1>3. ASSUME NEW b \in Bindings, Restart(b) PROVE Typed'
  BY <1>3, <1>i DEF Typed, Restart, claim, observed
<1>4. CASE Crash
  BY <1>4, <1>i DEF Typed, Crash, world, observed, Partial, Checkout, OrNone
<1>5. CASE PinStart
  BY <1>5, <1>i DEF Typed, PinStart, Ready, world, Nothing, NoStamp, OrNone
<1>6. CASE PinRemove
  BY <1>6 DEF Typed, PinRemove, world, observed, Nothing, OrNone
<1>7. CASE PinClone
  BY <1>7, <1>b DEF Typed, PinClone, world, observed, Checkout
<1>8. CASE PinCloneFails
  BY <1>8, <1>i DEF Typed, PinCloneFails, Ready, world, observed, Nothing, OrNone
<1>9. CASE PinStamp
  BY <1>9, <1>i DEF Typed, PinStamp, Ready, world, observed
<1>10. CASE Begin
  <2>1. s' \in [live : OrNone, served : Branches \cup {NoBranch},
          fetched : OrNone, failures : 0..MaxFailures, tip : OrNone]
    BY <1>10, <1>b DEF Typed, Begin, LiveSha, OrNone
  <2>2. QED
    BY <1>10, <2>1 DEF Typed, Begin, world, claim
<1>11. CASE Fetch
  BY <1>11, <1>b DEF Typed, TipInv, Trying, Fetch, world, claim, observed
<1>12. CASE FetchFails \/ CloneFails \/ SwitchFails \/ Refuse
  <2>1. Failed /\ UNCHANGED <<world, path, revs, observed>>
    BY <1>12 DEF FetchFails, CloneFails, SwitchFails, Refuse
  <2>2. QED
    BY <2>1, FailedType, <1>i DEF Typed, world, observed
<1>13. CASE Check
  BY <1>13 DEF Typed, Check, world, claim, observed
<1>14. CASE Inspect
  BY <1>14 DEF Typed, Inspect, world, observed
<1>15. CASE Clone
  BY <1>15 DEF Typed, Clone, world, observed
<1>16. CASE Clear
  BY <1>16 DEF Typed, Clear, world, observed, Nothing, OrNone
<1>17. CASE Switch
  BY <1>17, <1>b, <1>t DEF Typed, Switch, world, Link, Chosen, OrNone
<1>18. CASE Record
  BY <1>18 DEF Typed, Record, world, observed
<1>19. CASE Stamp
  <2>1. s.tip \in OrNone /\ binding.branch \in Branches
    BY <1>19, <1>b, <1>t DEF Stamp, TipInv, Serving, OrNone
  <2>2. CASE Stamped
    BY <1>19, <2>1, <2>2 DEF Typed, Stamp, Stamped, world
  <2>3. CASE UNCHANGED <<stamp, from, recorded>>
    BY <1>19, <2>3 DEF Typed, Stamp, world
  <2>4. QED
    BY <1>19, <2>2, <2>3 DEF Stamp
<1>20. CASE KeepHistory
  BY <1>20 DEF Typed, KeepHistory, world, observed
<1>21. CASE Prune
  BY <1>21, <1>i DEF Typed, Prune, Ready, world, observed
<1>22. CASE UNCHANGED vars
  BY <1>22 DEF Typed, vars, world, claim, observed
<1>23. QED
  BY <1>1, <1>2, <1>3, <1>4, <1>5, <1>6, <1>7, <1>8, <1>9, <1>10, <1>11, <1>12,
     <1>13, <1>14, <1>15, <1>16, <1>17, <1>18, <1>19, <1>20, <1>21, <1>22
     DEF Next, PinStep, SyncStep, Failure, Moves, Edits, Restarts, OrNone

-----------------------------------------------------------------------------
(* The tip *)

\* Only a push touches the branches, and it adds.
LEMMA Announced ==
  ASSUME [Next]_vars
  PROVE  \/ UNCHANGED <<remote, tips>>
         \/ \E b \in Branches, c \in OrNone : Push(b, c)
BY DEF Next, vars, world, claim, observed, PinStep, SyncStep, Failure, Moves, Edits,
       Restarts, OrNone, Edit, Restart, Crash, PinStart, PinRemove, PinClone, PinStamp,
       PinCloneFails, Begin, Fetch, Refuse, Check, Inspect, Clone, Clear, Switch, Record,
       Stamp, KeepHistory, Prune, FetchFails, CloneFails, SwitchFails

LEMMA TipStep == Typed /\ TipInv /\ [Next]_vars => TipInv'
<1> SUFFICES ASSUME Typed, TipInv, [Next]_vars PROVE TipInv'
  OBVIOUS
<1> USE DEF Trying, Chosen, Serving
<1>a. \A b \in Branches : remote'[b] \in tips'[b] \cup {NoCommit} /\ tips[b] \subseteq tips'[b]
  <2>1. CASE UNCHANGED <<remote, tips>>
    BY <2>1 DEF TipInv
  <2>2. ASSUME NEW b \in Branches, NEW c \in OrNone, Push(b, c)
        PROVE  \A d \in Branches : /\ remote'[d] \in tips'[d] \cup {NoCommit}
                                   /\ tips[d] \subseteq tips'[d]
    BY <2>2 DEF Push, TipInv, Typed
  <2>3. QED
    BY Announced, <2>1, <2>2
<1>b. Tracked(binding) => binding.branch \in Branches
  BY BindingType DEF Typed
<1>1. CASE UNCHANGED <<binding, pc, s>>
  BY <1>1, <1>a, <1>b DEF TipInv, Tracked
<1>2. ASSUME pc' \in {"boot", "idle", "pinremove", "pinclone", "pinstamp"} PROVE TipInv'
  BY <1>2, <1>a DEF TipInv
<1>3. CASE Begin
  BY <1>3, <1>a DEF TipInv, Begin, world, Tracked
<1>4. CASE Fetch
  <2>1. s'.tip = remote[binding.branch] /\ remote[binding.branch] \in tips[binding.branch]
    BY <1>4, <1>b DEF Fetch, TipInv, Typed
  <2>2. QED
    BY <1>4, <1>a, <1>b, <2>1 DEF TipInv, Fetch, world, Tracked
<1>5. CASE Check
  BY <1>5, <1>a, <1>b DEF TipInv, Check, Unsafe, world, Tracked
<1>6. CASE Inspect \/ Clone \/ Clear \/ Switch \/ Record \/ Stamp \/ KeepHistory
  <2>1. UNCHANGED <<binding, s>>
    BY <1>6 DEF Inspect, Clone, Clear, Switch, Record, Stamp, KeepHistory, world
  <2>2. /\ pc' \in {"clear", "clone", "switch"} => Chosen
        /\ pc' \in {"clear", "clone", "switch", "record", "stamp", "keep", "prune"}
        /\ Chosen \/ Serving
    BY <1>6 DEF Inspect, Clone, Clear, Switch, Record, Stamp, KeepHistory
  <2>3. QED
    BY <2>1, <2>2, <1>a, <1>b DEF TipInv, Tracked
<1>7. CASE PinStep \/ Prune \/ Refuse \/ Failure \/ Restarts \/ Crash
  BY <1>7, <1>2 DEF PinStep, Prune, Refuse, Failure, Restarts, Crash, PinStart, PinRemove,
     PinClone, PinStamp, PinCloneFails, FetchFails, CloneFails, SwitchFails, Restart,
     Failed, Ready
<1>8. CASE Moves \/ Edits \/ UNCHANGED vars
  BY <1>8, <1>1 DEF Moves, Edits, Push, Edit, vars, world
<1>9. QED
  BY <1>3, <1>4, <1>5, <1>6, <1>7, <1>8 DEF Next, SyncStep

-----------------------------------------------------------------------------
(* The link *)

\* What a step other than the script's leaves alone, or ends.
LEMMA Outside ==
  ASSUME Moves \/ Edits \/ Restarts \/ Crash \/ UNCHANGED vars
  PROVE  /\ UNCHANGED <<stamp, from, recorded>> /\ LiveSha' = LiveSha
         /\ path' # path => path.kind # "link" /\ path'.kind # "link"
         /\ pc' # pc => pc' \in {"boot", "idle"}
         /\ pc' = pc /\ pc' \notin {"boot", "idle"} => UNCHANGED <<s, path, binding>>
BY DEF Moves, Edits, Restarts, Push, Edit, Restart, Crash, vars, world, claim, observed,
       LiveSha, Partial, Checkout

LEMMA OutsideRevs ==
  ASSUME Typed, Moves \/ Edits \/ Restarts \/ Crash \/ UNCHANGED vars
  PROVE  \A c \in Commits :
           /\ revs[c] # "absent" => revs'[c] # "absent"
           /\ pc' \in {"clear", "switch"} =>
                 \/ revs'[c] = revs[c] /\ (c \in touched => c \in touched')
                 \/ revs'[c] = "modified" /\ c \in touched'
BY DEF Typed, Moves, Edits, Restarts, Push, Edit, Restart, Crash, vars, world, claim,
       observed

LEMMA LinkStep == Typed /\ TipInv /\ LinkInv /\ [Next]_vars => LinkInv'
<1> SUFFICES ASSUME Typed, TipInv, LinkInv, [Next]_vars PROVE LinkInv'
  OBVIOUS
<1> USE SyncAssumption DEF Trying, Chosen, Serving, Pinning
<1>b. Tracked(binding) => binding.branch \in Branches
  BY BindingType DEF Typed
<1>t. Chosen \/ Serving => s.tip \in Commits
  BY <1>b DEF TipInv, Typed
<1>1. CASE Moves \/ Edits \/ Restarts \/ Crash \/ UNCHANGED vars
  BY <1>1, <1>t, Outside, OutsideRevs DEF LinkInv, ServedWhole, Tracked
<1>2. ASSUME Failed, UNCHANGED <<path, revs>> PROVE LinkInv'
  BY <1>2 DEF LinkInv, ServedWhole, Failed, Ready
<1>3. CASE Refuse \/ FetchFails \/ CloneFails \/ SwitchFails
  BY <1>2, <1>3 DEF Refuse, FetchFails, CloneFails, SwitchFails
<1>4. CASE PinStart
  BY <1>4 DEF LinkInv, ServedWhole, PinStart, Ready, Nothing, world, Tracked
<1>5. CASE PinRemove \/ PinClone \/ PinCloneFails \/ PinStamp
  BY <1>5 DEF LinkInv, ServedWhole, PinRemove, PinClone, PinCloneFails, PinStamp, Ready,
     Nothing, Checkout, world, Tracked
<1>6. CASE Begin
  BY <1>6 DEF LinkInv, ServedWhole, Begin, LiveSha, claim
<1>7. CASE Fetch
  BY <1>7 DEF LinkInv, ServedWhole, Fetch, Typed, LiveSha, claim
<1>8. CASE Check
  <2>1. s.tip = s.live => path = Link(s.tip)
    BY <1>8, <1>b DEF Check, LinkInv, TipInv, Typed, LiveSha, Link
  <2>2. QED
    BY <1>8, <2>1 DEF LinkInv, ServedWhole, Check, LiveSha, claim
<1>9. CASE Inspect
  <2>1. path.kind = "link" => path.rev # s.tip
    BY <1>9 DEF Inspect, LinkInv, TipInv, LiveSha
  <2>2. QED
    BY <1>9, <1>t, <2>1 DEF LinkInv, ServedWhole, Inspect, LiveSha, Typed
<1>10. CASE Clone
  BY <1>10, <1>t DEF LinkInv, ServedWhole, Clone, LiveSha, Typed
<1>11. CASE Clear
  BY <1>11, <1>t DEF LinkInv, ServedWhole, Clear, LiveSha, Nothing, observed
<1>12. CASE Switch
  BY <1>12, <1>t DEF LinkInv, ServedWhole, Switch, Link
<1>13. CASE Record \/ Stamp \/ KeepHistory
  <2>1. UNCHANGED <<path, revs, s>> /\ Serving /\ pc' \in {"stamp", "keep", "prune"}
    BY <1>13 DEF Record, Stamp, KeepHistory
  <2>2. QED
    BY <2>1 DEF LinkInv, ServedWhole
<1>14. CASE Prune
  BY <1>14, <1>t DEF LinkInv, ServedWhole, Prune, Link, Ready
<1>15. QED
  BY <1>1, <1>3, <1>4, <1>5, <1>6, <1>7, <1>8, <1>9, <1>10, <1>11, <1>12, <1>13, <1>14
     DEF Next, PinStep, SyncStep, Failure

-----------------------------------------------------------------------------
(* The stamp *)

LEMMA StampStep == Typed /\ TipInv /\ LinkInv /\ StampInv /\ [Next]_vars => StampInv'
<1> SUFFICES ASSUME Typed, TipInv, LinkInv, StampInv, [Next]_vars PROVE StampInv'
  OBVIOUS
<1> USE SyncAssumption DEF Trying, Chosen, Serving, Pinning
<1>b. Tracked(binding) => binding.branch \in Branches
  BY BindingType DEF Typed
<1>1. CASE Moves \/ Edits \/ Restarts \/ Crash \/ UNCHANGED vars
  BY <1>1, Outside DEF StampInv, StampHonest
<1>2. ASSUME Trying, Failed, UNCHANGED <<path, from, recorded>> PROVE StampInv'
  BY <1>2 DEF StampInv, StampHonest, LinkInv, Failed, Ready, LiveSha
<1>3. CASE Refuse \/ FetchFails \/ CloneFails \/ SwitchFails
  BY <1>2, <1>3 DEF Refuse, FetchFails, CloneFails, SwitchFails, observed
<1>4. ASSUME path'.kind # "link", pc' \notin {"fetch", "check", "inspect", "clone", "clear", "switch"}
      PROVE  StampInv'
  BY <1>4 DEF StampInv, StampHonest, LiveSha
<1>5. CASE PinStart \/ PinRemove \/ PinClone \/ PinCloneFails \/ PinStamp
  BY <1>4, <1>5 DEF PinStart, PinRemove, PinClone, PinCloneFails, PinStamp, Ready, Nothing,
     Checkout, LinkInv
<1>6. CASE Begin
  BY <1>6 DEF StampInv, StampHonest, Begin, LiveSha, claim
<1>7. CASE Fetch \/ Check \/ Inspect \/ Clone \/ Clear
  <2>1. UNCHANGED <<stamp, from, recorded>> /\ LiveSha' = LiveSha /\ s'.served = s.served /\ Trying
        /\ (path'.kind = "link" <=> path.kind = "link")
    BY <1>7 DEF Fetch, Check, Inspect, Clone, Clear, LiveSha, Nothing, claim, observed, Typed
  <2>2. QED
    BY <2>1 DEF StampInv, StampHonest
<1>8. CASE Switch
  BY <1>8, <1>b DEF StampInv, StampHonest, Switch, TipInv
<1>9. CASE Record \/ KeepHistory \/ Prune
  <2>1. UNCHANGED <<stamp, from, recorded, path>> /\ pc' \in {"stamp", "prune", "idle"}
    BY <1>9 DEF Record, KeepHistory, Prune, Ready, observed
  <2>2. QED
    BY <2>1 DEF StampInv, StampHonest, LiveSha
<1>10. CASE Stamp
  <2>1. CASE Stamped
    BY <1>10, <2>1, <1>b DEF Stamp, Stamped, StampInv, StampHonest, TipInv, LinkInv, LiveSha, Link
  <2>2. CASE UNCHANGED <<stamp, from, recorded>>
    BY <1>10, <2>2 DEF Stamp, StampInv, StampHonest, LiveSha
  <2>3. QED
    BY <1>10, <2>1, <2>2 DEF Stamp
<1>11. QED
  BY <1>1, <1>3, <1>5, <1>6, <1>7, <1>8, <1>9, <1>10 DEF Next, PinStep, SyncStep, Failure

-----------------------------------------------------------------------------
(* The permissions and the marker *)

LEMMA CompleteStep == IInv /\ CompleteInv /\ [Next]_vars => CompleteInv'
<1> SUFFICES ASSUME IInv, CompleteInv, [Next]_vars PROVE CompleteInv'
  OBVIOUS
<1> USE SyncAssumption DEF Trying, Chosen, Serving, Pinning
<1>0. ASSUME UNCHANGED <<writable, shaStamp, marker, agentUp, binding, stamp, recorded, undone>>,
             LiveSha' = LiveSha, pc' \in {"stamp", "keep", "prune"} => pc' = pc /\ s' = s,
             pc' = "idle" => agentUp
      PROVE  CompleteInv'
  BY <1>0 DEF CompleteInv, Noted, Permitted, Tracked
<1>1. CASE Moves \/ Edits \/ UNCHANGED vars
  <2>1. /\ UNCHANGED <<writable, shaStamp, marker, agentUp, binding, stamp, recorded, undone>>
        /\ LiveSha' = LiveSha /\ UNCHANGED <<pc, s>>
    BY <1>1, Outside DEF Moves, Edits, Push, Edit, vars, world, claim, observed
  <2>2. QED
    BY <1>0, <2>1 DEF CompleteInv
<1>2. CASE Crash
  <2>1. /\ UNCHANGED <<agentUp, binding, stamp, recorded, undone>> /\ LiveSha' = LiveSha
        /\ pc' \in {"idle", "boot"} /\ (pc' = "idle" => agentUp)
    BY <1>2, Outside DEF Crash, world, observed
  <2>2. CASE UNCHANGED <<writable, shaStamp, marker>>
    BY <1>0, <2>1, <2>2
  <2>3. ASSUME pc = "record", NEW parts \in SUBSET Parts, Recording(parts) PROVE CompleteInv'
    <3>1. LiveSha = s.tip
      BY <2>3 DEF IInv, LinkInv, LiveSha, Link
    <3>2. /\ \/ (s.tip \in writable' <=> binding.access = "read-write")
             \/ writable' = writable
          /\ shaStamp' \in {s.tip, shaStamp} /\ (marker' => marker)
      BY <2>3, RecordingFacts DEF IInv, Typed
    <3>3. QED
      BY <2>1, <3>1, <3>2 DEF CompleteInv, Noted, Permitted, Tracked
  <2>4. QED
    BY <1>2, <2>2, <2>3 DEF Crash
<1>3. CASE Restarts
  BY <1>3 DEF CompleteInv, Noted, Restarts, Restart, LiveSha, claim, observed
<1>4. ASSUME Trying, Failed, UNCHANGED <<path, shaStamp, recorded, undone>> PROVE CompleteInv'
  <2>1. stamp'.failures # 0
    BY <1>4 DEF IInv, Typed, Failed, Counted
  <2>2. LiveSha' = LiveSha /\ s.live = LiveSha /\ marker' = (marker \/ s.live = NoCommit)
    BY <1>4 DEF IInv, LinkInv, Failed, LiveSha
  <2>3. QED
    BY <1>4, <2>1, <2>2 DEF CompleteInv, Noted, Failed, Ready
<1>5. CASE Refuse \/ FetchFails \/ CloneFails \/ SwitchFails
  BY <1>4, <1>5 DEF Refuse, FetchFails, CloneFails, SwitchFails, observed
<1>6. CASE PinStart \/ PinRemove \/ PinClone \/ PinCloneFails \/ PinStamp
  BY <1>6 DEF IInv, LinkInv, CompleteInv, PinStart, PinRemove, PinClone, PinCloneFails, PinStamp,
     Ready, Nothing, Checkout, LiveSha
<1>7. CASE Begin \/ Fetch \/ Check \/ Clear
  <2>1. /\ UNCHANGED <<writable, shaStamp, marker, agentUp, binding, stamp, recorded, undone>>
        /\ LiveSha' = LiveSha /\ pc' \notin {"idle", "stamp", "keep", "prune"}
    BY <1>7 DEF Begin, Fetch, Check, Clear, world, claim, observed, LiveSha, Nothing
  <2>2. QED
    BY <1>0, <2>1
<1>8. CASE Inspect \/ Clone
  <2>1. /\ UNCHANGED <<shaStamp, marker, agentUp, binding, stamp, recorded, undone>>
        /\ LiveSha' = LiveSha /\ pc' \in {"clear", "clone"}
    BY <1>8 DEF Inspect, Clone, world, observed, LiveSha
  <2>2. ASSUME LiveSha # NoCommit PROVE Permitted(LiveSha)' <=> Permitted(LiveSha)
    <3>1. LiveSha \in Commits /\ LiveSha # s.tip /\ revs[LiveSha] # "absent"
      BY <1>8, <2>2 DEF IInv, TipInv, LinkInv, ServedWhole, LiveSha, Inspect, Clone
    <3>2. LiveSha \in writable' <=> LiveSha \in writable
      BY <1>8, <3>1 DEF Inspect, Clone, IInv, Typed
    <3>3. QED
      BY <2>1, <3>2 DEF Permitted
  <2>3. QED
    BY <2>1, <2>2 DEF CompleteInv, Noted, Tracked
<1>9. CASE Switch
  BY <1>9 DEF CompleteInv, Switch
<1>10. CASE Record
  <2>1. LiveSha' = s.tip /\ s' = s /\ pc' = "stamp" /\ UNCHANGED binding
    BY <1>10 DEF Record, IInv, LinkInv, LiveSha, Link, world
  <2>2. PICK failed \in SUBSET Parts : Recording(Parts \ failed) /\ undone' = failed
    BY <1>10 DEF Record
  <2>3. /\ Permitted(s.tip)' \/ "access" \in undone'
        /\ Noted'
    BY <2>1, <2>2, RecordingFacts DEF Parts, Permitted, Noted, IInv, Typed
  <2>4. QED
    BY <2>1, <2>3 DEF CompleteInv
<1>11. CASE Stamp \/ KeepHistory
  <2>1. /\ UNCHANGED <<writable, shaStamp, marker, agentUp, binding, s, path, undone>>
        /\ pc' \in {"keep", "prune"} /\ path = Link(s.tip)
        /\ LiveSha' # NoCommit /\ recorded' => (LiveSha # NoCommit /\ recorded) \/ pc = "stamp"
    BY <1>11 DEF Stamp, Stamped, KeepHistory, IInv, LinkInv, world, observed, LiveSha
  <2>2. Permitted(s.tip) \/ "access" \in undone
    BY <1>11 DEF Stamp, KeepHistory, CompleteInv
  <2>3. LiveSha = s.tip /\ LiveSha' = s.tip
    BY <2>1 DEF LiveSha, Link
  <2>4. QED
    BY <2>1, <2>2, <2>3 DEF CompleteInv, Noted, Permitted
<1>12. CASE Prune
  <2>1. /\ UNCHANGED <<shaStamp, marker, binding, path, recorded, undone>>
        /\ pc' = "idle" /\ agentUp' = TRUE
        /\ LiveSha = s.tip /\ LiveSha' = s.tip /\ s.tip \in Commits /\ revs[s.tip] # "absent"
    BY <1>12 DEF Prune, Ready, IInv, LinkInv, ServedWhole, LiveSha, Link, world, observed
  <2>2. s.tip \in writable' <=> s.tip \in writable
    BY <1>12, <2>1 DEF Prune
  <2>3. QED
    BY <1>12, <2>1, <2>2 DEF CompleteInv, Noted, Permitted, Prune
<1>13. QED
  BY <1>1, <1>2, <1>3, <1>5, <1>6, <1>7, <1>8, <1>9, <1>10, <1>11, <1>12
     DEF Next, PinStep, SyncStep, Failure

-----------------------------------------------------------------------------
(* The theorems *)

LEMMA Initially == Init => IInv
<1> SUFFICES ASSUME Init PROVE IInv
  OBVIOUS
<1> USE SyncAssumption DEF Init
<1>1. Typed
  BY IdleType DEF Typed, Nothing, NoStamp, OrNone
<1>2. TipInv
  BY DEF TipInv, Trying, Chosen, Serving
<1>3. LinkInv /\ StampInv
  BY DEF LinkInv, StampInv, ServedWhole, StampHonest, Trying, Serving, Pinning, Nothing, LiveSha
<1>4. QED
  BY <1>1, <1>2, <1>3 DEF IInv

LEMMA Inductive == Spec => []IInv
<1>1. IInv /\ [Next]_vars => IInv'
  BY TypedStep, TipStep, LinkStep, StampStep DEF IInv
<1>2. QED
  BY <1>1, Initially, PTL DEF Spec

\* The link leads to a revision that is there in every state, whatever is
\* removed, pruned, refused or cut off (remove_failed, prune_revisions).
THEOREM ServedWholeKept == Spec => []ServedWhole
BY Inductive, PTL DEF IInv, LinkInv

\* The stamp never tells of another commit or branch than the tree served came
\* from, unless a success was not written down (sync_fail, write_stamp).
THEOREM StampHonestKept == Spec => []StampHonest
BY Inductive, PTL DEF IInv, StampInv

\* A success that was written down left undone only what failed in the attempt
\* itself, whatever failed, was cut off or restarted before it (sync_one).
THEOREM SuccessCompleteKept == Spec => []SuccessComplete
<1>1. Init => CompleteInv
  BY DEF Init, CompleteInv, LiveSha, Nothing
<1>2. IInv /\ CompleteInv => SuccessComplete
  BY DEF CompleteInv, Noted, SuccessComplete, Permitted
<1>3. QED
  BY <1>1, <1>2, CompleteStep, Inductive, PTL DEF Spec

\* Nothing but one rename moves the link, and it leads to a clean revision, or
\* one modified since the attempt began (workspace-sync.sh:21-23).
THEOREM ServedAsCommittedKept == Spec => ServedAsCommitted
<1>1. ASSUME IInv, [Next]_vars, path' # path, path'.kind = "link"
      PROVE  revs[path'.rev] = "clean" \/ path'.rev \in touched
  <2>1. Switch
    BY <1>1, Outside DEF Next, PinStep, SyncStep, Failure, PinStart, PinRemove, PinClone,
       PinCloneFails, PinStamp, Begin, Fetch, Refuse, Check, Inspect, Clone, Clear, Record,
       Stamp, KeepHistory, Prune, FetchFails, CloneFails, SwitchFails, Nothing, Checkout,
       claim
  <2>2. QED
    BY <1>1, <2>1 DEF Switch, Link, IInv, LinkInv
<1>2. QED
  BY <1>1, Inductive, PTL DEF Spec, ServedAsCommitted

\* What a reader of the tracked workspace sees is what ServedTree promises.
THEOREM ServedTreeImplemented == Spec => ImplementsServedTree
<1> USE SyncAssumption DEF Trying, Chosen, Serving, Pinning
<1>1. Init => Tree!Init
  BY DEF Init, Tree!Init, LiveSha, Nothing
<1>2. ASSUME IInv, [Next]_vars PROVE [Tree!Next]_(Tree!vars)
  <2>b. Tracked(binding) => binding.branch \in Branches
    BY <1>2, BindingType DEF IInv, Typed
  <2>s. ASSUME UNCHANGED <<tips, binding, from, recorded>>, LiveSha' = LiveSha
        PROVE  UNCHANGED Tree!vars
    BY <2>s DEF Tree!vars
  <2>1. ASSUME NEW b \in Branches, NEW c \in OrNone, Push(b, c)
        PROVE  [Tree!Next]_(Tree!vars)
    <3>1. LiveSha' = LiveSha /\ UNCHANGED <<binding, from, recorded>>
      BY <2>1 DEF Push, LiveSha, claim, observed
    <3>2. CASE c = NoCommit
      BY <1>2, <2>1, <2>s, <3>1, <3>2 DEF Push, IInv, Typed
    <3>3. CASE c # NoCommit
      <4>1. c \in Commits /\ Tree!Announce(b, c)
        BY <2>1, <3>1, <3>3 DEF Push, OrNone, Tree!Announce
      <4>2. QED
        BY <4>1 DEF Tree!Next
    <3>4. QED
      BY <3>2, <3>3
  <2>2. ASSUME NEW b \in Bindings, Restart(b) PROVE [Tree!Next]_(Tree!vars)
    <3>1. b.branch \in Branches \cup {NoBranch} /\ Tree!Declare(b.branch)
      BY <2>2 DEF Restart, Tree!Declare, LiveSha, claim, observed
    <3>2. QED
      BY <3>1 DEF Tree!Next
  <2>3. CASE PinStart
    <3>1. Tree!Unbind
      BY <2>3 DEF PinStart, Tree!Unbind, Tracked, LiveSha, Nothing, world
    <3>2. QED
      BY <3>1 DEF Tree!Next
  <2>4. CASE Switch
    <3>1. s.tip \in Commits /\ s.tip \in tips[binding.branch] /\ binding.branch \in Branches
      BY <1>2, <2>4, <2>b DEF Switch, IInv, TipInv, Typed
    <3>2. LiveSha = NoCommit \/ from # binding.branch \/ <<LiveSha, s.tip>> \in Ancestors \/ ~recorded
      BY <1>2, <2>4 DEF Switch, IInv, TipInv, LinkInv, StampInv
    <3>3. Tree!Follow(s.tip)
      BY <2>4, <3>1, <3>2 DEF Switch, Tree!Follow, LiveSha, Link, world
    <3>4. QED
      BY <3>1, <3>3 DEF Tree!Next
  <2>5. CASE Stamp
    <3>1. CASE Stamped
      <4>1. s.tip \in Commits /\ s.tip \in tips[binding.branch] /\ binding.branch \in Branches
        BY <1>2, <2>5, <2>b DEF Stamp, IInv, TipInv, Typed
      <4>2. LiveSha = s.tip /\ LiveSha' = s.tip
        BY <1>2, <2>5 DEF Stamp, IInv, LinkInv, LiveSha, Link
      <4>3. Tree!Follow(s.tip)
        BY <2>5, <3>1, <4>1, <4>2 DEF Stamp, Stamped, Tree!Follow, world
      <4>4. QED
        BY <4>1, <4>3 DEF Tree!Next
    <3>2. CASE UNCHANGED <<stamp, from, recorded>>
      BY <2>5, <2>s, <3>2 DEF Stamp, LiveSha, world
    <3>3. QED
      BY <2>5, <3>1, <3>2 DEF Stamp
  <2>6. CASE Edits \/ Crash \/ UNCHANGED vars
    BY <2>6, <2>s, Outside DEF Edits, Edit, Crash, vars, world
  <2>7. CASE PinRemove \/ PinClone \/ PinStamp \/ PinCloneFails
    BY <1>2, <2>7, <2>s DEF PinRemove, PinClone, PinStamp, PinCloneFails, IInv, LinkInv,
       LiveSha, Nothing, Checkout, world, observed
  <2>8. CASE Begin \/ Fetch \/ Refuse \/ Check \/ Inspect \/ Clone \/ Clear \/ Record
             \/ KeepHistory \/ Prune \/ FetchFails \/ CloneFails \/ SwitchFails
    BY <2>8, <2>s DEF Begin, Fetch, Refuse, Check, Inspect, Clone, Clear, Record, KeepHistory,
       Prune, FetchFails, CloneFails, SwitchFails, LiveSha, Nothing, world, claim, observed
  <2>9. QED
    BY <1>2, <2>1, <2>2, <2>3, <2>4, <2>5, <2>6, <2>7, <2>8
       DEF Next, PinStep, SyncStep, Failure, Moves, Restarts, OrNone
<1>3. QED
  BY <1>1, <1>2, Inductive, PTL DEF Spec, ImplementsServedTree, Tree!Spec

-----------------------------------------------------------------------------
(* The history *)

\* No commit is in the history twice.
Distinct(h) == \A i, j \in DOMAIN h : h[i] = h[j] => i = j

\* The commit that was served before is cut out of the history.
LEMMA Taken ==
  ASSUME NEW h \in Seq(Commits), Distinct(h), NEW c
  PROVE  LET rest == RemoveFirst(h, c)
         IN  /\ rest \in Seq(Commits) /\ Distinct(rest)
             /\ Range(rest) = Range(h) \ {c}
<1> DEFINE rest == RemoveFirst(h, c)
<1>1. CASE \E i \in 1..Len(h) : h[i] = c
  <2>1. PICK n \in 1..Len(h) : h[n] = c
    BY <1>1
  <2> DEFINE I == {i \in 1..Len(h) : h[i] = c}
  <2>2. I = {n}
    BY <2>1 DEF Distinct
  <2>3. Min(I) = n
    BY <2>2 DEF Min
  <2>4. rest = SubSeq(h, 1, n - 1) \o SubSeq(h, n + 1, Len(h))
    <3>1. rest = RemoveAt(h, SelectInSeq(h, LAMBDA v : v = c))
      BY <1>1 DEF RemoveFirst
    <3>2. SelectInSeq(h, LAMBDA v : v = c) = Min(I)
      BY <2>2 DEF SelectInSeq
    <3>3. QED
      BY <2>3, <3>1, <3>2 DEF RemoveAt
  <2>5. /\ rest \in Seq(Commits) /\ Len(rest) = Len(h) - 1
        /\ \A i \in 1..Len(rest) : rest[i] = h[IF i < n THEN i ELSE i + 1]
    <3> DEFINE old == SubSeq(h, 1, n - 1)
               new == SubSeq(h, n + 1, Len(h))
    <3>1. old \in Seq(Commits) /\ Len(old) = n - 1 /\ \A i \in 1..(n - 1) : old[i] = h[i]
      BY <2>1
    <3>2. /\ new \in Seq(Commits) /\ Len(new) = Len(h) - n
          /\ \A i \in 1..(Len(h) - n) : new[i] = h[n + i]
      BY <2>1
    <3>3. rest = old \o new
      BY <2>4
    <3> HIDE DEF rest, old, new
    <3>4. /\ rest \in Seq(Commits) /\ Len(rest) = Len(old) + Len(new)
          /\ \A i \in 1..(Len(old) + Len(new)) :
               rest[i] = IF i <= Len(old) THEN old[i] ELSE new[i - Len(old)]
      BY <3>1, <3>2, <3>3, ConcatProperties
    <3>5. Len(rest) = Len(h) - 1 /\ Len(h) \in Nat
      BY <3>1, <3>2, <3>4
    <3>6. ASSUME NEW i \in 1..Len(rest) PROVE rest[i] = h[IF i < n THEN i ELSE i + 1]
      <4>1. CASE i < n
        BY <3>1, <3>2, <3>4, <3>5, <4>1
      <4>2. CASE ~(i < n)
        <5>1. i - Len(old) \in 1..(Len(h) - n) /\ n + (i - Len(old)) = i + 1
          BY <2>1, <3>1, <3>5, <4>2
        <5>2. QED
          BY <3>1, <3>2, <3>4, <3>5, <4>2, <5>1
      <4>3. QED
        BY <4>1, <4>2
    <3>7. QED
      BY <3>4, <3>5, <3>6
  <2> HIDE DEF rest
  <2>6. DOMAIN rest = 1..Len(rest) /\ DOMAIN h = 1..Len(h)
    BY <2>5
  <2>7. Distinct(rest)
    BY <2>1, <2>5, <2>6 DEF Distinct
  <2>8. ASSUME NEW d \in Range(rest) PROVE d \in Range(h) /\ d # c
    <3>1. PICK i \in 1..Len(rest) : rest[i] = d
      BY <2>6 DEF Range
    <3> DEFINE j == IF i < n THEN i ELSE i + 1
    <3>2. j \in 1..Len(h) /\ j # n /\ h[j] = d
      BY <2>1, <2>5, <3>1
    <3>3. QED
      BY <2>1, <2>6, <3>2 DEF Range, Distinct
  <2>9. ASSUME NEW d \in Range(h), d # c PROVE d \in Range(rest)
    <3>1. PICK j \in 1..Len(h) : h[j] = d /\ j # n
      BY <2>1, <2>6, <2>9 DEF Range
    <3> DEFINE i == IF j < n THEN j ELSE j - 1
    <3>2. i \in 1..Len(rest) /\ rest[i] = d
      BY <2>1, <2>5, <3>1
    <3>3. QED
      BY <2>6, <3>2 DEF Range
  <2>10. QED
    BY <2>5, <2>7, <2>8, <2>9 DEF rest
<1>2. CASE ~\E i \in 1..Len(h) : h[i] = c
  <2>1. rest = h
    BY <1>2 DEF RemoveFirst
  <2>2. c \notin Range(h)
    BY <1>2 DEF Range
  <2>3. QED
    BY <2>1, <2>2
<1>3. QED
  BY <1>1, <1>2

\* The commit now served comes last, and no commit twice.
LEMMA LatestFacts ==
  ASSUME NEW h \in Seq(Commits), Distinct(h), NEW c \in Commits
  PROVE  LET all == Latest(h, c)
         IN  /\ all \in Seq(Commits) /\ Distinct(all) /\ Len(all) \in Nat \ {0}
             /\ all[Len(all)] = c /\ Range(all) \subseteq Range(h) \cup {c}
<1> DEFINE rest == RemoveFirst(h, c)
           all  == Latest(h, c)
           n    == Len(all)
<1>1. rest \in Seq(Commits) /\ Distinct(rest) /\ Range(rest) = Range(h) \ {c}
  BY Taken
<1>2. all = Append(rest, c)
  BY DEF Latest
<1> HIDE DEF rest
<1>3. /\ all \in Seq(Commits) /\ n = Len(rest) + 1 /\ all[n] = c
      /\ \A i \in 1..(n - 1) : all[i] = rest[i]
      /\ Len(rest) \in Nat
  BY <1>1, <1>2
<1>4. \A i \in 1..(n - 1) : rest[i] \in Range(h) /\ rest[i] # c
  BY <1>1, <1>3 DEF Range
<1>5. n \in Nat /\ DOMAIN all = 1..n
  BY <1>3
<1> HIDE DEF all, n
<1>6. ASSUME NEW i \in 1..n, NEW j \in 1..n, all[i] = all[j] PROVE i = j
  <2>1. DOMAIN rest = 1..(n - 1)
    BY <1>1, <1>3
  <2>2. CASE i \in 1..(n - 1) /\ j \in 1..(n - 1)
    BY <1>1, <1>3, <1>6, <2>1, <2>2 DEF Distinct
  <2>3. CASE i = n \/ j = n
    <3>1. i # n => i \in 1..(n - 1) /\ all[i] # c
      BY <1>3, <1>4, <1>5
    <3>2. j # n => j \in 1..(n - 1) /\ all[j] # c
      BY <1>3, <1>4, <1>5
    <3>3. QED
      BY <1>3, <1>6, <2>3, <3>1, <3>2
  <2>4. QED
    BY <1>5, <2>2, <2>3
<1>7. Distinct(all)
  BY <1>5, <1>6 DEF Distinct
<1>8. Range(all) \subseteq Range(h) \cup {c}
  BY <1>3, <1>4, <1>5 DEF Range
<1>9. QED
  BY <1>3, <1>7, <1>8 DEF all, n

\* What is kept is the commit now served and the newest before it, none twice
\* and no more than there may be.
LEMMA KeptFacts ==
  ASSUME NEW h \in Seq(Commits), Distinct(h), NEW c \in Commits
  PROVE  /\ Newest(h, c) \in Seq(Commits) /\ Distinct(Newest(h, c))
         /\ Len(Newest(h, c)) <= Keep
         /\ c \in Range(Newest(h, c)) /\ Range(Newest(h, c)) \subseteq Range(h) \cup {c}
<1> USE SyncAssumption
<1> DEFINE all  == Latest(h, c)
           n    == Len(all)
<1>1. Newest(h, c) = IF n > Keep THEN SubSeq(all, n - Keep + 1, n) ELSE all
  BY DEF Newest
<1>2. /\ n \in Nat \ {0} /\ all \in Seq(Commits) /\ Len(all) = n /\ DOMAIN all = 1..n
      /\ Distinct(all) /\ all[n] = c /\ Range(all) \subseteq Range(h) \cup {c}
  BY LatestFacts
<1> HIDE DEF all, n
<1>3. ASSUME NEW i \in 1..n, NEW j \in 1..n, all[i] = all[j] PROVE i = j
  BY <1>2, <1>3 DEF Distinct
<1>4. \A i \in 1..n : all[i] \in Range(h) \cup {c}
  BY <1>2 DEF Range
<1>5. CASE n > Keep
  <2> DEFINE first == n - Keep + 1
             kept  == SubSeq(all, first, n)
  <2>1. /\ kept \in Seq(Commits) /\ Len(kept) = Keep
        /\ \A i \in 1..Keep : kept[i] = all[n - Keep + i]
    <3>1. first \in Int /\ n \in Int /\ first <= n /\ n - first + 1 = Keep /\ first >= 1
      BY <1>2, <1>5
    <3>2. \A i \in first..n : all[i] \in Commits
      BY <1>2, <3>1
    <3>3. \A i \in 1..Keep : first + i - 1 = n - Keep + i
      BY <1>2, <3>1
    <3> HIDE DEF first
    <3>4. QED
      BY <3>1, <3>2, <3>3, SubSeqProperties
  <2> HIDE DEF kept
  <2>2. DOMAIN kept = 1..Keep
    BY <2>1
  <2>3. \A i \in 1..Keep : n - Keep + i \in 1..n
    BY <1>2, <1>5
  <2>4. Distinct(kept)
    <3>1. ASSUME NEW i \in 1..Keep, NEW j \in 1..Keep, kept[i] = kept[j] PROVE i = j
      <4>1. /\ n - Keep + i \in 1..n /\ n - Keep + j \in 1..n
            /\ all[n - Keep + i] = all[n - Keep + j]
        BY <2>1, <2>3, <3>1
      <4>3. n - Keep + i = n - Keep + j
        BY <1>3, <4>1
      <4>2. QED
        BY <1>2, <4>3
    <3>2. QED
      BY <2>2, <3>1 DEF Distinct
  <2>5. kept[Keep] = c /\ Keep \in 1..Keep
    <3>1. n - Keep + Keep = n
      BY <1>2
    <3>2. QED
      BY <1>2, <2>1, <3>1
  <2>6. c \in Range(kept)
    BY <2>2, <2>5 DEF Range
  <2>7. Range(kept) \subseteq Range(h) \cup {c}
    BY <1>4, <2>1, <2>2, <2>3 DEF Range
  <2>8. Newest(h, c) = kept
    BY <1>1, <1>5 DEF kept
  <2>9. QED
    BY <2>1, <2>4, <2>6, <2>7, <2>8
<1>6. CASE ~(n > Keep)
  <2>1. n \in 1..n /\ n <= Keep
    BY <1>2, <1>6
  <2>2. c \in Range(all)
    BY <1>2, <2>1 DEF Range
  <2>3. QED
    BY <1>1, <1>6, <1>2, <2>1, <2>2
<1>7. QED
  BY <1>5, <1>6

-----------------------------------------------------------------------------
(* The revisions on the claim *)

Present == {c \in Commits : revs[c] # "absent"}

\* An attempt may have added its revision and has yet to prune.
Added == pc \in {"clear", "switch", "record", "stamp", "keep", "prune"}

Extra == IF Added THEN 1 ELSE 0

\* Nothing is there but what the last prune left, what an attempt that was cut
\* off left over, and what the attempt under way adds; the history, which has no
\* commit twice, is cut to size and has the tip when the prune comes.
BoundInv ==
  /\ left \in [DOMAIN Budget -> Nat] /\ \A what \in DOMAIN Budget : left[what] <= Budget[what]
  /\ IsFiniteSet(Present)
  /\ Cardinality(Present) <= Keep + Cuts + Extra
  /\ history \in Seq(Commits) /\ Distinct(history)
  /\ pc = "prune" => Len(history) <= Keep /\ s.tip \in Range(history)

\* What an action spends can only add to the cuts.
LEMMA SpendFacts ==
  ASSUME left \in [DOMAIN Budget -> Nat], \A what \in DOMAIN Budget : left[what] <= Budget[what],
         NEW what \in {"push", "edit", "restart", "fault"}, Spend(what)
  PROVE  /\ left' \in [DOMAIN Budget -> Nat] /\ \A w \in DOMAIN Budget : left'[w] <= Budget[w]
         /\ Cuts' = IF what \in {"restart", "fault"} THEN Cuts + 1 ELSE Cuts
<1> USE SyncAssumption
<1>1. /\ DOMAIN Budget = {"push", "edit", "restart", "fault"}
      /\ \A w \in DOMAIN Budget : left[w] \in Nat /\ Budget[w] \in Nat
  OBVIOUS
<1>2. left[what] > 0 /\ left' = [left EXCEPT ![what] = left[what] - 1]
  BY DEF Spend
<1>3. left' \in [DOMAIN Budget -> Nat]
  BY <1>1, <1>2
<1>4. \A w \in DOMAIN Budget : left'[w] = IF w = what THEN left[w] - 1 ELSE left[w]
  BY <1>1, <1>2
<1>5. \A w \in DOMAIN Budget : left'[w] <= Budget[w]
  BY <1>1, <1>4
<1>6. left.fault \in Nat /\ left.restart \in Nat /\ Budget.fault \in Nat /\ Budget.restart \in Nat
  BY <1>1
<1>7. /\ left'.fault = IF what = "fault" THEN left.fault - 1 ELSE left.fault
      /\ left'.restart = IF what = "restart" THEN left.restart - 1 ELSE left.restart
  BY <1>1, <1>4
<1>8. QED
  BY <1>3, <1>5, <1>6, <1>7 DEF Cuts

LEMMA CutsType ==
  ASSUME left \in [DOMAIN Budget -> Nat], \A what \in DOMAIN Budget : left[what] <= Budget[what]
  PROVE  Cuts \in Nat
<1>1. /\ left.fault \in Nat /\ left.restart \in Nat /\ Budget.fault \in Nat /\ Budget.restart \in Nat
      /\ left.fault <= Budget.fault /\ left.restart <= Budget.restart
  BY SyncAssumption
<1>2. QED
  BY <1>1 DEF Cuts

\* A step that makes no revision and does not prune.
LEMMA NoneAdded ==
  ASSUME BoundInv, Present' \subseteq Present,
         history' = history \/ (history' \in Seq(Commits) /\ Distinct(history')),
         pc' = "prune" => pc = "prune" /\ UNCHANGED <<s, history>>,
         \/ UNCHANGED left /\ (Added => Added')
         \/ Spend("push") /\ pc' = pc
         \/ Spend("edit") /\ pc' = pc
         \/ Spend("restart")
         \/ Spend("fault")
  PROVE  BoundInv'
<1>1. /\ left' \in [DOMAIN Budget -> Nat] /\ \A what \in DOMAIN Budget : left'[what] <= Budget[what]
      /\ Cuts \in Nat /\ (Cuts' = Cuts \/ Cuts' = Cuts + 1)
      /\ Added => Added' \/ Cuts' = Cuts + 1
  <2>1. CASE UNCHANGED left
    <3>1. (Cuts' = Cuts /\ (Added => Added')) \/ \E what \in DOMAIN Budget : Spend(what)
      BY <2>1, SyncAssumption DEF Cuts
    <3>2. \A what \in DOMAIN Budget : ~Spend(what)
      BY <2>1, SyncAssumption DEF Spend, BoundInv
    <3>3. QED
      BY <2>1, <3>1, <3>2, CutsType DEF BoundInv
  <2>2. CASE ~UNCHANGED left
    BY <2>2, SpendFacts, CutsType DEF BoundInv, Added
  <2>3. QED
    BY <2>1, <2>2
<1>2. /\ IsFiniteSet(Present') /\ Cardinality(Present') \in Nat /\ Cardinality(Present) \in Nat
      /\ Cardinality(Present') <= Cardinality(Present)
  BY FS_Subset, FS_CardinalityType DEF BoundInv
<1>3. Cardinality(Present') <= Keep + Cuts' + Extra'
  <2>1. Cardinality(Present) <= Keep + Cuts + Extra /\ Keep \in Nat
    BY SyncAssumption DEF BoundInv
  <2>2. Extra \in {0, 1} /\ Extra' \in {0, 1} /\ Cuts + Extra <= Cuts' + Extra'
    BY <1>1 DEF Extra
  <2>3. QED
    BY <1>1, <1>2, <2>1, <2>2
<1>4. /\ history' \in Seq(Commits) /\ Distinct(history')
      /\ pc' = "prune" => Len(history') <= Keep /\ s'.tip \in Range(history')
  BY DEF BoundInv
<1>5. QED
  BY <1>1, <1>2, <1>3, <1>4 DEF BoundInv

LEMMA BoundStep == IInv /\ BoundInv /\ [Next]_vars => BoundInv'
<1> SUFFICES ASSUME IInv, BoundInv, [Next]_vars PROVE BoundInv'
  OBVIOUS
<1> USE SyncAssumption
<1>t. /\ Chosen \/ Serving => s.tip \in Commits
      /\ revs \in [Commits -> {"absent", "clean", "modified"}]
  BY BindingType DEF IInv, TipInv, Typed, Chosen, Serving, Trying
<1>a. UNCHANGED revs => Present' = Present
  BY DEF Present
<1>1. ASSUME NEW b \in Branches, NEW c \in OrNone, Push(b, c) PROVE BoundInv'
  BY <1>1, <1>a, NoneAdded DEF Push, claim
<1>2. ASSUME NEW c \in Commits, Edit(c) PROVE BoundInv'
  <2>1. Present' = Present
    BY <1>2, <1>t DEF Edit, Present
  <2>2. QED
    BY <1>2, <2>1, NoneAdded DEF Edit
<1>3. ASSUME NEW b \in Bindings, Restart(b) PROVE BoundInv'
  BY <1>3, <1>a, NoneAdded DEF Restart, claim
<1>4. CASE Crash
  <2>1. Present' = Present
    BY <1>4, <1>t DEF Crash, Present
  <2>2. Spend("fault") /\ pc' # "prune"
    BY <1>4 DEF Crash, Fault
  <2>3. history' = history \/ (history' \in Seq(Commits) /\ Distinct(history'))
    <3>1. CASE pc = "keep" /\ history' = Latest(history, s.tip)
      BY <1>t, <3>1, LatestFacts DEF BoundInv, Serving
    <3>2. CASE history' = history
      BY <3>2
    <3>3. QED
      BY <1>4, <3>1, <3>2 DEF Crash
  <2>4. QED
    BY <2>1, <2>2, <2>3, NoneAdded
<1>5. CASE PinStart
  <2>1. /\ Present' = {} /\ UNCHANGED left /\ history' = <<>> /\ pc' # "prune"
    BY <1>5 DEF PinStart, Present, Ready
  <2>2. IsFiniteSet(Present') /\ Cardinality(Present') = 0
    BY <2>1, FS_EmptySet
  <2>3. Cuts \in Nat /\ Cuts' = Cuts
    BY <2>1, CutsType DEF BoundInv, Cuts
  <2>4. Distinct(history')
    BY <2>1 DEF Distinct
  <2>5. QED
    BY <2>1, <2>2, <2>3, <2>4 DEF BoundInv, Extra
<1>6. CASE PinRemove \/ PinClone \/ PinStamp
  BY <1>6, <1>a, NoneAdded DEF PinRemove, PinClone, PinStamp, Ready, Added
<1>7. CASE PinCloneFails \/ CloneFails \/ SwitchFails
  BY <1>7, <1>a, NoneAdded DEF PinCloneFails, CloneFails, SwitchFails, Fault, Failed, Ready
<1>8. CASE Begin \/ Fetch \/ Check \/ Refuse
  BY <1>8, <1>a, NoneAdded DEF Begin, Fetch, Check, Refuse, Failed, Ready, claim, Added
<1>9. CASE FetchFails
  BY <1>9, <1>a, NoneAdded DEF FetchFails, Fault, Failed, Ready, Added
<1>10. CASE Inspect
  <2>1. Present' \subseteq Present
    BY <1>10, <1>t DEF Inspect, Present
  <2>2. QED
    BY <1>10, <2>1, NoneAdded DEF Inspect, Added
<1>11. CASE Clone
  <2>1. Present' = Present \cup {s.tip}
    BY <1>11, <1>t DEF Clone, Present, Chosen
  <2>2. /\ UNCHANGED <<left, history>> /\ pc' = "clear" /\ pc = "clone"
    BY <1>11 DEF Clone
  <2>3. /\ IsFiniteSet(Present') /\ Cardinality(Present') <= Cardinality(Present) + 1
        /\ Cardinality(Present) \in Nat /\ Cardinality(Present') \in Nat
    <3>1. IsFiniteSet(Present) /\ Cardinality(Present) \in Nat
      BY FS_CardinalityType DEF BoundInv
    <3>2. /\ IsFiniteSet(Present \cup {s.tip})
          /\ \/ Cardinality(Present \cup {s.tip}) = Cardinality(Present)
             \/ Cardinality(Present \cup {s.tip}) = Cardinality(Present) + 1
      BY <3>1, FS_AddElement
    <3>3. QED
      BY <2>1, <3>1, <3>2
  <2>4. Cuts \in Nat /\ Cuts' = Cuts /\ Extra = 0 /\ Extra' = 1
    BY <2>2, CutsType DEF BoundInv, Cuts, Extra, Added
  <2>5. Cardinality(Present') <= Keep + Cuts' + Extra'
    BY <2>3, <2>4 DEF BoundInv
  <2>6. QED
    BY <2>2, <2>3, <2>5 DEF BoundInv
<1>12. CASE Clear \/ Switch
  BY <1>12, <1>a, NoneAdded DEF Clear, Switch, Added
<1>13. CASE Record
  <2>1. UNCHANGED <<revs, history>> /\ pc = "record" /\ pc' = "stamp"
    BY <1>13 DEF Record
  <2>2. UNCHANGED left \/ Spend("fault")
    BY <1>13 DEF Record, Fault
  <2>3. QED
    BY <1>a, <2>1, <2>2, NoneAdded DEF Added
<1>14. CASE Stamp
  BY <1>14, <1>a, NoneAdded DEF Stamp, Stamped, Fault, Added
<1>15. CASE KeepHistory
  <2>1. /\ UNCHANGED <<left, revs, s>> /\ history' = Newest(history, s.tip)
        /\ pc = "keep" /\ pc' = "prune"
    BY <1>15 DEF KeepHistory
  <2>2. /\ history' \in Seq(Commits) /\ Distinct(history')
        /\ Len(history') <= Keep /\ s.tip \in Range(history')
    BY <1>t, <2>1, KeptFacts DEF BoundInv, Serving
  <2>3. Present' = Present /\ Cuts' = Cuts /\ Extra' = Extra
    BY <1>a, <2>1 DEF Cuts, Extra, Added
  <2>4. QED
    BY <2>1, <2>2, <2>3 DEF BoundInv
<1>16. CASE Prune
  <2>1. /\ UNCHANGED <<left, history>> /\ pc = "prune" /\ pc' = "idle"
    BY <1>16 DEF Prune, Ready
  <2>2. Present' \subseteq Range(history)
    BY <1>16 DEF Prune, Present, BoundInv
  <2>3. IsFiniteSet(Range(history)) /\ Cardinality(Range(history)) <= Len(history)
    <3>1. history \in Seq(Commits) /\ Len(history) \in Nat /\ DOMAIN history = 1..Len(history)
      BY DEF BoundInv
    <3>2. IsFiniteSet(1..Len(history)) /\ Cardinality(1..Len(history)) = Len(history)
      <4>1. 1 \in Int /\ Len(history) \in Int
        BY <3>1
      <4>2. /\ IsFiniteSet(1..Len(history))
            /\ Cardinality(1..Len(history)) = IF 1 > Len(history) THEN 0 ELSE Len(history) - 1 + 1
        BY <4>1, FS_Interval
      <4>3. QED
        BY <3>1, <4>2
    <3>3. history \in Surjection(1..Len(history), Range(history))
      BY <3>1 DEF Surjection, Range
    <3>4. QED
      BY <3>2, <3>3, FS_Surjection
  <2>4. IsFiniteSet(Present') /\ Cardinality(Present') \in Nat /\ Cardinality(Present') <= Keep
    <3>1. /\ IsFiniteSet(Present') /\ Cardinality(Present') \in Nat
          /\ Cardinality(Present') <= Cardinality(Range(history))
          /\ Cardinality(Range(history)) \in Nat
      BY <2>2, <2>3, FS_Subset, FS_CardinalityType
    <3>2. Len(history) <= Keep /\ Len(history) \in Nat
      BY <2>1 DEF BoundInv
    <3>3. QED
      BY <2>3, <3>1, <3>2
  <2>5. Cuts \in Nat /\ Cuts' = Cuts /\ Extra' = 0
    BY <2>1, CutsType DEF BoundInv, Cuts, Extra, Added
  <2>6. QED
    BY <2>1, <2>4, <2>5 DEF BoundInv
<1>17. CASE UNCHANGED vars
  BY <1>17, <1>a, NoneAdded DEF vars, claim, Added
<1>18. QED
  BY <1>1, <1>2, <1>3, <1>4, <1>5, <1>6, <1>7, <1>8, <1>9, <1>10, <1>11, <1>12,
     <1>13, <1>14, <1>15, <1>16, <1>17
     DEF Next, PinStep, SyncStep, Failure, Moves, Edits, Restarts, OrNone

LEMMA BoundInitially == Init => BoundInv
<1> SUFFICES ASSUME Init PROVE BoundInv
  OBVIOUS
<1>1. Present = {}
  BY DEF Init, Present
<1>2. IsFiniteSet(Present) /\ Cardinality(Present) = 0
  BY <1>1, FS_EmptySet
<1>3. /\ left \in [DOMAIN Budget -> Nat] /\ \A what \in DOMAIN Budget : left[what] <= Budget[what]
  BY SyncAssumption DEF Init
<1>4. Cuts \in Nat
  BY <1>3, CutsType
<1>5. history = <<>> /\ Distinct(history)
  BY DEF Init, Distinct
<1>6. QED
  BY <1>2, <1>3, <1>4, <1>5, SyncAssumption DEF Init, BoundInv, Extra

LEMMA Bounded == Spec => [](IInv /\ BoundInv)
BY BoundInitially, BoundStep, Inductive, PTL DEF Spec

\* What TypeOK says beyond what the other invariants need.
Rest ==
  /\ writable \in SUBSET Commits /\ shaStamp \in OrNone /\ marker \in BOOLEAN
  /\ agentUp \in BOOLEAN /\ pc \in Steps
  /\ undone \in SUBSET Parts /\ touched \in SUBSET Commits

LEMMA RestStep == IInv /\ Rest /\ [Next]_vars => Rest'
<1> SUFFICES ASSUME IInv, Rest, [Next]_vars PROVE Rest'
  OBVIOUS
<1> USE DEF Rest, Steps
<1>t. /\ Chosen \/ Serving => s.tip \in Commits
      /\ binding.sha \in OrNone /\ NoCommit \in OrNone
  BY BindingType DEF IInv, TipInv, Typed, Chosen, Serving, Trying, OrNone
<1>1. ASSUME NEW b \in Branches, NEW c \in OrNone, Push(b, c) PROVE Rest'
  BY <1>1 DEF Push, claim, observed
<1>2. ASSUME NEW c \in Commits, Edit(c) PROVE Rest'
  BY <1>2 DEF Edit
<1>3. ASSUME NEW b \in Bindings, Restart(b) PROVE Rest'
  BY <1>3 DEF Restart, claim, observed
<1>r. ASSUME NEW parts, Recording(parts), s.tip \in Commits
      PROVE  /\ writable' \in SUBSET Commits /\ shaStamp' \in OrNone /\ marker' \in BOOLEAN
  BY <1>r DEF Recording, Access, OrNone
<1>4. CASE Crash
  <2>1. pc' \in Steps /\ UNCHANGED <<agentUp, undone, touched>>
    BY <1>4 DEF Crash, observed
  <2>2. writable' \in SUBSET Commits /\ shaStamp' \in OrNone /\ marker' \in BOOLEAN
    BY <1>4, <1>t, <1>r DEF Crash, Serving
  <2>3. QED
    BY <2>1, <2>2
<1>5. CASE PinStart \/ PinRemove \/ PinClone \/ PinStamp \/ PinCloneFails
  BY <1>5, <1>t DEF PinStart, PinRemove, PinClone, PinStamp, PinCloneFails, Ready, observed
<1>6. ASSUME Failed, UNCHANGED <<writable, shaStamp, undone, touched>> PROVE Rest'
  BY <1>6 DEF Failed, Ready
<1>7. CASE Refuse \/ FetchFails \/ CloneFails \/ SwitchFails
  BY <1>6, <1>7 DEF Refuse, FetchFails, CloneFails, SwitchFails, observed
<1>8. CASE Begin \/ Fetch \/ Check
  BY <1>8 DEF Begin, Fetch, Check, claim, observed
<1>9. CASE Inspect \/ Clone \/ Clear \/ Switch
  BY <1>9, <1>t DEF Inspect, Clone, Clear, Switch, Chosen, Serving, OrNone, observed
<1>12. CASE Record
  BY <1>12, <1>t, <1>r DEF Record, Serving
<1>10. CASE Stamp \/ KeepHistory \/ Prune
  BY <1>10 DEF Stamp, KeepHistory, Prune, Ready, observed
<1>11. CASE UNCHANGED vars
  BY <1>11 DEF vars, claim, observed
<1>13. QED
  BY <1>1, <1>2, <1>3, <1>4, <1>5, <1>7, <1>8, <1>9, <1>10, <1>11, <1>12
     DEF Next, PinStep, SyncStep, Failure, Moves, Edits, Restarts, OrNone

\* Every reachable state is well typed: also the history, which a crash may have
\* left longer than it is kept, holds commits only.
THEOREM TypeCorrect == Spec => []TypeOK
<1>1. Init => Rest
  BY DEF Init, Rest, Steps, OrNone
<1>2. IInv /\ BoundInv /\ Rest => TypeOK
  BY DEF IInv, Typed, BoundInv, Rest, TypeOK, OrNone
<1>3. QED
  BY <1>1, <1>2, RestStep, Bounded, PTL DEF Spec

\* The claim does not fill up: an attempt that ends prunes to the revisions that
\* may stay, also those that earlier attempts left when they were cut off
\* (prune_revisions); only a cut since then can have left one more.
THEOREM RevisionsBoundedKept == Spec => []RevisionsBounded
<1>1. BoundInv => RevisionsBounded
  <2> SUFFICES ASSUME BoundInv, pc = "idle" PROVE Cardinality(Present) <= Keep + Cuts
    BY DEF RevisionsBounded, Present
  <2>1. Cuts \in Nat /\ Keep \in Nat /\ Extra = 0
    BY CutsType, SyncAssumption DEF BoundInv, Extra, Added
  <2>2. QED
    BY <2>1 DEF BoundInv
<1>2. QED
  BY <1>1, Bounded, PTL
=============================================================================
