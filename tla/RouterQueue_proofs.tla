-------------------------- MODULE RouterQueue_proofs --------------------------
(***************************************************************************)
(* The queued edge keeps every accepted event, for any set of events and   *)
(* routers, any limits and any failures.                                   *)
(***************************************************************************)
EXTENDS RouterQueue, FiniteSetTheorems, WellFoundedInduction, TLAPS

Entry == [at : {"stream", "dlq"}, event : Events]

-----------------------------------------------------------------------------
(* Lemmas about the log. *)

\* The ids of the log are 1 .. Len(log), and each names a known event.
LEMMA IdsFacts ==
  ASSUME log \in Seq(Entry)
  PROVE  /\ Ids = 1..Len(log) /\ Len(log) \in Nat
         /\ Ids \subseteq Nat
         /\ \A n \in Ids : log[n] \in Entry /\ Event(n) \in Events
<1>1. Ids = 1..Len(log) /\ Len(log) \in Nat
  BY DEF Ids
<1>2. \A n \in Ids : log[n] \in Entry
  BY <1>1
<1>3. \A n \in Ids : Event(n) \in Events
  BY <1>2 DEF Event, Entry
<1> QED BY <1>1, <1>2, <1>3

\* XADD gives the next id and changes no entry.
LEMMA LogGrows ==
  ASSUME log \in Seq(Entry), NEW rec \in Entry, log' = Append(log, rec)
  PROVE  /\ log' \in Seq(Entry)
         /\ Ids' = Ids \cup {Len(log) + 1}
         /\ Len(log) + 1 \notin Ids
         /\ \A n \in Ids : n < Len(log) + 1 /\ log'[n] = log[n]
         /\ log'[Len(log) + 1] = rec
<1>1. Ids = 1..Len(log) /\ Len(log) \in Nat
  BY DEF Ids
<1>2. log' \in Seq(Entry) /\ Len(log') = Len(log) + 1
  OBVIOUS
<1>3. Ids' = 1..Len(log')
  BY <1>2 DEF Ids
<1>4. Ids' = Ids \cup {Len(log) + 1}
  BY <1>1, <1>2, <1>3
<1>5. \A n \in Ids : log'[n] = log[n]
  BY <1>1
<1>6. log'[Len(log) + 1] = rec
  OBVIOUS
<1> QED BY <1>1, <1>2, <1>4, <1>5, <1>6

\* A non-empty set of ids has a greatest one.
LEMMA GreatestId ==
  ASSUME NEW N \in Nat, NEW T \in SUBSET (1..N), T # {}
  PROVE  \E x \in T : \A y \in T : y <= x
<1> DEFINE above(x) == {i \in 1..N : x <= i}
           U == {above(x) : x \in T}
<1>1. U \subseteq FiniteSubsetsOf(1..N) /\ U # {}
  <2>1. IsFiniteSet(1..N)
    BY FS_Interval
  <2>2. \A x \in T : IsFiniteSet(above(x))
    BY <2>1, FS_Subset
  <2> QED BY <2>2 DEF FiniteSubsetsOf
<1>2. PICK u \in U : \A v \in U : ~(<<v, u>> \in StrictSubsetOrdering(1..N))
  <2> HIDE DEF U
  <2> QED BY <1>1, WFMin, FS_StrictSubsetOrderingWellFounded
<1>3. PICK x \in T : u = above(x)
  OBVIOUS
<1>4. ASSUME NEW y \in T, y > x
      PROVE  FALSE
  <2>1. x \in above(x) /\ x \notin above(y) /\ above(y) \subseteq above(x)
    BY <1>4
  <2>2. above(y) \in U /\ above(y) # above(x)
    BY <2>1
  <2>3. <<above(y), u>> \in StrictSubsetOrdering(1..N)
    BY <1>3, <2>1, <2>2 DEF StrictSubsetOrdering
  <2> QED BY <1>2, <2>2, <2>3
<1>5. \A y \in T : y <= x
  BY <1>4
<1> QED BY <1>5

\* What precedes one of the first Count entries is one of them too.
LEMMA FirstOfIsInitial ==
  ASSUME NEW S \in SUBSET Nat, NEW n \in S, NEW last \in FirstOf(S), n <= last
  PROVE  n \in FirstOf(S)
<1> DEFINE before(x) == {m \in S : m < x}
<1>1. last \in S /\ Cardinality(before(last)) < Count
  BY DEF FirstOf
<1>2. IsFiniteSet(before(last))
  BY <1>1, FS_BoundedSetOfNaturals
<1>3. before(n) \subseteq before(last)
  <2>1. n \in Nat /\ last \in Nat
    BY <1>1
  <2>2. \A m \in Nat : m < n => m < last
    BY <2>1
  <2> QED BY <2>2
<1>4. /\ Cardinality(before(n)) <= Cardinality(before(last))
      /\ Cardinality(before(n)) \in Nat /\ Cardinality(before(last)) \in Nat
  BY <1>2, <1>3, FS_Subset, FS_CardinalityType
<1>5. Cardinality(before(n)) < Count
  BY <1>1, <1>4, ConstantsAssumption
<1> QED BY <1>5 DEF FirstOf

LEMMA FirstOfSubset == ASSUME NEW S PROVE FirstOf(S) \subseteq S
BY DEF FirstOf

-----------------------------------------------------------------------------
(* What an action leaves alone keeps its type while the log only grows. *)

Grown == Stream \subseteq Stream' /\ Ids \ Stream \subseteq Ids' \ Stream'

LEMMA SameLogGrown == ASSUME UNCHANGED log PROVE Grown
BY DEF Grown, Stream, Ids

LEMMA AppendGrown ==
  ASSUME StreamsOK, NEW rec \in Entry, log' = Append(log, rec)
  PROVE  Grown
<1>1. log \in Seq(Entry)
  BY DEF StreamsOK, Entry
<1> QED BY <1>1, LogGrows DEF Grown, Stream

LEMMA StreamsKept == ASSUME StreamsOK, UNCHANGED streams PROVE StreamsOK'
BY DEF StreamsOK, streams, Stream, Ids, Pending

LEMMA LoopsKept ==
  ASSUME LoopsOK, Grown, UNCHANGED <<up, loopVars, blockedKeys>>
  PROVE  LoopsOK'
BY DEF LoopsOK, loopVars, Grown

LEMMA TasksKept ==
  ASSUME TasksOK, Grown, UNCHANGED task
  PROVE  TasksOK'
BY DEF TasksOK, InFlight, Grown

LEMMA ReplaysKept ==
  ASSUME ReplaysOK, Grown, UNCHANGED replay
  PROVE  ReplaysOK'
BY DEF ReplaysOK, Grown

LEMMA FaultCounted ==
  ASSUME CountsOK, NEW kind, Fault(kind)
  PROVE  faults' \in 0..MaxFaults
BY ConstantsAssumption DEF CountsOK, Fault

LEMMA InitTypeOK == Init => TypeOK
<1> SUFFICES ASSUME Init PROVE TypeOK
  OBVIOUS
<1>1. StreamsOK
  BY DEF Init, StreamsOK, Stream, Ids, Pending
<1>2. LoopsOK
  BY DEF Init, LoopsOK
<1>3. TasksOK
  BY DEF Init, TasksOK, InFlight
<1>4. ReplaysOK
  BY DEF Init, ReplaysOK, NoReplay
<1>5. CountsOK
  BY ConstantsAssumption DEF Init, CountsOK
<1> QED BY <1>1, <1>2, <1>3, <1>4, <1>5 DEF TypeOK

-----------------------------------------------------------------------------
(* Type correctness, one lemma per group of actions. *)

LEMMA StartTypeOK ==
  ASSUME TypeOK, NEW r \in Routers, Start(r) \/ Crash(r)
  PROVE  TypeOK'
<1>1. Grown
  BY SameLogGrown DEF Start, Crash, streams
<1>2. StreamsOK'
  BY StreamsKept DEF TypeOK, Start, Crash
<1>3. LoopsOK'
  <2>1. CASE Start(r)
    BY <1>1, <2>1 DEF TypeOK, LoopsOK, Start, loopVars, Grown
  <2>2. CASE Crash(r)
    BY <1>1, <2>2 DEF TypeOK, LoopsOK, Crash, Grown
  <2> QED BY <2>1, <2>2
<1>4. TasksOK'
  <2>1. CASE Start(r)
    BY <1>1, <2>1, TasksKept DEF TypeOK, Start
  <2>2. CASE Crash(r)
    <3>1. DOMAIN task' = Routers
      BY <2>2 DEF TypeOK, TasksOK, Crash
    <3>2. ASSUME NEW q \in Routers
          PROVE  (InFlight(q) \subseteq Stream)' /\ (task[q] \in [InFlight(q) -> Task])'
      <4>1. CASE q = r
        BY <2>2, <4>1 DEF TypeOK, TasksOK, Crash, InFlight
      <4>2. CASE q # r
        BY <1>1, <2>2, <4>2 DEF TypeOK, TasksOK, Crash, InFlight, Grown
      <4> QED BY <4>1, <4>2
    <3> QED BY <3>1, <3>2 DEF TasksOK
  <2> QED BY <2>1, <2>2
<1>5. ReplaysOK'
  BY <1>1 DEF TypeOK, ReplaysOK, Start, Crash, NoReplay, Grown
<1>6. CountsOK'
  BY FaultCounted DEF TypeOK, CountsOK, Start, Crash, bounds
<1> QED BY <1>2, <1>3, <1>4, <1>5, <1>6 DEF TypeOK

LEMMA PublishTypeOK ==
  ASSUME TypeOK, NEW e \in Events, Publish(e)
  PROVE  TypeOK'
<1> DEFINE rec == [at |-> "stream", event |-> e]
<1>1. rec \in Entry /\ log' = Append(log, rec) /\ log \in Seq(Entry)
  BY DEF Publish, Entry, TypeOK, StreamsOK
<1>2. Grown
  BY <1>1, AppendGrown DEF TypeOK
<1>3. StreamsOK'
  <2>1. log' \in Seq(Entry)
    BY <1>1
  <2> QED BY <1>2, <2>1 DEF TypeOK, StreamsOK, Publish, Pending, Grown, Entry
<1>4. LoopsOK' /\ TasksOK' /\ ReplaysOK' /\ CountsOK'
  BY <1>2, LoopsKept, TasksKept, ReplaysKept DEF TypeOK, Publish, CountsOK, bounds
<1> QED BY <1>3, <1>4 DEF TypeOK

LEMMA TickTypeOK == ASSUME TypeOK, Tick PROVE TypeOK'
<1>1. Grown
  BY SameLogGrown DEF Tick
<1>2. StreamsOK'
  BY ConstantsAssumption DEF TypeOK, StreamsOK, Tick, Pending, Stream, Ids
<1>3. LoopsOK' /\ TasksOK' /\ ReplaysOK' /\ CountsOK'
  BY <1>1, LoopsKept, TasksKept, ReplaysKept DEF TypeOK, Tick, CountsOK, bounds
<1> QED BY <1>2, <1>3 DEF TypeOK

LEMMA ExpireTypeOK ==
  ASSUME TypeOK, NEW e \in Events, Expire(e)
  PROVE  TypeOK'
<1>1. Grown
  BY SameLogGrown DEF Expire
<1>2. StreamsOK'
  BY DEF TypeOK, StreamsOK, Expire, Pending, Stream, Ids
<1>3. LoopsOK' /\ TasksOK' /\ ReplaysOK'
  BY <1>1, LoopsKept, TasksKept, ReplaysKept DEF TypeOK, Expire
<1>4. CountsOK'
  BY FaultCounted DEF TypeOK, CountsOK, Expire
<1> QED BY <1>2, <1>3, <1>4 DEF TypeOK

LEMMA ClaimTypeOK ==
  ASSUME TypeOK, NEW r \in Routers, Claim(r)
  PROVE  TypeOK'
<1> DEFINE S == FirstOf({n \in Pending : n >= claimCursor[r] /\ idle[n] = MinIdle})
           later == {m \in Pending : \A n \in S : m > n}
<1>1. Grown
  BY SameLogGrown DEF Claim
<1>2. S \subseteq Pending /\ Pending \subseteq Stream /\ Stream \subseteq Nat
  <2>1. S \subseteq Pending
    BY FirstOfSubset
  <2>2. Stream \subseteq Nat
    BY DEF TypeOK, StreamsOK, Stream, Ids
  <2> QED BY <2>1, <2>2 DEF TypeOK, StreamsOK
<1>3. StreamsOK'
  BY ConstantsAssumption DEF TypeOK, StreamsOK, Claim, Pending, Stream, Ids
<1>4. LoopsOK'
  <2>1. batch' = [batch EXCEPT ![r] = S]
    BY DEF Claim
  <2>2. \E next \in Nat : claimCursor' = [claimCursor EXCEPT ![r] = next]
    BY <1>2 DEF Claim
  <2>3. loop' = [loop EXCEPT ![r] = "claimed"] /\ UNCHANGED <<log, up, blockedKeys>>
    BY DEF Claim
  <2> HIDE DEF S
  <2> QED BY <1>2, <2>1, <2>2, <2>3 DEF TypeOK, LoopsOK, Stream, Ids
<1>5. TasksOK' /\ ReplaysOK' /\ CountsOK'
  BY <1>1, TasksKept, ReplaysKept DEF TypeOK, Claim, CountsOK, bounds
<1> QED BY <1>3, <1>4, <1>5 DEF TypeOK

LEMMA ReadTypeOK ==
  ASSUME TypeOK, NEW r \in Routers, Read(r)
  PROVE  TypeOK'
<1> DEFINE S == FirstOf(Unread)
<1>1. Grown
  BY SameLogGrown DEF Read
<1>2. S \subseteq Stream
  BY FirstOfSubset DEF Unread
<1>3. /\ batch' = [batch EXCEPT ![r] = S]
      /\ idle' = [n \in Pending \cup S |-> IF n \in S THEN 0 ELSE idle[n]]
      /\ lastRead' \in {lastRead} \cup S
      /\ loop' = [loop EXCEPT ![r] = "gotten"]
      /\ UNCHANGED <<log, dlq, done, up, claimCursor, blockedKeys>>
  BY DEF Read
<1> HIDE DEF S
<1>4. StreamsOK'
  BY <1>2, <1>3, ConstantsAssumption DEF TypeOK, StreamsOK, Pending, Stream, Ids
<1>5. LoopsOK'
  BY <1>2, <1>3 DEF TypeOK, LoopsOK, Stream, Ids
<1>6. TasksOK' /\ ReplaysOK' /\ CountsOK'
  BY <1>1, TasksKept, ReplaysKept DEF TypeOK, Read, CountsOK, bounds
<1> QED BY <1>4, <1>5, <1>6 DEF TypeOK

LEMMA LoopFailsTypeOK ==
  ASSUME TypeOK, NEW r \in Routers, LoopFails(r)
  PROVE  TypeOK'
<1>1. Grown
  BY SameLogGrown DEF LoopFails, streams
<1>2. StreamsOK'
  BY StreamsKept DEF TypeOK, LoopFails
<1>3. LoopsOK'
  BY <1>1 DEF TypeOK, LoopsOK, LoopFails, Grown
<1>4. TasksOK' /\ ReplaysOK'
  BY <1>1, TasksKept, ReplaysKept DEF TypeOK, LoopFails
<1>5. CountsOK'
  BY FaultCounted DEF TypeOK, CountsOK, LoopFails
<1> QED BY <1>2, <1>3, <1>4, <1>5 DEF TypeOK

LEMMA EnqueueTypeOK ==
  ASSUME TypeOK, NEW r \in Routers, Enqueue(r)
  PROVE  TypeOK'
<1>1. Grown
  BY SameLogGrown DEF Enqueue, streams
<1>2. StreamsOK'
  BY StreamsKept DEF TypeOK, Enqueue
<1>3. LoopsOK'
  BY <1>1 DEF TypeOK, LoopsOK, Enqueue, Grown
<1>4. InFlight(r) \cup batch[r] \subseteq Nat
  BY DEF TypeOK, TasksOK, LoopsOK, StreamsOK, Stream, Ids
<1>5. \A n : NewTask(r, n) \in Task
  BY <1>4, ConstantsAssumption DEF NewTask, Task, StepNames
<1>6. TasksOK'
  <2>1. DOMAIN task' = Routers
    BY DEF TypeOK, TasksOK, Enqueue
  <2>2. ASSUME NEW q \in Routers
        PROVE  (InFlight(q) \subseteq Stream)' /\ (task[q] \in [InFlight(q) -> Task])'
    <3>1. CASE q = r
      <4>1. task'[r] = [n \in InFlight(r) \cup batch[r] |->
                IF n \in InFlight(r) THEN task[r][n] ELSE NewTask(r, n)]
        BY DEF TypeOK, TasksOK, Enqueue
      <4>2. InFlight(r)' = InFlight(r) \cup batch[r]
        BY <4>1 DEF InFlight
      <4>3. InFlight(r) \cup batch[r] \subseteq Stream
        BY DEF TypeOK, TasksOK, LoopsOK
      <4> QED BY <1>1, <1>5, <3>1, <4>1, <4>2, <4>3 DEF TypeOK, TasksOK, Grown
    <3>2. CASE q # r
      BY <1>1, <3>2 DEF TypeOK, TasksOK, Enqueue, InFlight, Grown
    <3> QED BY <3>1, <3>2
  <2> QED BY <2>1, <2>2 DEF TasksOK
<1>7. ReplaysOK' /\ CountsOK'
  BY <1>1, ReplaysKept DEF TypeOK, Enqueue, CountsOK, bounds
<1> QED BY <1>2, <1>3, <1>6, <1>7 DEF TypeOK

\* The ways an entry's task changes while the log grows.
LEMMA GoToTasksOK ==
  ASSUME TasksOK, Grown, NEW r \in Routers, NEW n \in InFlight(r),
         NEW step \in StepNames, GoTo(r, n, step)
  PROVE  TasksOK'
<1>1. task' = [task EXCEPT ![r] = [task[r] EXCEPT ![n].step = step]]
  BY DEF GoTo
<1>2. [task[r] EXCEPT ![n].step = step] \in [InFlight(r) -> Task]
  BY DEF TasksOK, Task
<1>3. \A q \in Routers : InFlight(q)' = InFlight(q)
  BY <1>1, <1>2 DEF TasksOK, InFlight
<1> QED BY <1>1, <1>2, <1>3 DEF TasksOK, Grown

LEMMA LeaveTasksOK ==
  ASSUME TasksOK, Grown, NEW r \in Routers, NEW n \in InFlight(r), Leave(r, n)
  PROVE  TasksOK'
<1> DEFINE rest == [m \in InFlight(r) \ {n} |-> [task[r][m] EXCEPT !.ahead = @ \ {n}]]
<1>1. task' = [task EXCEPT ![r] = rest]
  BY DEF Leave
<1>2. rest \in [InFlight(r) \ {n} -> Task] /\ DOMAIN rest = InFlight(r) \ {n}
  BY DEF TasksOK, Task
<1> HIDE DEF rest
<1>3. \A q \in Routers : InFlight(q)' \subseteq InFlight(q) /\ task'[q] \in [InFlight(q)' -> Task]
  BY <1>1, <1>2 DEF TasksOK, InFlight
<1> QED BY <1>1, <1>3 DEF TasksOK, Grown

LEMMA NoReplyOK ==
  ASSUME TasksOK, CountsOK, Grown, NEW r \in Routers, NEW n \in InFlight(r),
         NoReply(r, n)
  PROVE  TasksOK' /\ faults' \in 0..MaxFaults
BY GoToTasksOK, LeaveTasksOK, FaultCounted DEF NoReply, StepNames

LEMMA ReplyOK ==
  ASSUME TasksOK, CountsOK, Grown, NEW r \in Routers, NEW n \in InFlight(r),
         NEW step \in StepNames, Reply(r, n, step)
  PROVE  TasksOK' /\ faults' \in 0..MaxFaults
<1>1. CASE GoTo(r, n, step) /\ UNCHANGED faults
  BY <1>1, GoToTasksOK DEF CountsOK
<1>2. CASE NoReply(r, n)
  BY <1>2, NoReplyOK
<1> QED BY <1>1, <1>2 DEF Reply

LEMMA EventOfTask ==
  ASSUME TypeOK, NEW r \in Routers, NEW n \in InFlight(r)
  PROVE  n \in Ids /\ n \in Stream /\ Event(n) \in Events
<1>1. n \in Stream
  BY DEF TypeOK, TasksOK
<1>2. n \in Ids
  BY <1>1 DEF Stream
<1>3. log \in Seq(Entry)
  BY DEF TypeOK, StreamsOK, Entry
<1> QED BY <1>1, <1>2, <1>3, IdsFacts

LEMMA BeginTypeOK ==
  ASSUME TypeOK, NEW r \in Routers, NEW n \in InFlight(r),
         Begin(r, n) \/ CommandLost(r, n)
  PROVE  TypeOK'
<1>1. Grown
  BY SameLogGrown DEF Begin, CommandLost, streams
<1>2. StreamsOK'
  BY StreamsKept DEF TypeOK, Begin, CommandLost
<1>3. LoopsOK' /\ ReplaysOK'
  BY <1>1, LoopsKept, ReplaysKept DEF TypeOK, Begin, CommandLost
<1>4. TasksOK' /\ faults' \in 0..MaxFaults
  <2>1. CASE Leave(r, n) /\ UNCHANGED faults
    BY <1>1, <2>1, LeaveTasksOK DEF TypeOK, CountsOK
  <2>2. CASE \E step \in {"ack", "deliver"} : Reply(r, n, step)
    BY <1>1, <2>2, ReplyOK DEF TypeOK, StepNames
  <2>3. CASE NoReply(r, n)
    BY <1>1, <2>3, NoReplyOK DEF TypeOK
  <2> QED BY <2>1, <2>2, <2>3 DEF Begin, CommandLost
<1>5. CountsOK'
  BY <1>4 DEF TypeOK, CountsOK, Begin, CommandLost
<1> QED BY <1>2, <1>3, <1>4, <1>5 DEF TypeOK

\* What a failed attempt leaves: another attempt, a blocked key or a dead letter.
LEMMA AttemptFailedOK ==
  ASSUME TypeOK, Grown, NEW r \in Routers, NEW n \in InFlight(r),
         AttemptFailed(r, n)
  PROVE  /\ TasksOK'
         /\ blockedKeys' \in [Routers -> SUBSET {OrderingKey[e] : e \in Events}]
<1>1. Event(n) \in Events
  BY EventOfTask
<1>2. CASE /\ task[r][n].attempt < MaxAttempts
           /\ task' = [task EXCEPT ![r][n].attempt = @ + 1]
           /\ UNCHANGED blockedKeys
  <2> DEFINE next == [task[r] EXCEPT ![n].attempt = @ + 1]
  <2>1. task' = [task EXCEPT ![r] = next]
    BY <1>2
  <2>2. task[r][n].attempt + 1 \in 1..MaxAttempts
    BY <1>2, ConstantsAssumption DEF TypeOK, TasksOK, Task
  <2>3. next \in [InFlight(r) -> Task]
    BY <2>2 DEF TypeOK, TasksOK, Task
  <2>4. \A q \in Routers : InFlight(q)' = InFlight(q)
    BY <2>1, <2>3 DEF TypeOK, TasksOK, InFlight
  <2> HIDE DEF next
  <2>5. DOMAIN task' = Routers /\ task'[r] = next
    BY <2>1 DEF TypeOK, TasksOK
  <2>6. \A q \in Routers : task'[q] \in [InFlight(q)' -> Task]
    BY <2>1, <2>3, <2>4 DEF TypeOK, TasksOK
  <2>7. blockedKeys' \in [Routers -> SUBSET {OrderingKey[e] : e \in Events}]
    BY <1>2 DEF TypeOK, LoopsOK
  <2> QED BY <2>1, <2>3, <2>4, <2>5, <2>6, <2>7 DEF TypeOK, TasksOK, Grown
<1>3. CASE /\ blockedKeys' = [blockedKeys EXCEPT ![r] = @ \cup {OrderingKey[Event(n)]}]
           /\ Leave(r, n)
  <2>1. TasksOK'
    BY <1>3, LeaveTasksOK DEF TypeOK
  <2> QED BY <1>1, <1>3, <2>1 DEF TypeOK, LoopsOK
<1>4. CASE GoTo(r, n, "park") /\ UNCHANGED blockedKeys
  BY <1>4, GoToTasksOK DEF TypeOK, StepNames, LoopsOK
<1> QED BY <1>2, <1>3, <1>4 DEF AttemptFailed

LEMMA DeliverTypeOK ==
  ASSUME TypeOK, NEW r \in Routers, NEW n \in InFlight(r), Deliver(r, n)
  PROVE  TypeOK'
<1>1. Grown
  BY SameLogGrown DEF Deliver, streams
<1>2. StreamsOK' /\ ReplaysOK'
  BY <1>1, StreamsKept, ReplaysKept DEF TypeOK, Deliver
<1>3. /\ TasksOK'
      /\ blockedKeys' \in [Routers -> SUBSET {OrderingKey[e] : e \in Events}]
  <2>1. CASE GoTo(r, n, "mark") /\ UNCHANGED blockedKeys
    BY <1>1, <2>1, GoToTasksOK DEF TypeOK, LoopsOK, StepNames
  <2>2. CASE AttemptFailed(r, n)
    BY <1>1, <2>2, AttemptFailedOK
  <2> QED BY <2>1, <2>2 DEF Deliver
<1>4. LoopsOK'
  BY <1>1, <1>3 DEF TypeOK, LoopsOK, Deliver, loopVars, Grown
<1>5. CountsOK'
  <2>1. effects' \in [Events -> Nat]
    BY EventOfTask DEF TypeOK, CountsOK, Deliver
  <2>2. faults' \in 0..MaxFaults
    BY FaultCounted DEF TypeOK, CountsOK, Deliver
  <2> QED BY <2>1, <2>2 DEF TypeOK, CountsOK, Deliver
<1> QED BY <1>2, <1>3, <1>4, <1>5 DEF TypeOK

LEMMA MarkTypeOK ==
  ASSUME TypeOK, NEW r \in Routers, NEW n \in InFlight(r), Mark(r, n)
  PROVE  TypeOK'
<1>1. Grown
  BY SameLogGrown DEF Mark
<1>2. StreamsOK'
  BY EventOfTask DEF TypeOK, StreamsOK, Mark, Pending, Stream, Ids
<1>3. LoopsOK' /\ ReplaysOK'
  BY <1>1, LoopsKept, ReplaysKept DEF TypeOK, Mark
<1>4. TasksOK' /\ faults' \in 0..MaxFaults
  BY <1>1, ReplyOK DEF TypeOK, Mark, StepNames
<1>5. CountsOK'
  BY <1>4 DEF TypeOK, CountsOK, Mark
<1> QED BY <1>2, <1>3, <1>4, <1>5 DEF TypeOK

LEMMA ParkTypeOK ==
  ASSUME TypeOK, NEW r \in Routers, NEW n \in InFlight(r), Park(r, n)
  PROVE  TypeOK'
<1> DEFINE rec == [at |-> "dlq", event |-> Event(n)]
<1>1. rec \in Entry /\ log' = Append(log, rec) /\ log \in Seq(Entry)
  BY EventOfTask DEF Park, Entry, TypeOK, StreamsOK
<1>2. Grown
  BY <1>1, AppendGrown DEF TypeOK
<1>3. StreamsOK'
  <2>1. log' \in Seq(Entry) /\ Len(log) + 1 \in Ids' /\ log'[Len(log) + 1] = rec
    BY <1>1, LogGrows
  <2>2. Len(log) + 1 \in (Ids \ Stream)'
    BY <2>1 DEF Stream
  <2>3. dlq' \subseteq (Ids \ Stream)'
    BY <1>2, <2>2 DEF TypeOK, StreamsOK, Park, Grown
  <2> QED BY <1>2, <2>1, <2>3 DEF TypeOK, StreamsOK, Park, Pending, Grown, Entry
<1>4. LoopsOK' /\ ReplaysOK'
  BY <1>2, LoopsKept, ReplaysKept DEF TypeOK, Park
<1>5. TasksOK' /\ faults' \in 0..MaxFaults
  BY <1>2, ReplyOK DEF TypeOK, Park, StepNames
<1>6. CountsOK'
  BY <1>5 DEF TypeOK, CountsOK, Park
<1> QED BY <1>3, <1>4, <1>5, <1>6 DEF TypeOK

LEMMA AckTypeOK ==
  ASSUME TypeOK, NEW r \in Routers, NEW n \in InFlight(r), Ack(r, n)
  PROVE  TypeOK'
<1>1. Grown
  BY SameLogGrown DEF Ack
<1>2. StreamsOK'
  BY DEF TypeOK, StreamsOK, Ack, Pending, Stream, Ids, Without
<1>3. LoopsOK' /\ ReplaysOK'
  BY <1>1, LoopsKept, ReplaysKept DEF TypeOK, Ack
<1>4. TasksOK' /\ faults' \in 0..MaxFaults
  <2>1. CASE Leave(r, n) /\ UNCHANGED faults
    BY <1>1, <2>1, LeaveTasksOK DEF TypeOK, CountsOK
  <2>2. CASE Fault("hang") /\ GoTo(r, n, "hung")
    BY <1>1, <2>2, GoToTasksOK, FaultCounted DEF TypeOK, StepNames
  <2> QED BY <2>1, <2>2 DEF Ack
<1>5. CountsOK'
  BY <1>4 DEF TypeOK, CountsOK, Ack
<1> QED BY <1>2, <1>3, <1>4, <1>5 DEF TypeOK

LEMMA ReplayTypeOK ==
  ASSUME TypeOK, NEW r \in Routers,
         ReplayRequest(r) \/ ReplayStep(r) \/ ReplayFails(r)
  PROVE  TypeOK'
<1>1. CASE ReplayRequest(r)
  <2>1. Grown
    BY <1>1, SameLogGrown DEF ReplayRequest, streams
  <2>2. StreamsOK' /\ LoopsOK' /\ TasksOK'
    BY <1>1, <2>1, StreamsKept, LoopsKept, TasksKept DEF TypeOK, ReplayRequest
  <2>3. ReplaysOK'
    BY <1>1, <2>1 DEF TypeOK, ReplaysOK, StreamsOK, ReplayRequest, Grown
  <2>4. CountsOK'
    BY <1>1, ConstantsAssumption DEF TypeOK, CountsOK, ReplayRequest
  <2> QED BY <2>2, <2>3, <2>4 DEF TypeOK
<1>2. CASE ReplayAdd(r)
  <2>1. PICK d \in replay[r].rows : log' = Append(log, [at |-> "stream", event |-> Event(d)])
    BY <1>2 DEF ReplayAdd
  <2> DEFINE rec == [at |-> "stream", event |-> Event(d)]
  <2>2. log \in Seq(Entry) /\ d \in Ids
    BY DEF TypeOK, StreamsOK, ReplaysOK, Entry
  <2>3. rec \in Entry
    BY <2>2, IdsFacts DEF Entry
  <2>4. Grown
    BY <2>1, <2>3, AppendGrown DEF TypeOK
  <2>5. StreamsOK'
    <3>1. log' \in Seq(Entry)
      BY <2>1, <2>2, <2>3
    <3> QED BY <1>2, <2>4, <3>1 DEF TypeOK, StreamsOK, ReplayAdd, Pending, Grown, Entry
  <2>6. LoopsOK' /\ TasksOK'
    BY <1>2, <2>4, LoopsKept, TasksKept DEF TypeOK, ReplayAdd
  <2>7. ReplaysOK'
    BY <1>2, <2>4 DEF TypeOK, ReplaysOK, ReplayAdd, Grown
  <2>8. CountsOK'
    BY <1>2 DEF TypeOK, CountsOK, ReplayAdd, bounds
  <2> QED BY <2>5, <2>6, <2>7, <2>8 DEF TypeOK
<1>3. CASE ReplayDel(r)
  <2>1. Grown
    BY <1>3, SameLogGrown DEF ReplayDel
  <2>2. StreamsOK'
    BY <1>3 DEF TypeOK, StreamsOK, ReplayDel, Pending, Stream, Ids
  <2>3. LoopsOK' /\ TasksOK'
    BY <1>3, <2>1, LoopsKept, TasksKept DEF TypeOK, ReplayDel
  <2>4. ReplaysOK'
    BY <1>3, <2>1 DEF TypeOK, ReplaysOK, ReplayDel, Grown
  <2>5. CountsOK'
    BY <1>3 DEF TypeOK, CountsOK, ReplayDel, bounds
  <2> QED BY <2>2, <2>3, <2>4, <2>5 DEF TypeOK
<1>4. CASE ReplayFails(r)
  <2>1. Grown
    BY <1>4, SameLogGrown DEF ReplayFails, streams
  <2>2. StreamsOK' /\ LoopsOK' /\ TasksOK'
    BY <1>4, <2>1, StreamsKept, LoopsKept, TasksKept DEF TypeOK, ReplayFails
  <2>3. ReplaysOK'
    BY <1>4, <2>1 DEF TypeOK, ReplaysOK, ReplayFails, NoReplay, Grown
  <2>4. CountsOK'
    BY <1>4, FaultCounted DEF TypeOK, CountsOK, ReplayFails
  <2> QED BY <2>2, <2>3, <2>4 DEF TypeOK
<1> QED BY <1>1, <1>2, <1>3, <1>4 DEF ReplayStep

LEMMA StutterTypeOK == ASSUME TypeOK, UNCHANGED vars PROVE TypeOK'
<1>1. Grown
  BY SameLogGrown DEF vars, streams
<1> QED BY <1>1, StreamsKept, LoopsKept, TasksKept, ReplaysKept
        DEF TypeOK, vars, CountsOK, bounds

LEMMA NextTypeOK == TypeOK /\ [Next]_vars => TypeOK'
<1> SUFFICES ASSUME TypeOK, [Next]_vars PROVE TypeOK'
  OBVIOUS
<1>1. CASE Tick
  BY <1>1, TickTypeOK
<1>2. CASE \E e \in Events : Publish(e) \/ Expire(e)
  BY <1>2, PublishTypeOK, ExpireTypeOK
<1>3. ASSUME NEW r \in Routers, Start(r) \/ Crash(r)
      PROVE  TypeOK'
  BY <1>3, StartTypeOK
<1>4. ASSUME NEW r \in Routers, LoopStep(r) \/ LoopFails(r)
      PROVE  TypeOK'
  BY <1>4, ClaimTypeOK, ReadTypeOK, EnqueueTypeOK, LoopFailsTypeOK DEF LoopStep
<1>5. ASSUME NEW r \in Routers, ReplayRequest(r) \/ ReplayStep(r) \/ ReplayFails(r)
      PROVE  TypeOK'
  BY <1>5, ReplayTypeOK
<1>6. ASSUME NEW r \in Routers, NEW n \in InFlight(r), ChainStep(r, n) \/ CommandLost(r, n)
      PROVE  TypeOK'
  BY <1>6, BeginTypeOK, DeliverTypeOK, MarkTypeOK, ParkTypeOK, AckTypeOK DEF ChainStep
<1>7. CASE UNCHANGED vars
  BY <1>7, StutterTypeOK
<1> QED BY <1>1, <1>2, <1>3, <1>4, <1>5, <1>6, <1>7 DEF Next

\* Type correctness of the queued edge: batches, tasks and replays never
\* refer to an entry that is not there.
THEOREM TypeCorrect == Spec => []TypeOK
BY InitTypeOK, NextTypeOK, PTL DEF Spec

-----------------------------------------------------------------------------
(* Custody: what leaves the streams was carried out, or added again. *)

\* What no step takes back: ids keep their entry, delivered stays delivered.
Kept ==
  /\ Ids \subseteq Ids' /\ \A n \in Ids : log'[n] = log[n]
  /\ \A e \in Events : effects[e] > 0 => effects'[e] > 0

LEMMA SameKept == ASSUME UNCHANGED <<log, effects>> PROVE Kept
BY DEF Kept, Ids

LEMMA AppendKept ==
  ASSUME TypeOK, NEW rec \in Entry, log' = Append(log, rec), UNCHANGED effects
  PROVE  Kept
<1>1. log \in Seq(Entry)
  BY DEF TypeOK, StreamsOK, Entry
<1> QED BY <1>1, LogGrows DEF Kept

\* An event added again supersedes its earlier ids.
LEMMA AppendSupersedes ==
  ASSUME TypeOK, NEW n \in Ids, NEW rec \in Entry, log' = Append(log, rec),
         rec.event = Event(n)
  PROVE  Superseded(n)'
<1>1. log \in Seq(Entry)
  BY DEF TypeOK, StreamsOK, Entry
<1>2. PICK id : id = Len(log) + 1
  OBVIOUS
<1>3. id \in Ids' /\ id > n /\ log'[id] = rec /\ log'[n] = log[n]
  BY <1>1, <1>2, LogGrows, IdsFacts
<1>4. Event(id)' = Event(n)'
  BY <1>3 DEF Event
<1> QED BY <1>3, <1>4 DEF Superseded

LEMMA SupersededKept ==
  ASSUME TypeOK, Kept, NEW n \in Ids, Superseded(n)
  PROVE  Superseded(n)'
<1>1. log \in Seq(Entry)
  BY DEF TypeOK, StreamsOK, Entry
<1>2. Event(n) \in Events
  BY <1>1, IdsFacts
<1> QED BY <1>2 DEF Superseded, Kept, Event

-----------------------------------------------------------------------------
(* Each part of Custody under the ways a step may change its variables. *)

LEMMA IdsHeldKept ==
  ASSUME TypeOK, IdsHeld, Kept, UNCHANGED log,
         \A n \in Ids : Live(n) => Live(n)' \/ Superseded(n)
  PROVE  IdsHeld'
<1>1. Ids' = Ids
  BY DEF Ids
<1> QED BY <1>1, SupersededKept DEF IdsHeld

\* An entry appended to either stream is live, and the others stay live.
LEMMA IdsHeldAppended ==
  ASSUME TypeOK, IdsHeld, NEW rec \in Entry, log' = Append(log, rec),
         UNCHANGED <<lastRead, idle, effects>>, dlq \subseteq dlq',
         rec.at = "dlq" => Len(log) + 1 \in dlq'
  PROVE  IdsHeld'
<1>1. log \in Seq(Entry)
  BY DEF TypeOK, StreamsOK, Entry
<1>2. Kept
  BY AppendKept
<1>3. ASSUME NEW n \in Ids
      PROVE  (Live(n) \/ Superseded(n))'
  <2>1. Live(n) => Live(n)'
    BY <1>2 DEF Live, Unread, Stream, Pending, Kept
  <2> QED BY <1>2, <2>1, SupersededKept DEF IdsHeld
<1>4. ASSUME NEW n, n = Len(log) + 1
      PROVE  Live(n)'
  <2>1. CASE rec.at = "dlq"
    BY <1>4, <2>1 DEF Live
  <2>2. CASE rec.at # "dlq"
    <3>1. n \in Stream'
      BY <1>1, <1>4, <2>2, LogGrows DEF Stream, Entry
    <3>2. n > lastRead'
      BY <1>1, <1>4, LogGrows DEF TypeOK, StreamsOK, Stream, Ids
    <3> QED BY <3>1, <3>2 DEF Live, Unread
  <2> QED BY <2>1, <2>2
<1> QED BY <1>1, <1>3, <1>4, LogGrows DEF IdsHeld

LEMMA TasksSoundKept ==
  ASSUME TypeOK, TasksSound, Kept,
         \A q \in Routers : \A m \in InFlight(q)' :
           \/ m \in InFlight(q) /\ task'[q][m].step = task[q][m].step
           \/ /\ task'[q][m].step = "mark" => effects'[Event(m)'] > 0
              /\ task'[q][m].step = "ack" => Superseded(m)'
  PROVE  TasksSound'
<1> SUFFICES ASSUME NEW q \in Routers, NEW m \in InFlight(q)'
             PROVE  /\ task'[q][m].step = "mark" => effects'[Event(m)'] > 0
                    /\ task'[q][m].step = "ack" => Superseded(m)'
  BY DEF TasksSound
<1>1. CASE m \in InFlight(q) /\ task'[q][m].step = task[q][m].step
  <2>1. m \in Ids /\ Event(m) \in Events /\ Event(m)' = Event(m)
    BY <1>1, EventOfTask DEF Kept, Event
  <2> QED BY <1>1, <2>1, SupersededKept DEF TasksSound, Kept
<1> QED BY <1>1

\* A step of one task: it ends, or goes on where it is entitled to.
LEMMA TasksSoundStep ==
  ASSUME TypeOK, TasksSound, Kept, NEW r \in Routers, NEW n \in InFlight(r),
         NEW step, Leave(r, n) \/ GoTo(r, n, step),
         step = "mark" => effects'[Event(n)'] > 0,
         step = "ack" => Superseded(n)'
  PROVE  TasksSound'
<1>1. CASE Leave(r, n)
  <2>1. \A q \in Routers : \A m \in InFlight(q)' :
          m \in InFlight(q) /\ task'[q][m].step = task[q][m].step
    <3> SUFFICES ASSUME NEW q \in Routers, NEW m \in InFlight(q)'
                 PROVE  m \in InFlight(q) /\ task'[q][m].step = task[q][m].step
      OBVIOUS
    <3>1. CASE q = r
      <4>1. task'[r] = [x \in InFlight(r) \ {n} |-> [task[r][x] EXCEPT !.ahead = @ \ {n}]]
        BY <1>1 DEF Leave, TypeOK, TasksOK
      <4>2. m \in InFlight(r) \ {n}
        BY <3>1, <4>1 DEF InFlight
      <4> QED BY <3>1, <4>1, <4>2 DEF TypeOK, TasksOK, Task
    <3>2. CASE q # r
      BY <1>1, <3>2 DEF Leave, InFlight, TypeOK, TasksOK
    <3> QED BY <3>1, <3>2
  <2> QED BY <2>1, TasksSoundKept
<1>2. CASE GoTo(r, n, step)
  <2>1. task' = [task EXCEPT ![r] = [task[r] EXCEPT ![n].step = step]]
    BY <1>2 DEF GoTo
  <2>2. ASSUME NEW q \in Routers, NEW m \in InFlight(q)'
        PROVE  \/ m \in InFlight(q) /\ task'[q][m].step = task[q][m].step
               \/ m = n /\ task'[q][m].step = step
    <3>1. CASE q = r
      BY <2>1, <3>1 DEF InFlight, TypeOK, TasksOK, Task
    <3>2. CASE q # r
      BY <2>1, <3>2 DEF InFlight, TypeOK, TasksOK
    <3> QED BY <3>1, <3>2
  <2> QED BY <2>2, TasksSoundKept
<1> QED BY <1>1, <1>2

LEMMA TasksSoundReply ==
  ASSUME TypeOK, TasksSound, Kept, NEW r \in Routers, NEW n \in InFlight(r),
         NEW step, Reply(r, n, step) \/ NoReply(r, n),
         step = "mark" => effects'[Event(n)'] > 0,
         step = "ack" => Superseded(n)'
  PROVE  TasksSound'
<1>1. CASE Leave(r, n)
  BY <1>1, TasksSoundStep
<1>2. CASE GoTo(r, n, step)
  BY <1>2, TasksSoundStep
<1>3. CASE GoTo(r, n, "hung")
  <2>1. "hung" # "mark" /\ "hung" # "ack"
    OBVIOUS
  <2> QED BY <1>3, <2>1, TasksSoundStep
<1> QED BY <1>1, <1>2, <1>3 DEF Reply, NoReply

LEMMA RowsSoundKept ==
  ASSUME TypeOK, RowsSound, Kept,
         \A q \in Routers : replay'[q] = replay[q] \/ replay'[q].step = "add"
  PROVE  RowsSound'
<1> SUFFICES ASSUME NEW q \in Routers, NEW d \in replay'[q].rows,
                    replay'[q].step = "del", FirstRow(q, d)'
             PROVE  Superseded(d)'
  BY DEF RowsSound
<1>1. replay'[q] = replay[q]
  OBVIOUS
<1>2. FirstRow(q, d) /\ d \in Ids
  BY <1>1 DEF FirstRow, TypeOK, ReplaysOK
<1>3. Superseded(d)
  BY <1>1, <1>2 DEF RowsSound
<1> QED BY <1>2, <1>3, SupersededKept

LEMMA DoneKept ==
  ASSUME TypeOK, DoneMeansDelivered, Kept, done' \subseteq done
  PROVE  DoneMeansDelivered'
BY DEF TypeOK, StreamsOK, DoneMeansDelivered, Kept

-----------------------------------------------------------------------------
(* Init and every action. *)

LEMMA InitCustody == Init => Custody
<1> SUFFICES ASSUME Init PROVE Custody
  OBVIOUS
<1>1. IdsHeld /\ DoneMeansDelivered
  BY DEF Init, IdsHeld, DoneMeansDelivered, Ids
<1>2. TasksSound
  BY DEF Init, TasksSound, InFlight
<1>3. RowsSound
  BY DEF Init, RowsSound, NoReplay
<1> QED BY <1>1, <1>2, <1>3 DEF Custody

\* Actions that change neither Redis nor what was carried out, and start no
\* new "mark" or "ack".
LEMMA QuietCustody ==
  ASSUME TypeOK, Custody, UNCHANGED <<streams, effects>>, TasksSound',
         \A q \in Routers : replay'[q] = replay[q] \/ replay'[q].step = "add"
  PROVE  Custody'
<1>1. Kept
  BY SameKept DEF streams
<1>2. \A n \in Ids : Live(n) => Live(n)'
  BY DEF streams, Live, Unread, Stream, Pending, Ids
<1> QED BY <1>1, <1>2, IdsHeldKept, RowsSoundKept, DoneKept DEF Custody, streams

LEMMA SameTasks ==
  ASSUME TypeOK, Custody, Kept, UNCHANGED task
  PROVE  TasksSound'
<1>1. \A q \in Routers : InFlight(q)' = InFlight(q) /\ task'[q] = task[q]
  BY DEF InFlight
<1> QED BY <1>1, TasksSoundKept DEF Custody

LEMMA ProcessCustody ==
  ASSUME TypeOK, Custody, NEW r \in Routers, Start(r) \/ Crash(r)
  PROVE  Custody'
<1>1. Kept /\ UNCHANGED <<streams, effects>>
  BY SameKept DEF Start, Crash, streams
<1>2. \A q \in Routers : \A m \in InFlight(q)' :
        m \in InFlight(q) /\ task'[q][m].step = task[q][m].step
  BY DEF Start, Crash, InFlight, TypeOK, TasksOK
<1>3. TasksSound'
  BY <1>1, <1>2, TasksSoundKept DEF Custody
<1>4. \A q \in Routers : replay'[q] = replay[q] \/ replay'[q].step = "add"
  BY DEF Start, Crash, NoReplay, TypeOK, ReplaysOK
<1> QED BY <1>1, <1>3, <1>4, QuietCustody

LEMMA PublishCustody ==
  ASSUME TypeOK, Custody, NEW e \in Events, Publish(e)
  PROVE  Custody'
<1> DEFINE rec == [at |-> "stream", event |-> e]
<1>1. rec \in Entry /\ log' = Append(log, rec) /\ rec.at = "stream"
  BY DEF Entry, Publish
<1>2. UNCHANGED <<lastRead, idle, dlq, done, effects, task, replay>>
  BY DEF Publish
<1>3. Kept
  BY <1>1, <1>2, AppendKept
<1>4. IdsHeld'
  BY <1>1, <1>2, IdsHeldAppended DEF Custody
<1> QED BY <1>2, <1>3, <1>4, SameTasks, RowsSoundKept, DoneKept DEF Custody

LEMMA TickCustody ==
  ASSUME TypeOK, Custody, Tick \/ (\E e \in Events : Expire(e))
  PROVE  Custody'
<1>1. /\ UNCHANGED <<log, lastRead, dlq, effects, task, replay>>
      /\ Pending' = Pending /\ done' \subseteq done
  BY DEF Tick, Expire, Pending
<1>2. Kept
  BY <1>1, SameKept
<1>3. \A n \in Ids : Live(n) => Live(n)'
  BY <1>1 DEF Live, Unread, Stream, Ids
<1> QED BY <1>1, <1>2, <1>3, IdsHeldKept, SameTasks, RowsSoundKept, DoneKept
        DEF Custody

LEMMA LoopCustody ==
  ASSUME TypeOK, Custody, NEW r \in Routers, LoopStep(r) \/ LoopFails(r)
  PROVE  Custody'
<1>1. CASE Claim(r)
  <2>1. /\ UNCHANGED <<log, lastRead, dlq, done, effects, task, replay>>
        /\ Pending' = Pending
    BY <1>1 DEF Claim, Pending
  <2>2. Kept /\ \A n \in Ids : Live(n) => Live(n)'
    BY <2>1, SameKept DEF Live, Unread, Stream, Ids
  <2> QED BY <2>1, <2>2, IdsHeldKept, SameTasks, RowsSoundKept, DoneKept
          DEF Custody
<1>2. CASE Read(r)
  <2> DEFINE S == FirstOf(Unread)
  <2>1. /\ UNCHANGED <<log, dlq, done, effects, task, replay>>
        /\ Pending' = Pending \cup S
        /\ lastRead' = lastRead \/ lastRead' \in S
    BY <1>2 DEF Read, Pending
  <2>2. Unread \subseteq Nat
    BY DEF Unread, Stream, Ids, TypeOK, StreamsOK
  <2>3. \A n \in Unread : n \in Unread' \/ n \in S
    <3> SUFFICES ASSUME NEW n \in Unread, n \notin Unread'
                 PROVE  n \in S
      OBVIOUS
    <3>1. Stream' = Stream
      BY <2>1 DEF Stream, Ids
    <3>2. lastRead' \in S /\ ~(n > lastRead')
      BY <2>1, <3>1 DEF Unread
    <3>3. lastRead' \in Nat /\ n \in Nat
      BY <2>2, <3>2, FirstOfSubset
    <3> QED BY <2>2, <3>2, <3>3, FirstOfIsInitial
  <2>4. Kept /\ \A n \in Ids : Live(n) => Live(n)'
    BY <2>1, <2>3, SameKept DEF Live
  <2> QED BY <2>1, <2>4, IdsHeldKept, SameTasks, RowsSoundKept, DoneKept
          DEF Custody
<1>3. CASE Enqueue(r)
  <2>1. UNCHANGED <<streams, effects, replay>> /\ Kept
    BY <1>3, SameKept DEF Enqueue, streams
  <2>2. ASSUME NEW q \in Routers, NEW m \in InFlight(q)'
        PROVE  \/ m \in InFlight(q) /\ task'[q][m].step = task[q][m].step
               \/ task'[q][m].step = "start"
    <3>1. CASE q = r
      <4>1. task'[r] = [n \in InFlight(r) \cup batch[r] |->
               IF n \in InFlight(r) THEN task[r][n] ELSE NewTask(r, n)]
        BY <1>3 DEF Enqueue, TypeOK, TasksOK
      <4> QED BY <3>1, <4>1 DEF InFlight, NewTask
    <3>2. CASE q # r
      BY <1>3, <3>2 DEF Enqueue, InFlight, TypeOK, TasksOK
    <3> QED BY <3>1, <3>2
  <2>3. TasksSound'
    BY <2>1, <2>2, TasksSoundKept DEF Custody
  <2> QED BY <2>1, <2>3, QuietCustody
<1>4. CASE LoopFails(r)
  <2>1. UNCHANGED <<streams, effects, replay, task>> /\ Kept
    BY <1>4, SameKept DEF LoopFails, streams
  <2> QED BY <2>1, SameTasks, QuietCustody
<1> QED BY <1>1, <1>2, <1>3, <1>4 DEF LoopStep

\* The marker is found only for a carried-out event, so "ack" is earned.
LEMMA BeginCustody ==
  ASSUME TypeOK, Custody, NEW r \in Routers, NEW n \in InFlight(r),
         Begin(r, n) \/ CommandLost(r, n)
  PROVE  Custody'
<1>1. UNCHANGED <<streams, effects, replay>> /\ Kept
  BY SameKept DEF Begin, CommandLost, streams
<1>2. n \in Ids
  BY EventOfTask
<1>3. Event(n) \in done => Superseded(n)'
  <2>1. Event(n) \in done => Superseded(n)
    BY DEF Custody, DoneMeansDelivered, Superseded
  <2> QED BY <1>1, <1>2, <2>1, SupersededKept
<1>4. TasksSound'
  <2>1. CASE Leave(r, n) \/ NoReply(r, n)
    <3>1. "none" # "mark" /\ "none" # "ack"
      OBVIOUS
    <3>2. CASE Leave(r, n)
      BY <1>1, <3>1, <3>2, TasksSoundStep DEF Custody
    <3>3. CASE NoReply(r, n)
      BY <1>1, <3>1, <3>3, TasksSoundReply DEF Custody
    <3> QED BY <2>1, <3>2, <3>3
  <2>2. CASE Reply(r, n, IF Event(n) \in done THEN "ack" ELSE "deliver")
    <3>1. CASE Event(n) \in done
      <4>1. Reply(r, n, "ack")
        BY <2>2, <3>1
      <4> QED BY <1>1, <1>3, <3>1, <4>1, TasksSoundReply DEF Custody
    <3>2. CASE Event(n) \notin done
      <4>1. Reply(r, n, "deliver")
        BY <2>2, <3>2
      <4> QED BY <1>1, <4>1, TasksSoundReply DEF Custody
    <3> QED BY <3>1, <3>2
  <2> QED BY <2>1, <2>2 DEF Begin, CommandLost
<1> QED BY <1>1, <1>4, QuietCustody

\* The destination's answer: a success entitles to mark, a failure to nothing.
LEMMA DeliverCustody ==
  ASSUME TypeOK, Custody, NEW r \in Routers, NEW n \in InFlight(r), Deliver(r, n)
  PROVE  Custody'
<1>1. UNCHANGED <<streams, replay>>
  BY DEF Deliver
<1>2. UNCHANGED log
  BY <1>1 DEF streams
<1>3. Event(n) \in Events /\ Event(n)' = Event(n)
  BY <1>2, EventOfTask DEF Event
<1>4. Kept
  <2>1. \A e \in Events : effects[e] > 0 => effects'[e] > 0
    BY <1>3 DEF Deliver, TypeOK, CountsOK
  <2> QED BY <1>2, <2>1 DEF Kept, Ids
<1>5. TasksSound'
  <2>1. CASE effects' = [effects EXCEPT ![Event(n)] = @ + 1] /\ GoTo(r, n, "mark")
    <3>1. effects'[Event(n)'] > 0
      BY <1>3, <2>1 DEF TypeOK, CountsOK
    <3> QED BY <1>4, <2>1, <3>1, TasksSoundStep DEF Custody
  <2>2. CASE AttemptFailed(r, n)
    <3>1. CASE task' = [task EXCEPT ![r][n].attempt = @ + 1]
      <4>1. task' = [task EXCEPT ![r] = [task[r] EXCEPT ![n].attempt = @ + 1]]
        BY <3>1
      <4>2. \A q \in Routers : \A m \in InFlight(q)' :
              m \in InFlight(q) /\ task'[q][m].step = task[q][m].step
        <5> SUFFICES ASSUME NEW q \in Routers, NEW m \in InFlight(q)'
                     PROVE  m \in InFlight(q) /\ task'[q][m].step = task[q][m].step
          OBVIOUS
        <5>1. CASE q = r
          BY <4>1, <5>1 DEF InFlight, TypeOK, TasksOK, Task
        <5>2. CASE q # r
          BY <4>1, <5>2 DEF InFlight, TypeOK, TasksOK
        <5> QED BY <5>1, <5>2
      <4> QED BY <1>4, <4>2, TasksSoundKept DEF Custody
    <3>2. CASE Leave(r, n) \/ GoTo(r, n, "park")
      <4>1. "park" # "mark" /\ "park" # "ack"
        OBVIOUS
      <4> QED BY <1>4, <3>2, <4>1, TasksSoundStep DEF Custody
    <3> QED BY <2>2, <3>1, <3>2 DEF AttemptFailed
  <2> QED BY <2>1, <2>2 DEF Deliver
<1>6. \A m \in Ids : Live(m) => Live(m)'
  BY <1>1 DEF streams, Live, Unread, Stream, Pending, Ids
<1> QED BY <1>1, <1>2, <1>4, <1>5, <1>6, IdsHeldKept, RowsSoundKept, DoneKept
        DEF Custody, streams

\* SET of the marker comes after the effect.
LEMMA MarkCustody ==
  ASSUME TypeOK, Custody, NEW r \in Routers, NEW n \in InFlight(r), Mark(r, n)
  PROVE  Custody'
<1>1. /\ UNCHANGED <<log, lastRead, idle, dlq, effects, replay>>
      /\ done' = done \cup {Event(n)} /\ Reply(r, n, "ack")
      /\ task[r][n].step = "mark"
  BY DEF Mark, At
<1>2. Kept /\ n \in Ids
  BY <1>1, SameKept, EventOfTask
<1>3. effects[Event(n)] > 0
  BY <1>1 DEF Custody, TasksSound
<1>4. Superseded(n)'
  BY <1>2, <1>3, SupersededKept DEF Superseded
<1>5. TasksSound'
  BY <1>1, <1>2, <1>4, TasksSoundReply DEF Custody
<1>6. \A m \in Ids : Live(m) => Live(m)'
  BY <1>1 DEF Live, Unread, Stream, Pending, Ids
<1>7. DoneMeansDelivered'
  BY <1>1, <1>3 DEF Custody, DoneMeansDelivered
<1> QED BY <1>1, <1>2, <1>5, <1>6, <1>7, IdsHeldKept, RowsSoundKept DEF Custody

\* The dead letter is a later id of the same event: XACK is earned.
LEMMA ParkCustody ==
  ASSUME TypeOK, Custody, NEW r \in Routers, NEW n \in InFlight(r), Park(r, n)
  PROVE  Custody'
<1> DEFINE rec == [at |-> "dlq", event |-> Event(n)]
<1>1. rec \in Entry /\ log' = Append(log, rec) /\ rec.at = "dlq"
  BY EventOfTask DEF Entry, Park
<1>2. /\ UNCHANGED <<lastRead, idle, done, effects, replay>>
      /\ dlq' = dlq \cup {Len(log) + 1} /\ Reply(r, n, "ack")
  BY DEF Park
<1>3. Kept /\ n \in Ids /\ log \in Seq(Entry)
  BY <1>1, <1>2, AppendKept, EventOfTask DEF TypeOK, StreamsOK, Entry
<1>4. Superseded(n)'
  BY <1>1, <1>3, AppendSupersedes
<1>5. TasksSound'
  BY <1>2, <1>3, <1>4, TasksSoundReply DEF Custody
<1>6. IdsHeld'
  BY <1>1, <1>2, IdsHeldAppended DEF Custody
<1> QED BY <1>2, <1>3, <1>5, <1>6, RowsSoundKept, DoneKept DEF Custody

\* XACK drops an entry only once it is superseded.
LEMMA AckCustody ==
  ASSUME TypeOK, Custody, NEW r \in Routers, NEW n \in InFlight(r), Ack(r, n)
  PROVE  Custody'
<1>1. /\ UNCHANGED <<log, lastRead, dlq, done, effects, replay>>
      /\ Pending' = Pending \ {n} /\ task[r][n].step = "ack"
  BY DEF Ack, At, Without, Pending
<1>2. Kept /\ n \in Ids
  BY <1>1, SameKept, EventOfTask
<1>3. Superseded(n)
  BY <1>1 DEF Custody, TasksSound
<1>4. \A m \in Ids : Live(m) => Live(m)' \/ Superseded(m)
  BY <1>1, <1>3 DEF Live, Unread, Stream, Ids
<1>5. TasksSound'
  <2>1. "hung" # "mark" /\ "hung" # "ack"
    OBVIOUS
  <2> QED BY <1>2, <2>1, TasksSoundStep DEF Ack, Custody
<1> QED BY <1>1, <1>2, <1>4, <1>5, IdsHeldKept, RowsSoundKept, DoneKept DEF Custody

\* A replay deletes a row only after its event was added again.
LEMMA ReplayCustody ==
  ASSUME TypeOK, Custody, NEW r \in Routers,
         ReplayRequest(r) \/ ReplayStep(r) \/ ReplayFails(r)
  PROVE  Custody'
<1>1. CASE ReplayRequest(r) \/ ReplayFails(r)
  <2>1. UNCHANGED <<streams, effects, task>>
    BY <1>1 DEF ReplayRequest, ReplayFails
  <2>2. TasksSound'
    BY <2>1, SameKept, SameTasks DEF streams
  <2>3. \A q \in Routers : replay'[q] = replay[q] \/ replay'[q].step = "add"
    BY <1>1 DEF ReplayRequest, ReplayFails, NoReplay, TypeOK, ReplaysOK
  <2> QED BY <2>1, <2>2, <2>3, QuietCustody
<1>2. CASE ReplayAdd(r)
  <2>1. PICK d \in replay[r].rows :
          FirstRow(r, d) /\ log' = Append(log, [at |-> "stream", event |-> Event(d)])
    BY <1>2 DEF ReplayAdd
  <2> DEFINE rec == [at |-> "stream", event |-> Event(d)]
  <2>2. /\ UNCHANGED <<lastRead, idle, dlq, done, effects, task>>
        /\ replay' = [replay EXCEPT ![r].step = "del"]
    BY <1>2 DEF ReplayAdd
  <2>3. log \in Seq(Entry) /\ d \in Ids /\ \A x \in replay[r].rows : x \in Nat
    BY DEF TypeOK, StreamsOK, ReplaysOK, Entry, Ids
  <2>4. rec \in Entry /\ rec.at = "stream" /\ log' = Append(log, rec)
    BY <2>1, <2>3, IdsFacts DEF Entry
  <2>5. Kept /\ IdsHeld'
    BY <2>2, <2>4, AppendKept, IdsHeldAppended DEF Custody
  <2>6. Superseded(d)'
    BY <2>3, <2>4, AppendSupersedes
  <2>7. RowsSound'
    <3> SUFFICES ASSUME NEW q \in Routers, NEW x \in replay'[q].rows,
                        replay'[q].step = "del", FirstRow(q, x)'
                 PROVE  Superseded(x)'
      BY DEF RowsSound
    <3>1. CASE q = r
      <4>1. replay'[r].rows = replay[r].rows
        BY <2>2 DEF TypeOK, ReplaysOK
      <4>2. x = d
        BY <2>1, <2>3, <3>1, <4>1 DEF FirstRow
      <4> QED BY <2>6, <4>2
    <3>2. CASE q # r
      <4>1. replay'[q] = replay[q]
        BY <2>2, <3>2 DEF TypeOK, ReplaysOK
      <4>2. FirstRow(q, x) /\ x \in Ids /\ Superseded(x)
        BY <4>1 DEF FirstRow, TypeOK, ReplaysOK, Custody, RowsSound
      <4> QED BY <2>5, <4>2, SupersededKept
    <3> QED BY <3>1, <3>2
  <2> QED BY <2>2, <2>5, <2>7, SameTasks, DoneKept DEF Custody
<1>3. CASE ReplayDel(r)
  <2>1. PICK d \in replay[r].rows : FirstRow(r, d) /\ dlq' = dlq \ {d}
    BY <1>3 DEF ReplayDel
  <2>2. UNCHANGED <<log, lastRead, idle, done, effects, task>> /\ Kept
    BY <1>3, SameKept DEF ReplayDel
  <2>3. Superseded(d)
    BY <1>3, <2>1 DEF ReplayDel, Custody, RowsSound
  <2>4. \A m \in Ids : Live(m) => Live(m)' \/ Superseded(m)
    BY <2>1, <2>2, <2>3 DEF Live, Unread, Stream, Pending, Ids
  <2>5. \A q \in Routers : replay'[q] = replay[q] \/ replay'[q].step = "add"
    BY <1>3 DEF ReplayDel, TypeOK, ReplaysOK
  <2> QED BY <2>2, <2>4, <2>5, IdsHeldKept, SameTasks, RowsSoundKept, DoneKept
          DEF Custody
<1> QED BY <1>1, <1>2, <1>3 DEF ReplayStep

LEMMA NextCustody == TypeOK /\ Custody /\ [Next]_vars => Custody'
<1> SUFFICES ASSUME TypeOK, Custody, [Next]_vars PROVE Custody'
  OBVIOUS
<1>1. CASE Tick \/ \E e \in Events : Publish(e) \/ Expire(e)
  BY <1>1, TickCustody, PublishCustody
<1>2. ASSUME NEW r \in Routers, Start(r) \/ Crash(r)
      PROVE  Custody'
  BY <1>2, ProcessCustody
<1>3. ASSUME NEW r \in Routers, LoopStep(r) \/ LoopFails(r)
      PROVE  Custody'
  BY <1>3, LoopCustody
<1>4. ASSUME NEW r \in Routers, ReplayRequest(r) \/ ReplayStep(r) \/ ReplayFails(r)
      PROVE  Custody'
  BY <1>4, ReplayCustody
<1>5. ASSUME NEW r \in Routers, NEW n \in InFlight(r), ChainStep(r, n) \/ CommandLost(r, n)
      PROVE  Custody'
  BY <1>5, BeginCustody, DeliverCustody, MarkCustody, ParkCustody, AckCustody
     DEF ChainStep
<1>6. CASE UNCHANGED vars
  <2>1. UNCHANGED <<streams, effects, task, replay>>
    BY <1>6 DEF vars
  <2>2. TasksSound'
    BY <2>1, SameKept, SameTasks DEF streams
  <2> QED BY <2>1, <2>2, QuietCustody
<1> QED BY <1>1, <1>2, <1>3, <1>4, <1>5, <1>6 DEF Next

\* The ledger of custody holds in every reachable state: nothing leaves the
\* streams before it was carried out or added again.
THEOREM CustodyKept == Spec => []Custody
<1>1. Init => TypeOK /\ Custody
  BY InitTypeOK, InitCustody
<1>2. (TypeOK /\ Custody) /\ [Next]_vars => (TypeOK /\ Custody)'
  BY NextTypeOK, NextCustody
<1> QED BY <1>1, <1>2, PTL DEF Spec

\* The last id of an event is live or the event was carried out.
LEMMA CustodyKeepsEvents == TypeOK /\ Custody => NoEventLost
<1> SUFFICES ASSUME TypeOK, Custody, NEW n \in Ids, ~(effects[Event(n)] > 0)
             PROVE  \E m \in Ids : Event(m) = Event(n) /\ Live(m)
  BY DEF NoEventLost
<1> DEFINE copies == {m \in Ids : Event(m) = Event(n)}
<1>1. Ids = 1..Len(log) /\ Len(log) \in Nat
  BY IdsFacts DEF TypeOK, StreamsOK, Entry
<1>2. PICK last \in copies : \A m \in copies : m <= last
  BY <1>1, GreatestId
<1>3. ~Superseded(last)
  BY <1>1, <1>2 DEF Superseded
<1> QED BY <1>2, <1>3 DEF Custody, IdsHeld

\* Durable acceptance, for every crash, overlap, lost reply and replay: an
\* accepted event was carried out or is still held.
THEOREM EventsKept == Spec => []NoEventLost
BY TypeCorrect, CustodyKept, CustodyKeepsEvents, PTL

\* A done marker never suppresses an event nobody carried out, even when the
\* SET that failed or a router that overlaps has set it.
THEOREM MarkersHonest == Spec => []DoneMeansDelivered
BY CustodyKept, PTL DEF Custody

-----------------------------------------------------------------------------
(* The refinement: what a step does to an event shows in three facts. *)

Accepted(e) == \E n \in Ids : Event(n) = e

\* An event neither carried out, nor held, nor lost is a dead letter.
Shown(e) ==
  IF effects[e] > 0 THEN "delivered"
  ELSE IF Held(e) THEN "queued"
  ELSE IF Accepted(e) THEN "dead"
  ELSE "absent"

StatusIsShown == EventStatus = [e \in Events |-> Shown(e)]

LEMMA StatusShown == TypeOK /\ NoEventLost => StatusIsShown
<1> SUFFICES ASSUME TypeOK, NoEventLost, NEW e \in Events
             PROVE  EventStatus[e] = Shown(e)
  BY DEF EventStatus, StatusIsShown
<1>1. Parked(e) => Accepted(e)
  BY DEF Parked, Accepted, TypeOK, StreamsOK
<1>2. Accepted(e) /\ ~(effects[e] > 0) => Held(e) \/ Parked(e)
  BY DEF NoEventLost, Accepted, Held, Parked, Live
<1> QED BY <1>1, <1>2 DEF EventStatus, Shown, Accepted

\* What makes an event move: the rest of a step is invisible.
SameShown(e) ==
  /\ effects'[e] > 0 <=> effects[e] > 0
  /\ Held(e)' <=> Held(e)
  /\ Accepted(e)' <=> Accepted(e)

LEMMA StatusStutters ==
  ASSUME TypeOK, TypeOK', NoEventLost, NoEventLost',
         \A e \in Events : SameShown(e)
  PROVE  EventStatus' = EventStatus
<1>1. StatusIsShown /\ StatusIsShown'
  BY StatusShown, PTL
<1> QED BY <1>1 DEF StatusIsShown, SameShown, Shown

LEMMA StatusMoves ==
  ASSUME TypeOK, TypeOK', NoEventLost, NoEventLost', NEW ev \in Events,
         \A e \in Events \ {ev} : SameShown(e)
  PROVE  /\ EventStatus' = [EventStatus EXCEPT ![ev] = Shown(ev)']
         /\ EventStatus[ev] = Shown(ev)
<1>1. StatusIsShown /\ StatusIsShown'
  BY StatusShown, PTL
<1> QED BY <1>1 DEF StatusIsShown, SameShown, Shown

\* Held as a set of entries: what is unread or pending.
LEMMA SameEntries ==
  ASSUME TypeOK, UNCHANGED <<log, effects>>, (Unread \cup Pending)' = Unread \cup Pending
  PROVE  \A e \in Events : SameShown(e)
<1>1. \A n \in Unread \cup Pending : Event(n)' = Event(n)
  BY DEF Event
<1>2. Ids' = Ids
  BY DEF Ids
<1> QED BY <1>1, <1>2 DEF SameShown, Held, Accepted, Event

\* An entry appended to the log shows for its own event only.
LEMMA OthersSame ==
  ASSUME TypeOK, NEW rec \in Entry, log' = Append(log, rec),
         UNCHANGED <<lastRead, idle, effects>>
  PROVE  /\ \A e \in Events \ {rec.event} : SameShown(e)
         /\ Accepted(rec.event)'
         /\ Held(rec.event)' <=> (Held(rec.event) \/ rec.at = "stream")
<1>0. PICK id : id = Len(log) + 1
  OBVIOUS
<1>1. /\ log \in Seq(Entry) /\ Ids' = Ids \cup {id} /\ id \notin Ids
      /\ \A n \in Ids : n < id /\ log'[n] = log[n]
      /\ log'[id] = rec
  <2>1. log \in Seq(Entry)
    BY DEF TypeOK, StreamsOK, Entry
  <2> QED BY <1>0, <2>1, LogGrows
<1>2. lastRead < id
  <2>1. lastRead \in Ids \/ lastRead = 0
    BY DEF TypeOK, StreamsOK, Stream
  <2>2. Len(log) \in Nat
    BY <1>1
  <2> QED BY <1>0, <1>1, <2>1, <2>2
<1>3. Stream' = IF rec.at = "stream" THEN Stream \cup {id} ELSE Stream
  BY <1>1 DEF Stream
<1>4. /\ rec.at = "stream" => (Unread \cup Pending)' = (Unread \cup Pending) \cup {id}
      /\ rec.at # "stream" => (Unread \cup Pending)' = Unread \cup Pending
  BY <1>2, <1>3, <1>1 DEF Unread, Pending, Stream
<1>5. \A n \in Ids : Event(n)' = Event(n)
  BY <1>1 DEF Event
<1>6. Event(id)' = rec.event
  BY <1>1 DEF Event
<1>7. Unread \cup Pending \subseteq Ids
  BY DEF Unread, Stream, TypeOK, StreamsOK
<1>8. \A e : Accepted(e)' <=> (Accepted(e) \/ e = rec.event)
  BY <1>1, <1>5, <1>6 DEF Accepted
<1>9. \A e : Held(e)' <=> (Held(e) \/ (rec.at = "stream" /\ e = rec.event))
  <2> SUFFICES ASSUME NEW e
               PROVE  Held(e)' <=> (Held(e) \/ (rec.at = "stream" /\ e = rec.event))
    OBVIOUS
  <2>1. Held(e)' <=> \E n \in (Unread \cup Pending)' : Event(n)' = e
    BY DEF Held
  <2>2. Held(e) <=> \E n \in Unread \cup Pending : Event(n)' = e
    BY <1>5, <1>7 DEF Held
  <2>3. CASE rec.at = "stream"
    BY <1>4, <1>6, <2>1, <2>2, <2>3
  <2>4. CASE rec.at # "stream"
    BY <1>4, <2>1, <2>2, <2>4
  <2> QED BY <2>3, <2>4
<1> QED BY <1>8, <1>9 DEF SameShown

\* Each action's move: what the event may have been, and what it becomes.
LEMMA PublishMoves ==
  ASSUME TypeOK, TypeOK', NoEventLost, NoEventLost', NEW e \in Events, Publish(e)
  PROVE  [Lifecycle!Accept(e)]_EventStatus
<1> DEFINE rec == [at |-> "stream", event |-> e]
<1>1. /\ rec \in Entry /\ log' = Append(log, rec)
      /\ rec.event = e /\ rec.at = "stream"
      /\ UNCHANGED <<lastRead, idle, effects>>
      /\ ~Accepted(e)
  BY DEF Publish, Entry, Accepted
<1> HIDE DEF rec
<1>2. (\A x \in Events \ {e} : SameShown(x)) /\ Held(e)'
  BY <1>1, OthersSame
<1>3. ~Held(e)
  BY <1>1 DEF Held, Accepted, Unread, Stream, TypeOK, StreamsOK
<1>4. EventStatus' = [EventStatus EXCEPT ![e] = Shown(e)'] /\ EventStatus[e] = Shown(e)
  BY <1>2, StatusMoves
<1>5. CASE effects[e] > 0
  <2>1. Shown(e)' = EventStatus[e]
    BY <1>1, <1>4, <1>5 DEF Shown
  <2> QED BY <1>4, <2>1 DEF EventStatus
<1>6. CASE ~(effects[e] > 0)
  <2>1. Shown(e) = "absent" /\ Shown(e)' = "queued"
    BY <1>1, <1>2, <1>3, <1>6 DEF Shown
  <2> QED BY <1>4, <2>1 DEF Lifecycle!Accept, Lifecycle!Move
<1> QED BY <1>5, <1>6

LEMMA ReplayMoves ==
  ASSUME TypeOK, TypeOK', NoEventLost, NoEventLost', NEW r \in Routers, ReplayAdd(r)
  PROVE  \E e \in Events : [Lifecycle!Replay(e)]_EventStatus
<1>1. PICK d \in replay[r].rows : log' = Append(log, [at |-> "stream", event |-> Event(d)])
  BY DEF ReplayAdd
<1>2. PICK e, rec : e = Event(d) /\ rec = [at |-> "stream", event |-> e]
  OBVIOUS
<1>2a. d \in Ids /\ e \in Events
  BY <1>2, IdsFacts DEF TypeOK, StreamsOK, ReplaysOK, Entry
<1>3. /\ rec \in Entry /\ log' = Append(log, rec)
      /\ rec.event = e /\ rec.at = "stream"
      /\ UNCHANGED <<lastRead, idle, effects>>
  BY <1>1, <1>2, <1>2a DEF ReplayAdd, Entry
<1>4. Accepted(e)
  BY <1>2, <1>2a DEF Accepted
<1>5. (\A x \in Events \ {e} : SameShown(x)) /\ Held(e)'
  BY <1>2a, <1>3, OthersSame
<1>6. EventStatus' = [EventStatus EXCEPT ![e] = Shown(e)'] /\ EventStatus[e] = Shown(e)
  BY <1>2a, <1>5, StatusMoves
<1>7. CASE effects[e] > 0 \/ Held(e)
  <2>1. Shown(e)' = EventStatus[e]
    BY <1>3, <1>5, <1>6, <1>7 DEF Shown
  <2> QED BY <1>2a, <1>6, <2>1 DEF EventStatus
<1>8. CASE ~(effects[e] > 0 \/ Held(e))
  <2>1. Shown(e) = "dead" /\ Shown(e)' = "queued"
    BY <1>3, <1>4, <1>5, <1>8 DEF Shown
  <2> QED BY <1>2a, <1>6, <2>1 DEF Lifecycle!Replay, Lifecycle!Move
<1> QED BY <1>7, <1>8

LEMMA DeliverMoves ==
  ASSUME TypeOK, TypeOK', NoEventLost, NoEventLost',
         NEW r \in Routers, NEW n \in InFlight(r), Deliver(r, n)
  PROVE  \E e \in Events : [Lifecycle!Deliver(e)]_EventStatus
<1>0. PICK e : e = Event(n)
  OBVIOUS
<1>1. e \in Events /\ Accepted(e)
  BY <1>0, EventOfTask DEF Accepted
<1>2. UNCHANGED <<log, lastRead, idle>>
  BY DEF Deliver, streams
<1>3. effects' = effects \/ effects' = [effects EXCEPT ![e] = @ + 1]
  BY <1>0 DEF Deliver
<1>4. \A x : (Held(x)' <=> Held(x)) /\ (Accepted(x)' <=> Accepted(x))
  BY <1>2 DEF Held, Accepted, Unread, Pending, Stream, Ids, Event
<1>5. CASE effects' = effects
  <2>1. \A x \in Events : SameShown(x)
    BY <1>4, <1>5 DEF SameShown
  <2> QED BY <1>1, <2>1, StatusStutters
<1>6. CASE effects' = [effects EXCEPT ![e] = @ + 1]
  <2>1. effects'[e] > 0 /\ \A x \in Events \ {e} : effects'[x] = effects[x]
    BY <1>1, <1>6 DEF TypeOK, CountsOK
  <2>2. \A x \in Events \ {e} : SameShown(x)
    BY <1>4, <2>1 DEF SameShown
  <2>3. EventStatus' = [EventStatus EXCEPT ![e] = "delivered"] /\ EventStatus[e] = Shown(e)
    BY <1>1, <2>1, <2>2, StatusMoves DEF Shown
  <2>4. CASE effects[e] > 0
    BY <1>1, <2>3, <2>4 DEF Shown, EventStatus
  <2>5. CASE ~(effects[e] > 0)
    <3>1. EventStatus[e] \in {"queued", "dead"}
      BY <1>1, <2>3, <2>5 DEF Shown
    <3> QED BY <1>1, <2>3, <3>1 DEF Lifecycle!Deliver, Lifecycle!Move
  <2> QED BY <2>4, <2>5
<1> QED BY <1>3, <1>5, <1>6

LEMMA AckMoves ==
  ASSUME TypeOK, TypeOK', NoEventLost, NoEventLost',
         NEW r \in Routers, NEW n \in InFlight(r), Ack(r, n)
  PROVE  \E e \in Events : [Lifecycle!DeadLetter(e)]_EventStatus
<1>0. PICK e : e = Event(n)
  OBVIOUS
<1>1. e \in Events /\ Accepted(e)
  BY <1>0, EventOfTask DEF Accepted
<1>2. UNCHANGED <<log, lastRead, effects>> /\ Pending' = Pending \ {n}
  BY DEF Ack, Without, Pending
<1>3. \A x : Accepted(x)' <=> Accepted(x)
  BY <1>2 DEF Accepted, Ids, Event
<1>4. \A x : x # e => Held(x)' <=> Held(x)
  BY <1>0, <1>2 DEF Held, Unread, Stream, Ids, Event
<1>5. Held(e)' => Held(e)
  BY <1>2 DEF Held, Unread, Stream, Ids, Event
<1>6. \A x \in Events \ {e} : SameShown(x)
  BY <1>2, <1>3, <1>4 DEF SameShown
<1>7. EventStatus' = [EventStatus EXCEPT ![e] = Shown(e)'] /\ EventStatus[e] = Shown(e)
  BY <1>1, <1>6, StatusMoves
<1>8. CASE effects[e] > 0 \/ Held(e)' \/ ~Held(e)
  <2>1. Shown(e)' = EventStatus[e]
    BY <1>2, <1>3, <1>5, <1>7, <1>8 DEF Shown
  <2> QED BY <1>1, <1>7, <2>1 DEF EventStatus
<1>9. CASE ~(effects[e] > 0) /\ ~Held(e)' /\ Held(e)
  <2>1. Shown(e) = "queued" /\ Shown(e)' = "dead"
    BY <1>1, <1>2, <1>3, <1>9 DEF Shown
  <2> QED BY <1>1, <1>7, <2>1 DEF Lifecycle!DeadLetter, Lifecycle!Move
<1> QED BY <1>8, <1>9

\* XREADGROUP moves entries from the unread to the pending ones.
LEMMA ReadKeepsEntries ==
  ASSUME TypeOK, NEW r \in Routers, Read(r)
  PROVE  (Unread \cup Pending)' = Unread \cup Pending
<1> DEFINE S == FirstOf(Unread)
<1>1. /\ Pending' = Pending \cup S
      /\ (S = {} /\ lastRead' = lastRead) \/ (lastRead' \in S /\ \A n \in S : n <= lastRead')
      /\ Stream' = Stream
  BY DEF Read, Pending, Stream, Ids
<1>2. Unread \subseteq Nat /\ S \subseteq Unread /\ lastRead \in Nat
  BY FirstOfSubset DEF Unread, Stream, Ids, TypeOK, StreamsOK
<1>3. CASE S = {} /\ lastRead' = lastRead
  BY <1>1, <1>3 DEF Unread
<1>4. CASE lastRead' \in S /\ \A n \in S : n <= lastRead'
  <2>1. ASSUME NEW n \in Unread, ~(n > lastRead')
        PROVE  n \in S
    <3>0. n \in Nat /\ lastRead' \in Nat
      BY <1>2, <1>4
    <3>1. n <= lastRead'
      BY <2>1, <3>0
    <3>2. Unread \in SUBSET Nat /\ n \in Unread /\ lastRead' \in FirstOf(Unread)
      BY <1>2, <1>4, <2>1
    <3> QED BY <3>1, <3>2, FirstOfIsInitial
  <2>2. Unread' \subseteq Unread
    <3>1. lastRead' > lastRead /\ lastRead' \in Nat
      BY <1>2, <1>4 DEF Unread
    <3>2. Stream \subseteq Nat
      BY DEF Stream, Ids, TypeOK, StreamsOK
    <3>3. \A n \in Stream : n > lastRead' => n > lastRead
      BY <1>2, <3>1, <3>2
    <3> QED BY <1>1, <3>3 DEF Unread
  <2>3. Unread \subseteq Unread' \cup S
    BY <1>1, <2>1 DEF Unread
  <2> QED BY <1>1, <1>2, <2>2, <2>3
<1> QED BY <1>1, <1>3, <1>4

\* A step of the queue is a step of the lifecycle, or changes nothing of it.
LEMMA NextMoves ==
  ASSUME TypeOK, TypeOK', NoEventLost, NoEventLost', [Next]_vars
  PROVE  [Lifecycle!Next]_EventStatus
<1>1. ASSUME UNCHANGED <<log, effects>>, (Unread \cup Pending)' = Unread \cup Pending
      PROVE  UNCHANGED EventStatus
  BY <1>1, SameEntries, StatusStutters
<1>2. ASSUME UNCHANGED <<log, effects, lastRead>>, Pending' = Pending
      PROVE  UNCHANGED EventStatus
  <2>1. Unread' = Unread
    BY <1>2 DEF Unread, Stream, Ids
  <2> QED BY <1>1, <1>2, <2>1
<1>3. CASE Tick \/ \E e \in Events : Expire(e)
  BY <1>2, <1>3 DEF Tick, Expire, Pending
<1>4. ASSUME NEW e \in Events, Publish(e)
      PROVE  [Lifecycle!Next]_EventStatus
  BY <1>4, PublishMoves DEF Lifecycle!Next
<1>5. ASSUME NEW r \in Routers, Read(r)
      PROVE  [Lifecycle!Next]_EventStatus
  BY <1>1, <1>5, ReadKeepsEntries DEF Read
<1>6. ASSUME NEW r \in Routers,
             \/ Start(r) \/ Crash(r) \/ Claim(r) \/ Enqueue(r) \/ LoopFails(r)
             \/ ReplayRequest(r) \/ ReplayDel(r) \/ ReplayFails(r)
      PROVE  [Lifecycle!Next]_EventStatus
  BY <1>2, <1>6 DEF Start, Crash, Claim, Enqueue, LoopFails, ReplayRequest,
     ReplayDel, ReplayFails, streams, Pending
<1>7. ASSUME NEW r \in Routers, ReplayAdd(r)
      PROVE  [Lifecycle!Next]_EventStatus
  BY <1>7, ReplayMoves DEF Lifecycle!Next
<1>8. ASSUME NEW r \in Routers, NEW n \in InFlight(r),
             Begin(r, n) \/ Mark(r, n) \/ CommandLost(r, n)
      PROVE  [Lifecycle!Next]_EventStatus
  BY <1>2, <1>8 DEF Begin, Mark, CommandLost, streams, Pending
<1>9. ASSUME NEW r \in Routers, NEW n \in InFlight(r), Park(r, n)
      PROVE  [Lifecycle!Next]_EventStatus
  <2>0. PICK rec : rec = [at |-> "dlq", event |-> Event(n)]
    OBVIOUS
  <2>1. /\ rec \in Entry /\ log' = Append(log, rec)
        /\ UNCHANGED <<lastRead, idle, effects>>
        /\ rec.at # "stream" /\ rec.event = Event(n)
    BY <1>9, <2>0, EventOfTask DEF Park, Entry
  <2>2. Accepted(rec.event)
    BY <1>9, <2>1, EventOfTask DEF Accepted
  <2>3. SameShown(rec.event)
    BY <2>1, <2>2, OthersSame DEF SameShown
  <2>4. \A e \in Events : SameShown(e)
    BY <2>1, <2>3, OthersSame
  <2> QED BY <2>4, StatusStutters
<1>10. ASSUME NEW r \in Routers, NEW n \in InFlight(r), Deliver(r, n) \/ Ack(r, n)
       PROVE  [Lifecycle!Next]_EventStatus
  BY <1>10, DeliverMoves, AckMoves DEF Lifecycle!Next
<1>11. CASE UNCHANGED vars
  BY <1>2, <1>11 DEF vars, streams, Pending
<1> QED BY <1>3, <1>4, <1>5, <1>6, <1>7, <1>8, <1>9, <1>10, <1>11
        DEF Next, LoopStep, ChainStep, ReplayStep

LEMMA InitMoves == Init => Lifecycle!Init
BY DEF Init, EventStatus, Held, Parked, Unread, Pending, Stream, Ids, Lifecycle!Init

\* The queued edge implements the event's lifecycle: whatever crashes, is lost,
\* overlaps or is replayed, a step accepts, delivers, dead-letters or re-queues
\* one event, and no event that was accepted disappears.
THEOREM LifecycleImplemented == Spec => ImplementsLifecycle
<1>1. Init => Lifecycle!Init
  BY InitMoves
<1>2. TypeOK /\ TypeOK' /\ NoEventLost /\ NoEventLost' /\ [Next]_vars
        => [Lifecycle!Next]_EventStatus
  BY NextMoves
<1> QED BY <1>1, <1>2, TypeCorrect, EventsKept, PTL
        DEF Spec, ImplementsLifecycle, Lifecycle!Spec

-----------------------------------------------------------------------------
(* The promise chains of one process. *)

Same(n, m) == ChainKey(n) = ChainKey(m)

\* Of two entries of a chain one waits for the other.
Queue(r) ==
  \A n, m \in InFlight(r) :
    n # m /\ Same(n, m) => n \in task[r][m].ahead \/ m \in task[r][n].ahead

\* Only the head of a chain is past its start.
Heads(r) == \A n \in InFlight(r) : task[r][n].step # "start" => task[r][n].ahead = {}

\* A batch is there only between a command and its handling, and what the
\* process holds was read before.
Batches(r) ==
  /\ loop[r] \in {"claim", "read"} => batch[r] = {}
  /\ \A n \in batch[r] \cup InFlight(r) : n <= lastRead

\* A key is blocked under the block policy only, and not while an entry of it
\* is attempted.
Keys(r) ==
  /\ Ordering # "block" => blockedKeys[r] = {}
  /\ \A n \in InFlight(r) :
       task[r][n].step = "deliver" => OrderingKey[Event(n)] \notin blockedKeys[r]

ChainsOK ==
  /\ \A n \in Pending : n <= lastRead
  /\ \A r \in Routers : Queue(r) /\ Heads(r) /\ Batches(r) /\ Keys(r)

\* How a step of entry n changes the tasks: it goes to another step, or leaves
\* and is waited for no more.
OthersRest(r) == \A q \in Routers \ {r} : InFlight(q)' = InFlight(q) /\ task'[q] = task[q]

Moved(r, n, step) ==
  /\ OthersRest(r) /\ InFlight(r)' = InFlight(r)
  /\ \A m \in InFlight(r) :
       /\ task'[r][m].ahead = task[r][m].ahead
       /\ task'[r][m].step = IF m = n THEN step ELSE task[r][m].step

Left(r, n) ==
  /\ OthersRest(r) /\ InFlight(r)' = InFlight(r) \ {n}
  /\ \A m \in InFlight(r) \ {n} :
       /\ task'[r][m].ahead = task[r][m].ahead \ {n}
       /\ task'[r][m].step = task[r][m].step

LEMMA GoToMoves ==
  ASSUME TypeOK, NEW r \in Routers, NEW n \in InFlight(r), NEW step, GoTo(r, n, step)
  PROVE  Moved(r, n, step)
<1>1. task' = [task EXCEPT ![r] = [task[r] EXCEPT ![n].step = step]]
  BY DEF GoTo
<1>2. task'[r] = [task[r] EXCEPT ![n].step = step]
  BY <1>1 DEF TypeOK, TasksOK
<1>3. InFlight(r)' = InFlight(r)
  BY <1>2 DEF InFlight
<1>4. OthersRest(r)
  BY <1>1 DEF OthersRest, InFlight, TypeOK, TasksOK
<1>5. ASSUME NEW m \in InFlight(r)
      PROVE  /\ task'[r][m].ahead = task[r][m].ahead
             /\ task'[r][m].step = IF m = n THEN step ELSE task[r][m].step
  BY <1>2 DEF InFlight, TypeOK, TasksOK, Task
<1> QED BY <1>3, <1>4, <1>5 DEF Moved

LEMMA RetryMoves ==
  ASSUME TypeOK, NEW r \in Routers, NEW n \in InFlight(r),
         task' = [task EXCEPT ![r][n].attempt = @ + 1]
  PROVE  Moved(r, n, task[r][n].step)
<1>1. task' = [task EXCEPT ![r] = [task[r] EXCEPT ![n].attempt = @ + 1]]
  OBVIOUS
<1>2. task'[r] = [task[r] EXCEPT ![n].attempt = @ + 1]
  BY <1>1 DEF TypeOK, TasksOK
<1>3. InFlight(r)' = InFlight(r)
  BY <1>2 DEF InFlight
<1>4. OthersRest(r)
  BY <1>1 DEF OthersRest, InFlight, TypeOK, TasksOK
<1>5. ASSUME NEW m \in InFlight(r)
      PROVE  task'[r][m].ahead = task[r][m].ahead /\ task'[r][m].step = task[r][m].step
  BY <1>2 DEF InFlight, TypeOK, TasksOK, Task
<1> QED BY <1>3, <1>4, <1>5 DEF Moved

LEMMA LeaveLeaves ==
  ASSUME TypeOK, NEW r \in Routers, NEW n \in InFlight(r), Leave(r, n)
  PROVE  Left(r, n)
<1>1. task'[r] = [m \in InFlight(r) \ {n} |-> [task[r][m] EXCEPT !.ahead = @ \ {n}]]
  BY DEF Leave, TypeOK, TasksOK
<1>2. InFlight(r)' = InFlight(r) \ {n}
  BY <1>1 DEF InFlight
<1>3. OthersRest(r)
  BY DEF Leave, OthersRest, InFlight, TypeOK, TasksOK
<1>4. ASSUME NEW m \in InFlight(r) \ {n}
      PROVE  /\ task'[r][m].ahead = task[r][m].ahead \ {n}
             /\ task'[r][m].step = task[r][m].step
  BY <1>1 DEF InFlight, TypeOK, TasksOK, Task
<1> QED BY <1>2, <1>3, <1>4 DEF Left

\* What a step of entry n makes of n, for every action of the chain.
Ends(r, n, step) == Left(r, n) \/ Moved(r, n, step)

LEMMA NoReplyEnds ==
  ASSUME TypeOK, NEW r \in Routers, NEW n \in InFlight(r), NoReply(r, n)
  PROVE  Ends(r, n, "hung") /\ faults' = faults + 1
BY GoToMoves, LeaveLeaves DEF NoReply, Fault, Ends

LEMMA ReplyEnds ==
  ASSUME TypeOK, NEW r \in Routers, NEW n \in InFlight(r), NEW step, Reply(r, n, step)
  PROVE  \/ Moved(r, n, step) /\ faults' = faults
         \/ Ends(r, n, "hung") /\ faults' = faults + 1
BY GoToMoves, NoReplyEnds DEF Reply

\* Two entries past their start are of different chains.
LEMMA OneHead ==
  ASSUME ChainsOK, NEW r \in Routers, NEW n \in InFlight(r), NEW m \in InFlight(r),
         task[r][n].ahead = {}, task[r][m].step # "start", Same(n, m)
  PROVE  n = m
<1>1. task[r][m].ahead = {}
  BY DEF ChainsOK, Heads
<1> QED BY <1>1 DEF ChainsOK, Queue

\* No id of the log ever names another event, and new ids are greater.
LogKept ==
  /\ Ids \subseteq Ids' /\ \A n \in Ids : Event(n)' = Event(n)
  /\ \A m \in Stream' : m \in Stream \/ \A n \in Ids : n < m

LEMMA SameLog == ASSUME UNCHANGED log PROVE LogKept
BY DEF LogKept, Ids, Event, Stream

LEMMA AppendLog ==
  ASSUME TypeOK, NEW rec \in Entry, log' = Append(log, rec)
  PROVE  LogKept
<1>1. log \in Seq(Entry)
  BY DEF TypeOK, StreamsOK, Entry
<1>2. \A m \in Stream' : m \in Stream \/ \A n \in Ids : n < m
  BY <1>1, LogGrows DEF Stream
<1> QED BY <1>1, <1>2, LogGrows DEF LogKept, Event

LEMMA SameChain ==
  ASSUME LogKept, NEW n \in Ids, NEW m \in Ids
  PROVE  Same(n, m)' <=> Same(n, m)
BY DEF LogKept, Same, ChainKey

LEMMA InFlightIds ==
  ASSUME TypeOK, NEW r \in Routers
  PROVE  /\ InFlight(r) \subseteq Ids /\ batch[r] \subseteq Ids /\ Ids \subseteq Nat
         /\ Pending \subseteq Ids /\ lastRead \in Nat
BY DEF TypeOK, StreamsOK, TasksOK, LoopsOK, Stream, Ids

\* The chains under a step of one of their heads.
LEMMA ChainsStep ==
  ASSUME TypeOK, ChainsOK, LogKept, NEW r \in Routers, NEW n \in InFlight(r),
         task[r][n].ahead = {}, NEW step, Ends(r, n, step),
         UNCHANGED <<lastRead, loop, batch>>, Pending' \subseteq Pending,
         step = "deliver" => OrderingKey[Event(n)] \notin blockedKeys[r],
         \/ UNCHANGED blockedKeys
         \/ /\ Ordering = "block" /\ Left(r, n) /\ task[r][n].step # "start"
            /\ blockedKeys' = [blockedKeys EXCEPT ![r] = @ \cup {OrderingKey[Event(n)]}]
  PROVE  ChainsOK'
<1>1. ASSUME NEW q \in Routers, NEW m \in InFlight(q)'
      PROVE  /\ m \in InFlight(q) /\ m \in Ids /\ Event(m)' = Event(m)
             /\ task'[q][m].ahead = task[q][m].ahead \ (IF q = r /\ Left(r, n) THEN {n} ELSE {})
             /\ \/ task'[q][m].step = task[q][m].step
                \/ q = r /\ m = n /\ task'[q][m].step = step
  BY InFlightIds DEF LogKept, Ends, Left, Moved, OthersRest
<1>2. ASSUME NEW q \in Routers PROVE Queue(q)'
  BY <1>1, SameChain DEF ChainsOK, Queue, Ends, Left
<1>3. ASSUME NEW q \in Routers PROVE Heads(q)'
  BY <1>1 DEF ChainsOK, Heads
<1>4. ASSUME NEW q \in Routers PROVE Batches(q)'
  BY <1>1 DEF ChainsOK, Batches
<1>5. ASSUME NEW q \in Routers PROVE Keys(q)'
  <2>1. ASSUME NEW m \in InFlight(q)', task'[q][m].step = "deliver"
        PROVE  OrderingKey[Event(m)] \notin blockedKeys[q]
    BY <1>1, <2>1 DEF ChainsOK, Keys
  <2>2. CASE UNCHANGED blockedKeys
    BY <1>1, <2>1, <2>2 DEF ChainsOK, Keys
  <2>3. CASE /\ Ordering = "block" /\ Left(r, n) /\ task[r][n].step # "start"
             /\ blockedKeys' = [blockedKeys EXCEPT ![r] = @ \cup {OrderingKey[Event(n)]}]
    <3>1. ASSUME NEW m \in InFlight(r)', task'[r][m].step = "deliver"
          PROVE  OrderingKey[Event(m)] # OrderingKey[Event(n)]
      <4>1. m # n /\ m \in InFlight(r) /\ task[r][m].step # "start"
        BY <1>1, <2>3, <3>1 DEF Left
      <4> QED BY <2>3, <4>1, OneHead DEF Same, ChainKey
    <3>2. blockedKeys'[q] = IF q = r THEN blockedKeys[r] \cup {OrderingKey[Event(n)]}
                            ELSE blockedKeys[q]
      BY <2>3 DEF TypeOK, LoopsOK
    <3> QED BY <1>1, <2>1, <2>3, <3>1, <3>2 DEF Keys
  <2> QED BY <2>2, <2>3
<1>6. \A m \in Pending' : m <= lastRead'
  BY DEF ChainsOK
<1> QED BY <1>2, <1>3, <1>4, <1>5, <1>6 DEF ChainsOK

\* The steps of the chain, by what they make of their entry.
AtHead(r, n, step) ==
  /\ task[r][n].ahead = {} /\ task[r][n].step = step
  /\ UNCHANGED <<lastRead, loop, batch>>

LEMMA BeginDoes ==
  ASSUME TypeOK, NEW r \in Routers, NEW n \in InFlight(r), Begin(r, n)
  PROVE  /\ AtHead(r, n, "start") /\ UNCHANGED <<log, idle, done, effects, blockedKeys>>
         /\ \/ Blocked(r, n) /\ Left(r, n) /\ UNCHANGED faults
            \/ ~Blocked(r, n) /\ Event(n) \in done /\ Moved(r, n, "ack") /\ UNCHANGED faults
            \/ ~Blocked(r, n) /\ Event(n) \notin done /\ Moved(r, n, "deliver") /\ UNCHANGED faults
            \/ Ends(r, n, "hung") /\ faults' = faults + 1
<1>1. AtHead(r, n, "start") /\ UNCHANGED <<log, idle, done, effects, blockedKeys>>
  BY DEF Begin, At, AtHead, streams, loopVars
<1>2. CASE Blocked(r, n) /\ Leave(r, n) /\ UNCHANGED faults
  BY <1>1, <1>2, LeaveLeaves
<1>3. CASE ~Blocked(r, n) /\ Event(n) \in done /\ Reply(r, n, "ack")
  BY <1>1, <1>3, ReplyEnds
<1>4. CASE ~Blocked(r, n) /\ Event(n) \notin done /\ Reply(r, n, "deliver")
  BY <1>1, <1>4, ReplyEnds
<1> QED BY <1>2, <1>3, <1>4 DEF Begin

Failed(r, n) ==
  \/ Moved(r, n, "deliver") /\ UNCHANGED blockedKeys
  \/ Moved(r, n, "park") /\ Ordering # "block" /\ UNCHANGED blockedKeys
  \/ /\ Left(r, n) /\ Ordering = "block"
     /\ blockedKeys' = [blockedKeys EXCEPT ![r] = @ \cup {OrderingKey[Event(n)]}]

LEMMA DeliverDoes ==
  ASSUME TypeOK, NEW r \in Routers, NEW n \in InFlight(r), Deliver(r, n)
  PROVE  /\ AtHead(r, n, "deliver") /\ UNCHANGED <<log, idle, done>>
         /\ \/ /\ effects' = [effects EXCEPT ![Event(n)] = @ + 1]
               /\ Moved(r, n, "mark") /\ UNCHANGED <<blockedKeys, faults>>
            \/ Failed(r, n) /\ UNCHANGED <<effects, faults>>
            \/ /\ Failed(r, n) /\ faults' = faults + 1
               /\ effects' = [effects EXCEPT ![Event(n)] = @ + 1]
<1>1. AtHead(r, n, "deliver") /\ UNCHANGED <<log, idle, done>>
  BY DEF Deliver, At, AtHead, streams, loopVars
<1>2. ASSUME AttemptFailed(r, n) PROVE Failed(r, n)
  <2>1. task[r][n].step = "deliver"
    BY <1>1 DEF AtHead
  <2> QED BY <1>2, <2>1, RetryMoves, GoToMoves, LeaveLeaves DEF AttemptFailed, Failed
<1>3. CASE /\ effects' = [effects EXCEPT ![Event(n)] = @ + 1]
           /\ GoTo(r, n, "mark") /\ UNCHANGED <<blockedKeys, faults>>
  BY <1>1, <1>3, GoToMoves
<1>4. CASE AttemptFailed(r, n) /\ UNCHANGED <<effects, faults>>
  BY <1>1, <1>2, <1>4
<1>5. CASE /\ Fault("response") /\ AttemptFailed(r, n)
           /\ effects' = [effects EXCEPT ![Event(n)] = @ + 1]
  BY <1>1, <1>2, <1>5 DEF Fault
<1> QED BY <1>3, <1>4, <1>5 DEF Deliver

Replied(r, n, step) ==
  /\ UNCHANGED <<effects, blockedKeys>>
  /\ \/ Moved(r, n, step) /\ UNCHANGED faults
     \/ Ends(r, n, "hung") /\ faults' = faults + 1

LEMMA MarkDoes ==
  ASSUME TypeOK, NEW r \in Routers, NEW n \in InFlight(r), Mark(r, n)
  PROVE  /\ AtHead(r, n, "mark") /\ UNCHANGED <<log, idle>>
         /\ done' = done \cup {Event(n)} /\ Replied(r, n, "ack")
BY ReplyEnds DEF Mark, At, AtHead, loopVars, Replied

LEMMA ParkDoes ==
  ASSUME TypeOK, NEW r \in Routers, NEW n \in InFlight(r), Park(r, n)
  PROVE  /\ AtHead(r, n, "park") /\ UNCHANGED <<idle, done>>
         /\ LogKept /\ Replied(r, n, "ack")
<1>1. PICK rec : rec = [at |-> "dlq", event |-> Event(n)]
  OBVIOUS
<1>2. rec \in Entry /\ log' = Append(log, rec)
  BY <1>1, EventOfTask DEF Entry, Park
<1> QED BY <1>2, AppendLog, ReplyEnds DEF Park, At, AtHead, loopVars, Replied

LEMMA AckDoes ==
  ASSUME TypeOK, NEW r \in Routers, NEW n \in InFlight(r), Ack(r, n)
  PROVE  /\ AtHead(r, n, "ack") /\ UNCHANGED <<log, done, effects, blockedKeys>>
         /\ Pending' = Pending \ {n}
         /\ \/ Left(r, n) /\ UNCHANGED faults
            \/ Moved(r, n, "hung") /\ faults' = faults + 1
<1>1. /\ AtHead(r, n, "ack") /\ UNCHANGED <<log, done, effects, blockedKeys>>
      /\ Pending' = Pending \ {n}
  BY DEF Ack, At, AtHead, loopVars, Pending, Without
<1>2. CASE Leave(r, n) /\ UNCHANGED faults
  BY <1>1, <1>2, LeaveLeaves
<1>3. CASE Fault("hang") /\ GoTo(r, n, "hung")
  BY <1>1, <1>3, GoToMoves DEF Fault
<1> QED BY <1>2, <1>3 DEF Ack

LEMMA CommandLostDoes ==
  ASSUME TypeOK, NEW r \in Routers, NEW n \in InFlight(r), CommandLost(r, n)
  PROVE  \E step \in {"start", "mark", "park", "ack"} :
           /\ AtHead(r, n, step) /\ UNCHANGED <<log, idle, done, effects, blockedKeys>>
           /\ Ends(r, n, "hung") /\ faults' = faults + 1
BY NoReplyEnds DEF CommandLost, At, AtHead, streams, loopVars

LEMMA ChainStepChains ==
  ASSUME TypeOK, ChainsOK, NEW r \in Routers, NEW n \in InFlight(r),
         ChainStep(r, n) \/ CommandLost(r, n)
  PROVE  ChainsOK'
<1> DEFINE free(step) == step = "deliver" => OrderingKey[Event(n)] \notin blockedKeys[r]
<1>1. ASSUME LogKept, UNCHANGED blockedKeys, Pending' \subseteq Pending,
             NEW at, AtHead(r, n, at), NEW step, Ends(r, n, step), free(step)
      PROVE  ChainsOK'
  BY <1>1, ChainsStep DEF AtHead
<1>2. CASE Begin(r, n)
  <2>1. /\ AtHead(r, n, "start") /\ LogKept /\ UNCHANGED blockedKeys
        /\ Pending' \subseteq Pending
    BY <1>2, BeginDoes, SameLog DEF Pending
  <2>2. \A k \in blockedKeys[r] : Ordering = "block"
    BY DEF ChainsOK, Keys
  <2>3. CASE Left(r, n) \/ Ends(r, n, "hung") \/ Moved(r, n, "ack")
    BY <1>1, <2>1, <2>3 DEF Ends
  <2>4. CASE ~Blocked(r, n) /\ Moved(r, n, "deliver")
    BY <1>1, <2>1, <2>2, <2>4 DEF Ends, Blocked
  <2> QED BY <1>2, <2>3, <2>4, BeginDoes
<1>3. CASE Deliver(r, n)
  <2>1. AtHead(r, n, "deliver") /\ LogKept /\ Pending' \subseteq Pending
    BY <1>3, DeliverDoes, SameLog DEF Pending
  <2>2. OrderingKey[Event(n)] \notin blockedKeys[r]
    BY <2>1 DEF AtHead, ChainsOK, Keys
  <2>3. CASE UNCHANGED blockedKeys /\ \E step : Moved(r, n, step)
    BY <1>1, <2>1, <2>2, <2>3 DEF Ends
  <2>4. CASE /\ Left(r, n) /\ Ordering = "block"
             /\ blockedKeys' = [blockedKeys EXCEPT ![r] = @ \cup {OrderingKey[Event(n)]}]
    <3>1. Ends(r, n, "none") /\ "none" # "deliver" /\ "deliver" # "start"
      BY <2>4 DEF Ends
    <3> QED BY <2>1, <2>4, <3>1, ChainsStep DEF AtHead
  <2> QED BY <1>3, <2>3, <2>4, DeliverDoes DEF Failed
<1>4. CASE Mark(r, n) \/ Park(r, n)
  <2>1. /\ \E at : AtHead(r, n, at)
        /\ LogKept /\ Pending' \subseteq Pending
        /\ Replied(r, n, "ack")
    BY <1>4, MarkDoes, ParkDoes, SameLog DEF Pending
  <2>2. Ends(r, n, "ack") \/ Ends(r, n, "hung")
    BY <2>1 DEF Replied, Ends
  <2> QED BY <1>1, <2>1, <2>2 DEF Replied
<1>5. CASE Ack(r, n)
  <2>1. AtHead(r, n, "ack") /\ LogKept /\ Pending' \subseteq Pending /\ UNCHANGED blockedKeys
    BY <1>5, AckDoes, SameLog
  <2>2. Ends(r, n, "hung")
    BY <1>5, AckDoes DEF Ends
  <2> QED BY <1>1, <2>1, <2>2
<1>6. CASE CommandLost(r, n)
  BY <1>1, <1>6, CommandLostDoes, SameLog DEF Pending
<1> QED BY <1>2, <1>3, <1>4, <1>5, <1>6 DEF ChainStep

\* Outside the chains the tasks rest.
LEMMA ChainsRest ==
  ASSUME TypeOK, ChainsOK, LogKept, Pending' \subseteq Pending,
         UNCHANGED <<lastRead, loop, batch, blockedKeys, task>>
  PROVE  ChainsOK'
<1>1. \A q \in Routers : InFlight(q)' = InFlight(q)
  BY DEF InFlight
<1>2. \A q \in Routers : \A m \in InFlight(q) : m \in Ids /\ Event(m)' = Event(m)
  BY InFlightIds DEF LogKept
<1>3. \A q \in Routers : Queue(q)' /\ Heads(q)' /\ Batches(q)'
  BY <1>1, <1>2, SameChain DEF ChainsOK, Queue, Heads, Batches
<1>4. \A q \in Routers : Keys(q)'
  BY <1>1, <1>2 DEF ChainsOK, Keys
<1> QED BY <1>3, <1>4 DEF ChainsOK

LEMMA LoopChains ==
  ASSUME TypeOK, ChainsOK, NEW r \in Routers,
         Claim(r) \/ Read(r) \/ LoopFails(r) \/ Crash(r)
  PROVE  ChainsOK'
<1>1. LogKept
  BY SameLog DEF Claim, Read, LoopFails, Crash, streams
<1>2. /\ lastRead' \in Nat /\ lastRead <= lastRead'
      /\ \A n \in Pending' : n <= lastRead'
      /\ \A n \in batch'[r] : n <= lastRead'
      /\ loop'[r] \in {"claim", "read"} => batch'[r] = {}
      /\ \A q \in Routers \ {r} : loop'[q] = loop[q] /\ batch'[q] = batch[q]
  <2>0. lastRead \in Nat /\ Pending \subseteq Nat
    BY InFlightIds
  <2>1. CASE Claim(r)
    <3>1. batch'[r] \subseteq Pending /\ Pending' = Pending /\ lastRead' = lastRead
      BY <2>1, FirstOfSubset DEF Claim, Pending, TypeOK, LoopsOK
    <3>2. loop'[r] = "claimed" /\ \A q \in Routers \ {r} : loop'[q] = loop[q] /\ batch'[q] = batch[q]
      BY <2>1 DEF Claim, TypeOK, LoopsOK
    <3>3. lastRead <= lastRead' /\ \A n \in Pending' : n <= lastRead'
      BY <2>0, <3>1 DEF ChainsOK
    <3> QED BY <2>0, <3>1, <3>2, <3>3
  <2>2. CASE Read(r)
    <3> DEFINE S == FirstOf(Unread)
    <3>1. /\ batch'[r] = S /\ Pending' = Pending \cup S
          /\ \/ S = {} /\ lastRead' = lastRead
             \/ lastRead' \in S /\ \A n \in S : n <= lastRead'
      BY <2>2 DEF Read, Pending, TypeOK, LoopsOK
    <3>2. \A n \in S : n \in Nat /\ n > lastRead
      BY FirstOfSubset, InFlightIds DEF Unread, Stream
    <3> HIDE DEF S
    <3>3. lastRead' \in Nat /\ lastRead <= lastRead'
      BY <2>0, <3>1, <3>2
    <3>4. \A n \in Pending : n <= lastRead'
      BY <2>0, <3>3 DEF ChainsOK
    <3> QED BY <2>2, <3>1, <3>3, <3>4 DEF Read, TypeOK, LoopsOK
  <2>3. CASE LoopFails(r) \/ Crash(r)
    BY <2>0, <2>3 DEF LoopFails, Crash, ChainsOK, TypeOK, LoopsOK, streams, Pending
  <2> QED BY <2>1, <2>2, <2>3
<1>3. /\ \A q \in Routers \ {r} : task'[q] = task[q] /\ blockedKeys'[q] = blockedKeys[q]
      /\ \/ task'[r] = task[r] /\ blockedKeys'[r] = blockedKeys[r]
         \/ InFlight(r)' = {} /\ blockedKeys'[r] = {}
  BY DEF Claim, Read, LoopFails, Crash, InFlight, TypeOK, TasksOK, LoopsOK
<1>4. ASSUME NEW q \in Routers
      PROVE  (Queue(q) /\ Heads(q) /\ Batches(q) /\ Keys(q))'
  <2>1. \/ InFlight(q)' = InFlight(q) /\ task'[q] = task[q] /\ blockedKeys'[q] = blockedKeys[q]
        \/ InFlight(q)' = {} /\ blockedKeys'[q] = {}
    BY <1>3 DEF InFlight
  <2>2. \A m \in InFlight(q)' : m \in InFlight(q) /\ m \in Ids /\ m \in Nat /\ Event(m)' = Event(m)
    BY <1>1, <2>1, InFlightIds DEF LogKept
  <2>3. Queue(q)' /\ Heads(q)'
    BY <1>1, <2>1, <2>2, SameChain DEF ChainsOK, Queue, Heads
  <2>4. \A m \in InFlight(q)' : m <= lastRead'
    BY <1>2, <2>2, InFlightIds DEF ChainsOK, Batches
  <2>5. \A m \in batch[q] : m <= lastRead'
    <3>1. \A m \in batch[q] : m \in Nat /\ m <= lastRead
      BY InFlightIds DEF ChainsOK, Batches
    <3>2. lastRead \in Nat
      BY InFlightIds
    <3> QED BY <1>2, <3>1, <3>2
  <2>6. Batches(q)'
    BY <1>2, <2>4, <2>5 DEF ChainsOK, Batches
  <2>7. Keys(q)'
    BY <2>1, <2>2 DEF ChainsOK, Keys
  <2> QED BY <2>3, <2>6, <2>7
<1> QED BY <1>2, <1>4 DEF ChainsOK

\* A reply's entries join their chains behind what is there, in id order.
EnqueueDoes(r) ==
  /\ InFlight(r)' = InFlight(r) \cup batch[r]
  /\ \A n \in InFlight(r) : task'[r][n] = task[r][n]
  /\ \A n \in batch[r] \ InFlight(r) : task'[r][n] = NewTask(r, n)
  /\ OthersRest(r)

LEMMA EnqueueTasks ==
  ASSUME TypeOK, NEW r \in Routers, Enqueue(r)
  PROVE  EnqueueDoes(r)
<1>1. task'[r] = [n \in InFlight(r) \cup batch[r] |->
                   IF n \in InFlight(r) THEN task[r][n] ELSE NewTask(r, n)]
  BY DEF Enqueue, TypeOK, TasksOK
<1>2. OthersRest(r)
  BY DEF Enqueue, OthersRest, InFlight, TypeOK, TasksOK
<1> QED BY <1>1, <1>2 DEF InFlight, EnqueueDoes

LEMMA EnqueueChains ==
  ASSUME TypeOK, ChainsOK, NEW r \in Routers, Enqueue(r)
  PROVE  ChainsOK'
<1>1. LogKept /\ UNCHANGED <<lastRead, blockedKeys>> /\ Pending' = Pending
  BY SameLog DEF Enqueue, streams, Pending
<1>2. EnqueueDoes(r)
  BY EnqueueTasks
<1>3. \A n : NewTask(r, n).step = "start" /\
             NewTask(r, n).ahead = {m \in InFlight(r) \cup batch[r] :
                Same(m, n) /\ (m \in InFlight(r) \/ m < n)}
  BY DEF NewTask, Same
<1>4. InFlight(r) \subseteq Ids /\ batch[r] \subseteq Ids /\ Ids \subseteq Nat
  BY InFlightIds
<1>5. Queue(r)'
  <2> SUFFICES ASSUME NEW n \in InFlight(r)', NEW m \in InFlight(r)', n # m, Same(n, m)'
               PROVE  n \in task'[r][m].ahead \/ m \in task'[r][n].ahead
    BY DEF Queue
  <2>1. /\ n \in InFlight(r) \cup batch[r] /\ m \in InFlight(r) \cup batch[r]
        /\ n \in Nat /\ m \in Nat /\ Same(n, m) /\ Same(m, n)
    BY <1>1, <1>2, <1>4, SameChain DEF EnqueueDoes, Same
  <2>2. CASE n \in InFlight(r) /\ m \in InFlight(r)
    BY <1>2, <2>1, <2>2 DEF EnqueueDoes, ChainsOK, Queue
  <2>3. CASE n \in InFlight(r) /\ m \notin InFlight(r)
    BY <1>2, <1>3, <2>1, <2>3 DEF EnqueueDoes
  <2>4. CASE n \notin InFlight(r) /\ m \in InFlight(r)
    BY <1>2, <1>3, <2>1, <2>4 DEF EnqueueDoes
  <2>5. CASE n \notin InFlight(r) /\ m \notin InFlight(r)
    <3>1. n < m \/ m < n
      BY <2>1
    <3> QED BY <1>2, <1>3, <2>1, <2>5, <3>1 DEF EnqueueDoes
  <2> QED BY <2>2, <2>3, <2>4, <2>5
<1>6. Heads(r)'
  BY <1>2, <1>3 DEF EnqueueDoes, ChainsOK, Heads
<1>7. Batches(r)'
  BY <1>1, <1>2 DEF EnqueueDoes, ChainsOK, Batches, Enqueue, TypeOK, LoopsOK
<1>8. Keys(r)'
  BY <1>1, <1>2, <1>3, <1>4 DEF EnqueueDoes, ChainsOK, Keys, LogKept
<1>9. ASSUME NEW q \in Routers \ {r}
      PROVE  (Queue(q) /\ Heads(q) /\ Batches(q) /\ Keys(q))'
  <2>1. InFlight(q)' = InFlight(q) /\ task'[q] = task[q]
    BY <1>2 DEF EnqueueDoes, OthersRest
  <2>2. batch'[q] = batch[q] /\ loop'[q] = loop[q]
    BY DEF Enqueue, TypeOK, LoopsOK
  <2>3. \A m \in InFlight(q) : m \in Ids /\ Event(m)' = Event(m)
    BY <1>1, InFlightIds DEF LogKept
  <2>4. Queue(q)' /\ Heads(q)' /\ Batches(q)'
    BY <1>1, <2>1, <2>2, <2>3, SameChain DEF ChainsOK, Queue, Heads, Batches
  <2>5. Keys(q)'
    BY <1>1, <2>1, <2>3 DEF ChainsOK, Keys
  <2> QED BY <2>4, <2>5
<1>10. \A q \in Routers : (Queue(q) /\ Heads(q) /\ Batches(q) /\ Keys(q))'
  BY <1>5, <1>6, <1>7, <1>8, <1>9
<1> QED BY <1>1, <1>10 DEF ChainsOK

LEMMA NextChains ==
  ASSUME TypeOK, ChainsOK, [Next]_vars
  PROVE  ChainsOK'
<1>1. CASE Tick \/ \E e \in Events : Expire(e)
  BY <1>1, ChainsRest, SameLog DEF Tick, Expire, loopVars, Pending
<1>2. ASSUME NEW e \in Events, Publish(e) PROVE ChainsOK'
  <2>1. PICK rec : rec = [at |-> "stream", event |-> e]
    OBVIOUS
  <2>2. rec \in Entry /\ log' = Append(log, rec)
    BY <1>2, <2>1 DEF Publish, Entry
  <2> QED BY <1>2, <2>2, AppendLog, ChainsRest DEF Publish, loopVars, Pending
<1>3. ASSUME NEW r \in Routers,
             \/ Start(r) \/ ReplayRequest(r) \/ ReplayDel(r) \/ ReplayFails(r)
      PROVE  ChainsOK'
  BY <1>3, SameLog, ChainsRest
     DEF Start, ReplayRequest, ReplayDel, ReplayFails, streams, loopVars, Pending
<1>4. ASSUME NEW r \in Routers, ReplayAdd(r) PROVE ChainsOK'
  <2>0. PICK d \in replay[r].rows : log' = Append(log, [at |-> "stream", event |-> Event(d)])
    BY <1>4 DEF ReplayAdd
  <2>1. PICK rec : rec = [at |-> "stream", event |-> Event(d)]
    OBVIOUS
  <2>2. rec \in Entry
    BY <2>1, IdsFacts DEF TypeOK, StreamsOK, ReplaysOK, Entry
  <2> QED BY <1>4, <2>0, <2>1, <2>2, AppendLog, ChainsRest DEF ReplayAdd, loopVars, Pending
<1>5. ASSUME NEW r \in Routers, Crash(r) \/ LoopStep(r) \/ LoopFails(r)
      PROVE  ChainsOK'
  BY <1>5, LoopChains, EnqueueChains DEF LoopStep
<1>6. ASSUME NEW r \in Routers, NEW n \in InFlight(r), ChainStep(r, n) \/ CommandLost(r, n)
      PROVE  ChainsOK'
  BY <1>6, ChainStepChains
<1>7. CASE UNCHANGED vars
  BY <1>7, SameLog, ChainsRest DEF vars, streams, loopVars, Pending
<1> QED BY <1>1, <1>2, <1>3, <1>4, <1>5, <1>6, <1>7 DEF Next, ReplayStep

LEMMA InitChains == Init => ChainsOK
BY DEF Init, ChainsOK, Queue, Heads, Batches, Keys, InFlight, Pending

LEMMA ChainsKept == Spec => []ChainsOK
<1>1. TypeOK /\ ChainsOK /\ [Next]_vars => ChainsOK'
  BY NextChains
<1> QED BY <1>1, InitChains, TypeCorrect, PTL DEF Spec

\* In one process the entries of an ordering key (of an event, without an
\* order) are processed one at a time, however often they are claimed again
\* (enqueueOrdered).
THEOREM ChainsSerial == Spec => []SerialChains
<1>1. ChainsOK => SerialChains
  BY OneHead DEF SerialChains, ChainsOK, Heads, Same
<1> QED BY <1>1, ChainsKept, PTL

-----------------------------------------------------------------------------
(* The account of repeated effects, of a sole process. *)

\* An event is attempted only while its marker is not set.
Fresh ==
  \A r \in Routers : \A n \in InFlight(r) :
    task[r][n].step = "deliver" => Event(n) \notin done

\* One effect is free: the one whose marker is set, or is about to be.
Free(e) ==
  \/ e \in done
  \/ \E r \in Routers : \E n \in InFlight(r) : Event(n) = e /\ task[r][n].step = "mark"

Paid == \A e \in Events : effects[e] <= faults + (IF Free(e) THEN 1 ELSE 0)

\* One process at a time, before and after its restarts: between two rollouts.
OneRouter == \A q, r \in Routers : q = r

\* Steps are entered by the chains alone: others drop entries or start them.
StepsKept ==
  \A q \in Routers : \A m \in InFlight(q)' :
    \/ m \in InFlight(q) /\ task'[q][m].step = task[q][m].step
    \/ task'[q][m].step = "start"

LEMMA FreshKept ==
  ASSUME TypeOK, Fresh, LogKept, done' \subseteq done, StepsKept
  PROVE  Fresh'
<1> SUFFICES ASSUME NEW q \in Routers, NEW m \in InFlight(q)', task'[q][m].step = "deliver"
             PROVE  Event(m)' \notin done'
  BY DEF Fresh
<1>1. m \in InFlight(q) /\ task[q][m].step = "deliver"
  BY DEF StepsKept
<1> QED BY <1>1, InFlightIds DEF Fresh, LogKept

\* The account of an event: what an effect, and what a lost claim on the free
\* one, must be paid with.
LEMMA PaidKept ==
  ASSUME TypeOK, TypeOK', Paid,
         \A e \in Events :
           \/ effects'[e] = effects[e] /\ faults' = faults + 1
           \/ effects'[e] = effects[e] /\ faults' = faults /\ (Free(e) => Free(e)')
           \/ effects'[e] = effects[e] + 1 /\ faults' = faults + 1 /\ (Free(e) => Free(e)')
           \/ effects'[e] = effects[e] + 1 /\ faults' = faults /\ ~Free(e) /\ Free(e)'
  PROVE  Paid'
<1> SUFFICES ASSUME NEW e \in Events
             PROVE  effects'[e] <= faults' + (IF Free(e)' THEN 1 ELSE 0)
  BY DEF Paid
<1>1. effects[e] \in Nat /\ faults \in Nat /\ faults' \in Nat
  BY ConstantsAssumption DEF TypeOK, CountsOK
<1>2. effects[e] <= faults + (IF Free(e) THEN 1 ELSE 0)
  BY DEF Paid
<1> QED BY <1>1, <1>2

\* The marker that is set, or about to be, stays so unless the step loses it.
LEMMA FreeKept ==
  ASSUME TypeOK, LogKept, done \subseteq done', NEW r \in Routers, NEW n \in InFlight(r),
         NEW step, Ends(r, n, step), task[r][n].step = "mark" => Event(n) \in done',
         NEW e, Free(e)
  PROVE  Free(e)'
<1>1. CASE e \in done
  BY <1>1 DEF Free
<1>2. ASSUME NEW q \in Routers, NEW m \in InFlight(q), Event(m) = e,
             task[q][m].step = "mark"
      PROVE  Free(e)'
  <2>1. Event(m)' = e
    BY <1>2, InFlightIds DEF LogKept
  <2>2. CASE q = r /\ m = n
    BY <1>2, <2>2 DEF Free
  <2>3. CASE ~(q = r /\ m = n)
    <3>1. m \in InFlight(q)' /\ task'[q][m].step = "mark"
      BY <1>2, <2>3 DEF Ends, Left, Moved, OthersRest
    <3> QED BY <2>1, <3>1 DEF Free
  <2> QED BY <2>2, <2>3
<1> QED BY <1>1, <1>2 DEF Free

\* Once only: the parts of the account under a step of the chain.
LEMMA FreshStep ==
  ASSUME OneRouter, TypeOK, ChainsOK, Fresh, LogKept, NEW r \in Routers,
         NEW n \in InFlight(r), task[r][n].ahead = {}, NEW step, Ends(r, n, step),
         step = "deliver" => Event(n) \notin done',
         done' \subseteq done \cup {Event(n)}
  PROVE  Fresh'
<1> SUFFICES ASSUME NEW q \in Routers, NEW m \in InFlight(q)', task'[q][m].step = "deliver"
             PROVE  Event(m)' \notin done'
  BY DEF Fresh
<1>1. q = r /\ m \in InFlight(r) /\ Event(m)' = Event(m)
  BY InFlightIds DEF OneRouter, Ends, Left, Moved, LogKept
<1>2. CASE m = n
  BY <1>1, <1>2 DEF Ends, Left, Moved
<1>3. CASE m # n
  <2>1. task[r][m].step = "deliver"
    BY <1>1, <1>3 DEF Ends, Left, Moved
  <2>2. Event(m) \notin done
    BY <1>1, <2>1 DEF Fresh
  <2>3. Event(m) # Event(n)
    BY <1>1, <1>3, <2>1, OneHead DEF Same, ChainKey
  <2> QED BY <1>1, <2>2, <2>3
<1> QED BY <1>2, <1>3

Account == Fresh /\ Paid

LEMMA ChainStepAccount ==
  ASSUME OneRouter, TypeOK, TypeOK', ChainsOK, Account,
         NEW r \in Routers, NEW n \in InFlight(r), ChainStep(r, n) \/ CommandLost(r, n)
  PROVE  Account'
<1> DEFINE lost == faults' = faults + 1
<1>1. ASSUME LogKept, UNCHANGED <<done, effects>>, NEW at, AtHead(r, n, at),
             NEW step, Ends(r, n, step), step = "deliver" => Event(n) \notin done,
             lost \/ (UNCHANGED faults /\ at # "mark")
      PROVE  Account'
  <2>1. Fresh'
    BY <1>1, FreshStep DEF Account, AtHead
  <2>2. at # "mark" => \A e \in Events : Free(e) => Free(e)'
    BY <1>1, FreeKept DEF AtHead
  <2> QED BY <1>1, <2>1, <2>2, PaidKept DEF Account
<1>2. CASE Begin(r, n)
  <2>1. LogKept /\ UNCHANGED <<done, effects>> /\ AtHead(r, n, "start")
    BY <1>2, BeginDoes, SameLog
  <2>2. \/ Left(r, n) /\ UNCHANGED faults
        \/ Moved(r, n, "ack") /\ UNCHANGED faults
        \/ Moved(r, n, "deliver") /\ Event(n) \notin done /\ UNCHANGED faults
        \/ Ends(r, n, "hung") /\ lost
    BY <1>2, BeginDoes
  <2>3. CASE Moved(r, n, "deliver") /\ Event(n) \notin done /\ UNCHANGED faults
    BY <1>1, <2>1, <2>3 DEF Ends
  <2>4. CASE (Left(r, n) \/ Moved(r, n, "ack")) /\ UNCHANGED faults
    <3>1. Ends(r, n, "ack")
      BY <2>4 DEF Ends
    <3> QED BY <1>1, <2>1, <2>4, <3>1
  <2>5. CASE Ends(r, n, "hung") /\ lost
    BY <1>1, <2>1, <2>5
  <2> QED BY <2>2, <2>3, <2>4, <2>5
<1>3. CASE Deliver(r, n)
  <2>1. LogKept /\ UNCHANGED done /\ AtHead(r, n, "deliver")
    BY <1>3, DeliverDoes, SameLog
  <2>2. Event(n) \notin done
    BY <2>1 DEF AtHead, Account, Fresh
  <2>3. Event(n) \in Events /\ Event(n)' = Event(n)
    BY <2>1, EventOfTask, InFlightIds DEF LogKept
  <2>4. PICK step : Ends(r, n, step) /\ step \in {"deliver", "park", "mark"}
    BY <1>3, DeliverDoes DEF Failed, Ends
  <2>5. Fresh'
    BY <2>1, <2>2, <2>4, FreshStep DEF AtHead, Account
  <2>6. \A e : Free(e) => Free(e)'
    BY <2>1, <2>4, FreeKept DEF AtHead
  <2>7. CASE /\ effects' = [effects EXCEPT ![Event(n)] = @ + 1]
             /\ Moved(r, n, "mark") /\ UNCHANGED faults
    <3>1. ~Free(Event(n))
      <4> SUFFICES ASSUME NEW q \in Routers, NEW m \in InFlight(q),
                          Event(m) = Event(n), task[q][m].step = "mark"
                   PROVE  FALSE
        BY <2>2 DEF Free
      <4>1. q = r /\ Same(n, m) /\ task[r][m].step # "start"
        BY DEF OneRouter, Same, ChainKey
      <4>2. n = m
        BY <2>1, <4>1, OneHead DEF AtHead
      <4> QED BY <2>1, <4>1, <4>2 DEF AtHead
    <3>2. Free(Event(n))'
      BY <2>3, <2>7 DEF Free, Moved
    <3>3. PICK ev : ev = Event(n)
      OBVIOUS
    <3>4. ~Free(ev) /\ Free(ev)' /\ ev \in Events
      BY <2>3, <3>1, <3>2, <3>3 DEF Free
    <3>5. \A e \in Events : effects'[e] = IF e = ev THEN effects[e] + 1 ELSE effects[e]
      BY <2>3, <2>7, <3>3 DEF TypeOK, CountsOK
    <3>6. Paid'
      BY <2>6, <2>7, <3>4, <3>5, PaidKept DEF Account
    <3> QED BY <2>5, <3>6 DEF Account
  <2>8. CASE UNCHANGED <<effects, faults>>
    BY <2>5, <2>6, <2>8, PaidKept DEF Account
  <2>9. CASE lost /\ effects' = [effects EXCEPT ![Event(n)] = @ + 1]
    <3>1. \A e \in Events : effects'[e] = effects[e] \/ effects'[e] = effects[e] + 1
      BY <2>3, <2>9 DEF TypeOK, CountsOK
    <3> QED BY <2>5, <2>6, <2>9, <3>1, PaidKept DEF Account
  <2> QED BY <1>3, <2>7, <2>8, <2>9, DeliverDoes
<1>4. CASE Mark(r, n)
  <2>1. /\ LogKept /\ UNCHANGED effects /\ AtHead(r, n, "mark")
        /\ done' = done \cup {Event(n)} /\ Replied(r, n, "ack")
    BY <1>4, MarkDoes, SameLog DEF Replied
  <2>2. PICK step \in {"ack", "hung"} : Ends(r, n, step)
    BY <2>1 DEF Replied, Ends
  <2>3. Fresh'
    BY <2>1, <2>2, FreshStep DEF AtHead, Account
  <2>4. \A e : Free(e) => Free(e)'
    BY <2>1, <2>2, FreeKept
  <2>5. lost \/ UNCHANGED faults
    BY <2>1 DEF Replied
  <2> QED BY <2>1, <2>3, <2>4, <2>5, PaidKept DEF Account
<1>5. CASE Park(r, n)
  <2>1. LogKept /\ UNCHANGED <<done, effects>> /\ AtHead(r, n, "park") /\ Replied(r, n, "ack")
    BY <1>5, ParkDoes DEF Replied
  <2>2. PICK step \in {"ack", "hung"} : Ends(r, n, step) /\ (lost \/ UNCHANGED faults)
    BY <2>1 DEF Replied, Ends
  <2> QED BY <1>1, <2>1, <2>2
<1>6. CASE Ack(r, n)
  <2>1. LogKept /\ UNCHANGED <<done, effects>> /\ AtHead(r, n, "ack")
    BY <1>6, AckDoes, SameLog
  <2>2. Ends(r, n, "hung") /\ (lost \/ UNCHANGED faults)
    BY <1>6, AckDoes DEF Ends
  <2> QED BY <1>1, <2>1, <2>2
<1>7. CASE CommandLost(r, n)
  <2>1. PICK at : /\ AtHead(r, n, at) /\ UNCHANGED <<log, done, effects>>
                  /\ Ends(r, n, "hung") /\ lost
    BY <1>7, CommandLostDoes
  <2> QED BY <1>1, <2>1, SameLog
<1> QED BY <1>2, <1>3, <1>4, <1>5, <1>6, <1>7 DEF ChainStep

\* Every other step: the tasks rest, start, or are lost with the process.
LEMMA QuietAccount ==
  ASSUME TypeOK, TypeOK', Account, LogKept, StepsKept, UNCHANGED effects, done' \subseteq done,
         \/ faults' = faults + 1
         \/ /\ UNCHANGED <<faults, done>>
            /\ \A q \in Routers : \A m \in InFlight(q) :
                 m \in InFlight(q)' /\ task'[q][m].step = task[q][m].step
  PROVE  Account'
<1>1. Fresh'
  BY FreshKept DEF Account
<1>2. faults' # faults + 1 => \A e : Free(e) => Free(e)'
  BY InFlightIds DEF Free, LogKept
<1>3. Paid'
  BY <1>2, PaidKept DEF Account
<1> QED BY <1>1, <1>3 DEF Account

LEMMA SameSteps ==
  ASSUME UNCHANGED task
  PROVE  /\ StepsKept
         /\ \A q \in Routers : \A m \in InFlight(q) :
              m \in InFlight(q)' /\ task'[q][m].step = task[q][m].step
BY DEF StepsKept, InFlight

LEMMA NextAccount ==
  ASSUME OneRouter, TypeOK, TypeOK', ChainsOK, Account, [Next]_vars
  PROVE  Account'
<1>1. CASE Tick \/ \E e \in Events : Expire(e)
  BY <1>1, QuietAccount, SameSteps, SameLog DEF Tick, Expire, Fault, bounds
<1>2. ASSUME NEW e \in Events, Publish(e) PROVE Account'
  <2>1. PICK rec : rec = [at |-> "stream", event |-> e]
    OBVIOUS
  <2>2. rec \in Entry /\ log' = Append(log, rec)
    BY <1>2, <2>1 DEF Publish, Entry
  <2> QED BY <1>2, <2>2, AppendLog, QuietAccount, SameSteps DEF Publish, bounds
<1>3. ASSUME NEW r \in Routers,
             \/ Start(r) \/ Claim(r) \/ Read(r) \/ LoopFails(r)
             \/ ReplayRequest(r) \/ ReplayDel(r) \/ ReplayFails(r)
      PROVE  Account'
  BY <1>3, QuietAccount, SameSteps, SameLog
     DEF Start, Claim, Read, LoopFails, ReplayRequest, ReplayDel, ReplayFails,
         streams, bounds, Fault
<1>4. ASSUME NEW r \in Routers, ReplayAdd(r) PROVE Account'
  <2>0. PICK d \in replay[r].rows : log' = Append(log, [at |-> "stream", event |-> Event(d)])
    BY <1>4 DEF ReplayAdd
  <2>1. PICK rec : rec = [at |-> "stream", event |-> Event(d)]
    OBVIOUS
  <2>2. rec \in Entry
    BY <2>1, IdsFacts DEF TypeOK, StreamsOK, ReplaysOK, Entry
  <2> QED BY <1>4, <2>0, <2>1, <2>2, AppendLog, QuietAccount, SameSteps DEF ReplayAdd, bounds
<1>5. ASSUME NEW r \in Routers, Crash(r) PROVE Account'
  <2>1. InFlight(r)' = {} /\ \A q \in Routers \ {r} : task'[q] = task[q]
    BY <1>5 DEF Crash, InFlight, TypeOK, TasksOK
  <2>2. StepsKept
    BY <2>1 DEF StepsKept, InFlight
  <2> QED BY <1>5, <2>2, QuietAccount, SameLog DEF Crash, streams, Fault
<1>6. ASSUME NEW r \in Routers, Enqueue(r) PROVE Account'
  <2>1. EnqueueDoes(r)
    BY <1>6, EnqueueTasks
  <2>2. StepsKept
    <3> SUFFICES ASSUME NEW q \in Routers, NEW m \in InFlight(q)'
                 PROVE  \/ m \in InFlight(q) /\ task'[q][m].step = task[q][m].step
                        \/ task'[q][m].step = "start"
      BY DEF StepsKept
    <3>1. CASE q = r
      <4>1. m \notin InFlight(r) => task'[r][m] = NewTask(r, m)
        BY <2>1, <3>1 DEF EnqueueDoes
      <4>2. NewTask(r, m).step = "start"
        BY DEF NewTask
      <4> QED BY <2>1, <3>1, <4>1, <4>2 DEF EnqueueDoes
    <3>2. CASE q # r
      BY <2>1, <3>2 DEF EnqueueDoes, OthersRest
    <3> QED BY <3>1, <3>2
  <2>3. \A q \in Routers : \A m \in InFlight(q) :
          m \in InFlight(q)' /\ task'[q][m].step = task[q][m].step
    BY <2>1 DEF EnqueueDoes, OthersRest
  <2> QED BY <1>6, <2>2, <2>3, QuietAccount, SameLog DEF Enqueue, streams, bounds
<1>7. ASSUME NEW r \in Routers, NEW n \in InFlight(r), ChainStep(r, n) \/ CommandLost(r, n)
      PROVE  Account'
  BY <1>7, ChainStepAccount
<1>8. CASE UNCHANGED vars
  BY <1>8, QuietAccount, SameSteps, SameLog DEF vars, streams, bounds
<1> QED BY <1>1, <1>2, <1>3, <1>4, <1>5, <1>6, <1>7, <1>8 DEF Next, LoopStep, ReplayStep

LEMMA InitAccount == Init => Account
BY DEF Init, Account, Fresh, Paid, Free, InFlight

LEMMA AccountBounds == TypeOK /\ Account => AtMostOncePerFault
<1> SUFFICES ASSUME TypeOK, Account, NEW e \in Events PROVE effects[e] <= 1 + faults
  BY DEF AtMostOncePerFault
<1>1. effects[e] \in Nat /\ faults \in Nat
  BY ConstantsAssumption DEF TypeOK, CountsOK
<1>2. effects[e] <= faults + (IF Free(e) THEN 1 ELSE 0)
  BY DEF Account, Paid
<1> QED BY <1>1, <1>2

\* While one router process runs at a time, an event is carried out once, and
\* once more for each failure at most: a crash, a lost command or answer, an
\* expired marker.  Reclaims, retries and replays cost nothing.
THEOREM OncePerFault == ASSUME OneRouter PROVE Spec => []AtMostOncePerFault
<1>1. TypeOK /\ TypeOK' /\ ChainsOK /\ Account /\ [Next]_vars => Account'
  BY NextAccount
<1> QED BY <1>1, InitAccount, TypeCorrect, ChainsKept, AccountBounds, PTL DEF Spec

-----------------------------------------------------------------------------
(* Order: what holds until the first failure of a sole process. *)

\* Until the first failure every pending entry is in the hands of the process,
\* or stopped behind a poison entry of its key, ...
InHand ==
  \A r \in Routers : \A n \in Pending :
    n \in InFlight(r) \cup batch[r] \/ OrderingKey[Event(n)] \in blockedKeys[r]

\* ... and an entry in flight waits for each earlier one of its key.
Waits ==
  \A r \in Routers : \A n \in InFlight(r) : \A m \in Stream :
    m < n /\ OrderingKey[Event(m)] = OrderingKey[Event(n)] =>
      Settled(m) \/ m \in task[r][n].ahead \/ OrderingKey[Event(m)] \in blockedKeys[r]

InOrder == Ordering # "none" /\ faults = 0 => InHand /\ Waits

LEMMA SettledKept ==
  ASSUME TypeOK, NEW m \in Nat, Settled(m), lastRead' \in Nat, lastRead <= lastRead',
         \A n \in Pending' : n \in Pending \/ n > lastRead
  PROVE  Settled(m)'
<1>1. lastRead \in Nat
  BY DEF TypeOK, StreamsOK, Stream, Ids
<1>2. m <= lastRead /\ m \notin Pending
  BY DEF Settled
<1>3. m <= lastRead'
  <2>1. m <= lastRead /\ lastRead <= lastRead' /\ lastRead \in Nat /\ lastRead' \in Nat
    BY <1>1, <1>2
  <2> QED BY <2>1
<1>4. ~(m > lastRead)
  BY <1>1, <1>2
<1> QED BY <1>2, <1>3, <1>4 DEF Settled

\* A step of the chains that is no failure: its entry leaves settled, or with
\* its key blocked.
LEMMA OrderStep ==
  ASSUME OneRouter, TypeOK, TypeOK', ChainsOK, LogKept, InHand, Waits,
         NEW r \in Routers, NEW n \in InFlight(r), NEW step, Ends(r, n, step),
         UNCHANGED <<lastRead, batch>>, Pending' = Pending \/ Pending' = Pending \ {n},
         blockedKeys[r] \subseteq blockedKeys'[r],
         ~Moved(r, n, step) =>
            n \notin Pending' \/ OrderingKey[Event(n)] \in blockedKeys'[r]
  PROVE  InHand' /\ Waits'
<1>0. /\ InFlight(r) \subseteq Ids /\ Ids \subseteq Nat /\ Pending \subseteq Ids
      /\ lastRead \in Nat /\ \A q \in Routers : q = r
  BY InFlightIds DEF OneRouter
<1>1. \A m \in Ids : Event(m)' = Event(m)
  BY DEF LogKept
<1>2. ASSUME NEW q \in Routers, NEW m \in Pending'
      PROVE  m \in (InFlight(q) \cup batch[q])' \/ OrderingKey[Event(m)'] \in blockedKeys'[q]
  <2>1. m \in Pending /\ m \in Ids /\ q = r /\ Event(m)' = Event(m)
    BY <1>0, <1>1, <1>2
  <2>2. m \in InFlight(r) \cup batch[r] \/ OrderingKey[Event(m)] \in blockedKeys[r]
    BY <2>1 DEF InHand
  <2>3. CASE Moved(r, n, step)
    BY <2>1, <2>2, <2>3 DEF Moved
  <2>4. CASE ~Moved(r, n, step)
    BY <1>2, <2>1, <2>2, <2>4 DEF Left, Ends
  <2> QED BY <2>3, <2>4
<1>3. ASSUME NEW q \in Routers, NEW x \in InFlight(q)', NEW m \in Stream',
             m < x, OrderingKey[Event(m)'] = OrderingKey[Event(x)']
      PROVE  Settled(m)' \/ m \in task'[q][x].ahead \/ OrderingKey[Event(m)'] \in blockedKeys'[q]
  <2>1. q = r /\ x \in InFlight(r) /\ x \in Nat /\ x \in Ids
    BY <1>0, <1>3 DEF Ends, Moved, Left
  <2>2. m \in Stream /\ m \in Ids /\ m \in Nat
    <3>1. m \in Stream \/ x < m
      BY <2>1 DEF LogKept
    <3>2. CASE m \in Stream
      BY <1>0, <3>2 DEF Stream
    <3>3. CASE m \notin Stream
      <4>1. \A y \in Ids : y < m
        BY <3>3 DEF LogKept
      <4>2. Stream' \subseteq Int
        BY DEF Stream, Ids, TypeOK, StreamsOK
      <4> QED BY <1>3, <2>1, <4>1, <4>2
    <3> QED BY <3>2, <3>3
  <2>3. Event(m)' = Event(m) /\ Event(x)' = Event(x)
    BY <1>1, <2>1, <2>2
  <2>4. Settled(m) \/ m \in task[r][x].ahead \/ OrderingKey[Event(m)] \in blockedKeys[r]
    BY <1>3, <2>1, <2>2, <2>3 DEF Waits
  <2>5. CASE Settled(m)
    <3>1. Settled(m)'
      BY <1>0, <2>2, <2>5, SettledKept
    <3> QED BY <3>1
  <2>6. CASE OrderingKey[Event(m)] \in blockedKeys[r]
    BY <2>1, <2>3, <2>6
  <2>7. CASE m \in task[r][x].ahead /\ m \in task'[r][x].ahead
    BY <2>1, <2>7
  <2>8. CASE m \in task[r][x].ahead /\ m \notin task'[r][x].ahead
    <3>1. m = n /\ ~Moved(r, n, step)
      BY <2>1, <2>8 DEF Ends, Moved, Left
    <3>2. n <= lastRead
      BY DEF ChainsOK, Batches
    <3>3. Settled(m)' \/ OrderingKey[Event(m)] \in blockedKeys'[r]
      BY <3>1, <3>2 DEF Settled
    <3> QED BY <2>1, <2>3, <3>3
  <2> QED BY <2>4, <2>5, <2>6, <2>7, <2>8
<1> QED BY <1>2, <1>3 DEF InHand, Waits

LEMMA ChainStepOrder ==
  ASSUME OneRouter, TypeOK, TypeOK', ChainsOK, InHand, Waits, Ordering # "none",
         NEW r \in Routers, NEW n \in InFlight(r), ChainStep(r, n) \/ CommandLost(r, n),
         faults = 0, faults' = 0
  PROVE  InHand' /\ Waits'
<1>1. faults' # faults + 1
  OBVIOUS
<1>2. ASSUME NEW step, Moved(r, n, step), LogKept, NEW at, AtHead(r, n, at),
             UNCHANGED <<idle, blockedKeys>>
      PROVE  InHand' /\ Waits'
  <2>1. Pending' = Pending /\ UNCHANGED <<lastRead, batch>> /\ Ends(r, n, step)
    BY <1>2 DEF AtHead, Pending, Ends
  <2> QED BY <1>2, <2>1, OrderStep
<1>3. ASSUME Left(r, n), LogKept, NEW at, AtHead(r, n, at), Pending' = Pending \/ Pending' = Pending \ {n},
             blockedKeys[r] \subseteq blockedKeys'[r],
             n \notin Pending' \/ OrderingKey[Event(n)] \in blockedKeys'[r]
      PROVE  InHand' /\ Waits'
  <2>1. UNCHANGED <<lastRead, batch>> /\ Ends(r, n, "none")
    BY <1>3 DEF AtHead, Ends
  <2> QED BY <1>3, <2>1, OrderStep
<1>4. CASE Begin(r, n)
  <2>1. LogKept /\ AtHead(r, n, "start") /\ UNCHANGED <<idle, blockedKeys>> /\ Pending' = Pending
    BY <1>4, BeginDoes, SameLog DEF Pending
  <2>2. CASE Left(r, n) /\ Blocked(r, n)
    BY <1>3, <2>1, <2>2 DEF Blocked
  <2>3. CASE \E step : Moved(r, n, step)
    BY <1>2, <2>1, <2>3
  <2> QED BY <1>1, <1>4, <2>2, <2>3, BeginDoes
<1>5. CASE Deliver(r, n)
  <2>1. LogKept /\ AtHead(r, n, "deliver") /\ UNCHANGED idle /\ Pending' = Pending
    BY <1>5, DeliverDoes, SameLog DEF Pending
  <2>2. CASE UNCHANGED blockedKeys /\ \E step : Moved(r, n, step)
    BY <1>2, <2>1, <2>2
  <2>3. CASE Left(r, n) /\ blockedKeys' = [blockedKeys EXCEPT ![r] = @ \cup {OrderingKey[Event(n)]}]
    <3>1. blockedKeys'[r] = blockedKeys[r] \cup {OrderingKey[Event(n)]}
      BY <2>3 DEF TypeOK, LoopsOK
    <3> QED BY <1>3, <2>1, <2>3, <3>1
  <2> QED BY <1>5, <2>2, <2>3, DeliverDoes DEF Failed
<1>6. CASE Mark(r, n) \/ Park(r, n)
  <2>1. LogKept /\ UNCHANGED idle /\ Replied(r, n, "ack") /\ \E at : AtHead(r, n, at)
    BY <1>6, MarkDoes, ParkDoes, SameLog
  <2>2. Moved(r, n, "ack") /\ UNCHANGED blockedKeys
    BY <1>1, <2>1 DEF Replied
  <2> QED BY <1>2, <2>1, <2>2
<1>7. CASE Ack(r, n)
  <2>1. /\ LogKept /\ AtHead(r, n, "ack") /\ Left(r, n)
        /\ Pending' = Pending \ {n} /\ UNCHANGED blockedKeys
    BY <1>1, <1>7, AckDoes, SameLog
  <2> QED BY <1>3, <2>1
<1>8. CASE CommandLost(r, n)
  BY <1>1, <1>8, CommandLostDoes
<1> QED BY <1>4, <1>5, <1>6, <1>7, <1>8 DEF ChainStep

\* Outside the chains: what is read is in a batch, and settled stays settled.
LEMMA QuietOrder ==
  ASSUME OneRouter, TypeOK, TypeOK', ChainsOK, InHand, Waits, LogKept, NEW r \in Routers,
         UNCHANGED <<task, blockedKeys>>, lastRead <= lastRead',
         \A n \in Pending' :
           \/ n \in Pending /\ n \notin batch[r]
           \/ n \in batch'[r] /\ (n \in Pending \/ n > lastRead)
  PROVE  InHand' /\ Waits'
<1>0. /\ InFlight(r) \subseteq Ids /\ Ids \subseteq Nat /\ Pending \subseteq Ids
      /\ \A q \in Routers : q = r
      /\ lastRead' \in Nat /\ InFlight(r)' = InFlight(r)
  BY InFlightIds DEF OneRouter, TypeOK, StreamsOK, Stream, Ids, InFlight
<1>1. \A m \in Ids : Event(m)' = Event(m)
  BY DEF LogKept
<1>2. ASSUME NEW q \in Routers, NEW m \in Pending'
      PROVE  m \in (InFlight(q) \cup batch[q])' \/ OrderingKey[Event(m)'] \in blockedKeys'[q]
  <2>1. q = r
    BY <1>0
  <2>2. CASE m \in batch'[r]
    BY <2>1, <2>2
  <2>3. CASE m \notin batch'[r]
    <3>1. m \in Pending /\ m \notin batch[r] /\ Event(m)' = Event(m)
      BY <1>0, <1>1, <1>2, <2>3
    <3> QED BY <1>0, <2>1, <3>1 DEF InHand
  <2> QED BY <2>2, <2>3
<1>3. ASSUME NEW q \in Routers, NEW x \in InFlight(q)', NEW m \in Stream',
             m < x, OrderingKey[Event(m)'] = OrderingKey[Event(x)']
      PROVE  Settled(m)' \/ m \in task'[q][x].ahead \/ OrderingKey[Event(m)'] \in blockedKeys'[q]
  <2>1. q = r /\ x \in InFlight(r) /\ x \in Nat /\ x \in Ids
    BY <1>0, <1>3
  <2>2. m \in Stream /\ m \in Ids /\ m \in Nat
    <3>1. CASE m \in Stream
      BY <1>0, <3>1 DEF Stream
    <3>2. CASE m \notin Stream
      <4>1. \A y \in Ids : y < m
        BY <3>2 DEF LogKept
      <4>2. Stream' \subseteq Int
        BY DEF Stream, Ids, TypeOK, StreamsOK
      <4> QED BY <1>3, <2>1, <4>1, <4>2
    <3> QED BY <3>1, <3>2
  <2>3. Event(m)' = Event(m) /\ Event(x)' = Event(x)
    BY <1>1, <2>1, <2>2
  <2>4. Settled(m) \/ m \in task[r][x].ahead \/ OrderingKey[Event(m)] \in blockedKeys[r]
    BY <1>3, <2>1, <2>2, <2>3 DEF Waits
  <2>5. Settled(m) => Settled(m)'
    BY <1>0, <2>2, SettledKept
  <2> QED BY <2>1, <2>3, <2>4, <2>5
<1> QED BY <1>2, <1>3 DEF InHand, Waits

LEMMA LoopOrder ==
  ASSUME OneRouter, TypeOK, TypeOK', ChainsOK, InHand, Waits, Ordering # "none",
         NEW r \in Routers, LoopStep(r)
  PROVE  InHand' /\ Waits'
<1>0. lastRead \in Nat /\ Pending \subseteq Nat /\ \A q \in Routers : q = r
  BY InFlightIds DEF OneRouter
<1>1. CASE Claim(r)
  <2>1. batch[r] = {}
    BY <1>1 DEF Claim, ChainsOK, Batches
  <2>2. UNCHANGED <<log, lastRead, task, blockedKeys>> /\ Pending' = Pending
    BY <1>1 DEF Claim, Pending
  <2> QED BY <1>0, <2>1, <2>2, QuietOrder, SameLog
<1>2. CASE Read(r)
  <2> DEFINE S == FirstOf(Unread)
  <2>1. batch[r] = {}
    BY <1>2 DEF Read, ChainsOK, Batches
  <2>2. /\ UNCHANGED <<log, task, blockedKeys>>
        /\ Pending' = Pending \cup S /\ batch'[r] = S
        /\ lastRead' = lastRead \/ lastRead' \in S
    BY <1>2 DEF Read, Pending, TypeOK, LoopsOK
  <2>3. \A n \in S : n \in Nat /\ n > lastRead
    BY FirstOfSubset, InFlightIds DEF Unread, Stream
  <2> HIDE DEF S
  <2>4. lastRead <= lastRead'
    BY <1>0, <2>2, <2>3
  <2> QED BY <2>1, <2>2, <2>3, <2>4, QuietOrder, SameLog
<1>3. CASE Enqueue(r)
  <2>1. LogKept /\ UNCHANGED <<log, lastRead, idle, blockedKeys>> /\ Pending' = Pending
    BY <1>3, SameLog DEF Enqueue, streams, Pending
  <2>2. EnqueueDoes(r)
    BY <1>3, EnqueueTasks
  <2>3. \A m \in Ids : Event(m)' = Event(m)
    BY <2>1 DEF LogKept
  <2>4. InHand'
    BY <1>0, <2>1, <2>2, <2>3, InFlightIds DEF InHand, EnqueueDoes
  <2>5. ASSUME NEW x \in InFlight(r)', NEW m \in Stream, m < x,
               OrderingKey[Event(m)] = OrderingKey[Event(x)]
        PROVE  Settled(m) \/ m \in task'[r][x].ahead \/ OrderingKey[Event(m)] \in blockedKeys[r]
    <3>1. CASE x \in InFlight(r)
      BY <2>2, <2>5, <3>1 DEF EnqueueDoes, Waits
    <3>2. CASE x \notin InFlight(r)
      <4>1. /\ x \in batch[r] /\ x <= lastRead /\ x \in Nat /\ m \in Nat
            /\ task'[r][x] = NewTask(r, x)
        BY <2>2, <3>2, InFlightIds DEF EnqueueDoes, ChainsOK, Batches, Stream
      <4>2. m <= lastRead
        BY <1>0, <2>5, <4>1
      <4>3. CASE m \notin Pending
        BY <4>2, <4>3 DEF Settled
      <4>4. CASE m \in InFlight(r) \cup batch[r]
        BY <2>5, <4>1, <4>4 DEF NewTask, ChainKey
      <4> QED BY <4>3, <4>4 DEF InHand
    <3> QED BY <3>1, <3>2
  <2>6. Waits'
    <3> SUFFICES ASSUME NEW q \in Routers, NEW x \in InFlight(q)', NEW m \in Stream',
                        m < x, OrderingKey[Event(m)'] = OrderingKey[Event(x)']
                 PROVE  \/ Settled(m)' \/ m \in task'[q][x].ahead
                        \/ OrderingKey[Event(m)'] \in blockedKeys'[q]
      BY DEF Waits
    <3>1. q = r /\ Stream' = Stream /\ (Settled(m)' <=> Settled(m))
      BY <1>0, <2>1 DEF Stream, Ids, Settled
    <3>2. x \in Ids /\ m \in Ids
      BY <2>1, <2>2, <3>1, InFlightIds DEF EnqueueDoes, Stream
    <3> QED BY <2>1, <2>3, <2>5, <3>1, <3>2
  <2> QED BY <2>4, <2>6
<1> QED BY <1>1, <1>2, <1>3 DEF LoopStep

LEMMA FaultsGrow ==
  ASSUME TypeOK, [Next]_vars
  PROVE  faults' = faults \/ faults' = faults + 1
<1>1. CASE Tick \/ \E e \in Events : Publish(e) \/ Expire(e)
  BY <1>1 DEF Tick, Publish, Expire, bounds, Fault
<1>2. ASSUME NEW r \in Routers,
             \/ Start(r) \/ Crash(r) \/ LoopStep(r) \/ LoopFails(r)
             \/ ReplayRequest(r) \/ ReplayStep(r) \/ ReplayFails(r)
      PROVE  faults' = faults \/ faults' = faults + 1
  BY <1>2 DEF Start, Crash, LoopStep, Claim, Read, Enqueue, LoopFails, ReplayRequest,
     ReplayStep, ReplayAdd, ReplayDel, ReplayFails, bounds, Fault
<1>3. ASSUME NEW r \in Routers, NEW n \in InFlight(r), ChainStep(r, n) \/ CommandLost(r, n)
      PROVE  faults' = faults \/ faults' = faults + 1
  BY <1>3, BeginDoes, DeliverDoes, MarkDoes, ParkDoes, AckDoes, CommandLostDoes
     DEF ChainStep, Replied
<1>4. CASE UNCHANGED vars
  BY <1>4 DEF vars, bounds
<1> QED BY <1>1, <1>2, <1>3, <1>4 DEF Next

LEMMA NextOrder ==
  ASSUME OneRouter, TypeOK, TypeOK', ChainsOK, InOrder, [Next]_vars
  PROVE  InOrder'
<1> SUFFICES ASSUME Ordering # "none", faults' = 0 PROVE InHand' /\ Waits'
  BY DEF InOrder
<1>0. lastRead \in Nat /\ faults = 0
  BY FaultsGrow, ConstantsAssumption DEF TypeOK, CountsOK, StreamsOK, Stream, Ids
<1>1. InHand /\ Waits /\ \A kind : ~Fault(kind)
  BY <1>0 DEF InOrder, Fault
<1>2. ASSUME LogKept, Pending' = Pending, UNCHANGED <<lastRead, batch, task, blockedKeys>>
      PROVE  InHand' /\ Waits'
  <2>1. CASE Routers = {}
    BY <2>1 DEF InHand, Waits
  <2>2. ASSUME NEW r \in Routers PROVE InHand' /\ Waits'
    <3>1. \A n \in Pending' :
             \/ n \in Pending /\ n \notin batch[r]
             \/ n \in batch'[r] /\ (n \in Pending \/ n > lastRead)
      BY <1>2
    <3>2. lastRead <= lastRead'
      BY <1>0, <1>2
    <3> QED BY <1>1, <1>2, <3>1, <3>2, QuietOrder
  <2> QED BY <2>1, <2>2
<1>3. CASE Tick
  BY <1>2, <1>3, SameLog DEF Tick, loopVars, Pending
<1>4. ASSUME NEW e \in Events, Publish(e) \/ Expire(e) PROVE InHand' /\ Waits'
  <2>1. Publish(e)
    BY <1>1, <1>4 DEF Expire
  <2>2. PICK rec : rec = [at |-> "stream", event |-> e]
    OBVIOUS
  <2>3. rec \in Entry /\ log' = Append(log, rec)
    BY <2>1, <2>2 DEF Publish, Entry
  <2> QED BY <1>2, <2>1, <2>3, AppendLog DEF Publish, loopVars, Pending
<1>5. ASSUME NEW r \in Routers, Start(r) \/ ReplayRequest(r) \/ ReplayDel(r)
      PROVE  InHand' /\ Waits'
  BY <1>2, <1>5, SameLog DEF Start, ReplayRequest, ReplayDel, streams, loopVars, Pending
<1>6. ASSUME NEW r \in Routers, ReplayAdd(r) PROVE InHand' /\ Waits'
  <2>0. PICK d \in replay[r].rows : log' = Append(log, [at |-> "stream", event |-> Event(d)])
    BY <1>6 DEF ReplayAdd
  <2>1. PICK rec : rec = [at |-> "stream", event |-> Event(d)]
    OBVIOUS
  <2>2. rec \in Entry
    BY <2>1, IdsFacts DEF TypeOK, StreamsOK, ReplaysOK, Entry
  <2> QED BY <1>2, <1>6, <2>0, <2>1, <2>2, AppendLog DEF ReplayAdd, loopVars, Pending
<1>7. ASSUME NEW r \in Routers, Crash(r) \/ LoopFails(r) \/ ReplayFails(r)
      PROVE  InHand' /\ Waits'
  BY <1>1, <1>7 DEF Crash, LoopFails, ReplayFails
<1>8. ASSUME NEW r \in Routers, LoopStep(r) PROVE InHand' /\ Waits'
  BY <1>1, <1>8, LoopOrder
<1>9. ASSUME NEW r \in Routers, NEW n \in InFlight(r), ChainStep(r, n) \/ CommandLost(r, n)
      PROVE  InHand' /\ Waits'
  BY <1>0, <1>1, <1>9, ChainStepOrder
<1>10. CASE UNCHANGED vars
  BY <1>2, <1>10, SameLog DEF vars, streams, loopVars, Pending
<1> QED BY <1>3, <1>4, <1>5, <1>6, <1>7, <1>8, <1>9, <1>10 DEF Next, ReplayStep

LEMMA InitOrder == Init => InOrder
BY DEF Init, InOrder, InHand, Waits, InFlight, Pending

LEMMA OrderIsFifo == ChainsOK /\ InOrder => FifoUnlessFault
<1> SUFFICES ASSUME ChainsOK, InOrder, faults = 0, Ordering # "none",
                    NEW r \in Routers, NEW n \in InFlight(r), At(r, n, "deliver"),
                    NEW m \in Stream, m < n,
                    OrderingKey[Event(m)] = OrderingKey[Event(n)]
             PROVE  Settled(m)
  BY DEF FifoUnlessFault, SameKeyFifo
<1>1. task[r][n].ahead = {} /\ task[r][n].step = "deliver"
  BY DEF At
<1>2. OrderingKey[Event(n)] \notin blockedKeys[r]
  BY <1>1 DEF ChainsOK, Keys
<1> QED BY <1>1, <1>2 DEF InOrder, Waits

\* "The worker preserves same-key FIFO" of a sole process until its first
\* failure, under either policy, however reclaims, retries, dead letters and
\* replays mix: an entry is attempted when all earlier ones of its key are
\* settled.
THEOREM FifoKept == ASSUME OneRouter PROVE Spec => []FifoUnlessFault
<1>1. TypeOK /\ TypeOK' /\ ChainsOK /\ InOrder /\ [Next]_vars => InOrder'
  BY NextOrder
<1> QED BY <1>1, InitOrder, TypeCorrect, ChainsKept, OrderIsFifo, PTL DEF Spec
=============================================================================
