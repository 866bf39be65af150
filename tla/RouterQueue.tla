----------------------------- MODULE RouterQueue -----------------------------
(***************************************************************************)
(* One queued edge of the event router: the Redis stream with its consumer *)
(* group, the worker loop that claims and reads entries, the per-key       *)
(* promise chains that process them, retries, the poison policies, the     *)
(* done marker, the dead-letter stream and its replay.                     *)
(*                                                                         *)
(* What lives in Redis survives a router; what lives in the process dies   *)
(* with it.  Several routers may overlap (the Deployment rolls with the    *)
(* default strategy, and every pod consumes under the same name).  Redis   *)
(* may reject a command or lose its reply, or leave it unsettled for ever, *)
(* and a destination's answer may be lost after its effect.                *)
(***************************************************************************)
EXTENDS Naturals, Sequences, FiniteSets

CONSTANTS
  Events,       \* the events published on the edge (envelope ids)
  OrderingKey,  \* [Events -> key]: envelope.hermes.orderingKey ?? envelope.id
  Routers,      \* the router processes that may run at the same time
  Ordering,     \* "none", or the FIFO edge's onFailure policy
  MaxAttempts,  \* edge.delivery.retry.maxAttempts
  Count,        \* COUNT of XAUTOCLAIM and XREADGROUP
  MinIdle,      \* clock ticks after which a pending entry may be claimed
  Faults,       \* the kinds of failure that may happen
  MaxFaults,    \* how many of them, all kinds together
  MaxReplays    \* how many dead-letter replays an operator asks for

FaultKinds == {"crash", "redis", "hang", "response", "expire"}

ASSUME ConstantsAssumption ==
  /\ DOMAIN OrderingKey = Events
  /\ Ordering \in {"none", "block", "dead-letter-and-continue"}
  /\ MaxAttempts \in Nat \ {0}
  /\ Count \in Nat \ {0}
  /\ MinIdle \in Nat
  /\ Faults \subseteq FaultKinds
  /\ MaxFaults \in Nat
  /\ MaxReplays \in Nat

VARIABLES
  \* Redis: the two streams share one log, an XADD's id is its position.
  log,          \* sequence of [at : {"stream", "dlq"}, event]
  lastRead,     \* the consumer group's last-delivered id
  idle,         \* the pending entries list: entry -> clock ticks idle
  dlq,          \* the dead-letter rows that were not deleted
  done,         \* the events whose done marker is set
  \* The router processes.
  up,           \* is the process running
  loop,         \* where workerLoop is
  batch,        \* the entries of a reply the loop has not handled
  claimCursor,  \* XAUTOCLAIM's cursor, 0 for "0-0"
  blockedKeys,  \* ordering keys stopped behind a poison entry
  task,         \* the entries in flight: their place in the chain, their step
  replay,       \* the rows a /v1/dlq/replay request still has to move
  \* Observed by the properties, and the bounds.
  effects,      \* how many times the destination carried an event out
  faults, replays

streams   == <<log, lastRead, idle, dlq, done>>
loopVars  == <<loop, batch, claimCursor>>
bounds    == <<faults, replays>>
vars == <<streams, up, loopVars, blockedKeys, task, replay, effects, bounds>>

-----------------------------------------------------------------------------
Ids       == DOMAIN log
Stream    == {n \in Ids : log[n].at = "stream"}
Pending   == DOMAIN idle
Unread    == {n \in Stream : n > lastRead}
InFlight(r) == DOMAIN task[r]
Event(n)  == log[n].event

\* The promise chain an entry joins: its key under FIFO, itself without.
ChainKey(n) == IF Ordering = "none" THEN Event(n) ELSE OrderingKey[Event(n)]

ChainKeys == IF Ordering = "none" THEN Events ELSE {OrderingKey[e] : e \in Events}

\* The first Count entries of S in id order: what one command returns.
FirstOf(S) == {n \in S : Cardinality({m \in S : m < n}) < Count}

Without(f, n) == [m \in DOMAIN f \ {n} |-> f[m]]

NoReplay == [rows |-> {}, step |-> "add"]

Init ==
  /\ log = <<>> /\ lastRead = 0 /\ dlq = {} /\ done = {}
  /\ idle = [n \in {} |-> 0]
  /\ up = [r \in Routers |-> FALSE]
  /\ loop = [r \in Routers |-> "claim"]
  /\ batch = [r \in Routers |-> {}]
  /\ claimCursor = [r \in Routers |-> 0]
  /\ blockedKeys = [r \in Routers |-> {}]
  /\ task = [r \in Routers |-> [n \in {} |-> 0]]
  /\ replay = [r \in Routers |-> NoReplay]
  /\ effects = [e \in Events |-> 0]
  /\ faults = 0 /\ replays = 0

Fault(kind) == kind \in Faults /\ faults < MaxFaults /\ faults' = faults + 1

-----------------------------------------------------------------------------
(* Process life, ingest and time. *)

Start(r) ==
  /\ ~up[r]
  /\ up' = [up EXCEPT ![r] = TRUE]
  /\ UNCHANGED <<streams, loopVars, blockedKeys, task, replay, effects, bounds>>

\* The pod ends, by failure or because a rollout replaced it.
Crash(r) ==
  /\ up[r] /\ Fault("crash")
  /\ up' = [up EXCEPT ![r] = FALSE]
  /\ loop' = [loop EXCEPT ![r] = "claim"]
  /\ batch' = [batch EXCEPT ![r] = {}]
  /\ claimCursor' = [claimCursor EXCEPT ![r] = 0]
  /\ blockedKeys' = [blockedKeys EXCEPT ![r] = {}]
  /\ task' = [task EXCEPT ![r] = [n \in {} |-> 0]]
  /\ replay' = [replay EXCEPT ![r] = NoReplay]
  /\ UNCHANGED <<streams, effects, replays>>

\* fanOut's durable acceptance on this edge.
Publish(e) ==
  /\ \E r \in Routers : up[r]
  /\ \A n \in Ids : Event(n) # e
  /\ log' = Append(log, [at |-> "stream", event |-> e])
  /\ UNCHANGED <<lastRead, idle, dlq, done, up, loopVars, blockedKeys, task,
                 replay, effects, bounds>>

Tick ==
  /\ \E n \in Pending : idle[n] < MinIdle
  /\ idle' = [n \in Pending |-> IF idle[n] < MinIdle THEN idle[n] + 1 ELSE idle[n]]
  /\ UNCHANGED <<log, lastRead, dlq, done, up, loopVars, blockedKeys, task,
                 replay, effects, bounds>>

\* SET ... EX 86400: the done marker outlives its day.
Expire(e) ==
  /\ e \in done /\ Fault("expire")
  /\ done' = done \ {e}
  /\ UNCHANGED <<log, lastRead, idle, dlq, up, loopVars, blockedKeys, task,
                 replay, effects, replays>>

-----------------------------------------------------------------------------
(* workerLoop.  A command runs in Redis in one step and its reply is        *)
(* handled in a later one: the chains run in between.                       *)

\* Mutant: the loop never reclaims what another process left pending.
ClaimNothing(r) ==
  /\ up[r] /\ loop[r] = "claim"
  /\ loop' = [loop EXCEPT ![r] = "claimed"]
  /\ UNCHANGED <<streams, up, batch, claimCursor, blockedKeys, task, replay,
                 effects, bounds>>

Claim(r) ==
  /\ up[r] /\ loop[r] = "claim"
  /\ LET S == FirstOf({n \in Pending : n >= claimCursor[r] /\ idle[n] = MinIdle})
         later == {m \in Pending : \A n \in S : m > n}
     IN /\ batch' = [batch EXCEPT ![r] = S]
        /\ idle' = [n \in Pending |-> IF n \in S THEN 0 ELSE idle[n]]
        /\ \/ /\ Cardinality(S) < Count \/ later = {}
              /\ claimCursor' = [claimCursor EXCEPT ![r] = 0]
           \/ /\ Cardinality(S) = Count
              /\ \E next \in later : /\ \A m \in later : next <= m
                                     /\ claimCursor' = [claimCursor EXCEPT ![r] = next]
  /\ loop' = [loop EXCEPT ![r] = "claimed"]
  /\ UNCHANGED <<log, lastRead, dlq, done, up, blockedKeys, task, replay,
                 effects, bounds>>

\* Mutant: XREADGROUP ... NOACK, nothing enters the pending list.
ReadNoAck(r) ==
  /\ up[r] /\ loop[r] = "read"
  /\ LET S == FirstOf(Unread)
     IN /\ batch' = [batch EXCEPT ![r] = S]
        /\ \/ S = {} /\ UNCHANGED lastRead
           \/ \E last \in S : (\A n \in S : n <= last) /\ lastRead' = last
  /\ loop' = [loop EXCEPT ![r] = "gotten"]
  /\ UNCHANGED <<log, idle, dlq, done, up, claimCursor, blockedKeys, task,
                 replay, effects, bounds>>

Read(r) ==
  /\ up[r] /\ loop[r] = "read"
  /\ LET S == FirstOf(Unread)
     IN /\ batch' = [batch EXCEPT ![r] = S]
        /\ idle' = [n \in Pending \cup S |-> IF n \in S THEN 0 ELSE idle[n]]
        /\ \/ S = {} /\ UNCHANGED lastRead
           \/ \E last \in S : (\A n \in S : n <= last) /\ lastRead' = last
  /\ loop' = [loop EXCEPT ![r] = "gotten"]
  /\ UNCHANGED <<log, dlq, done, up, claimCursor, blockedKeys, task, replay,
                 effects, bounds>>

\* Mutant: the chains do not outlast the reply they were made for.
NewTaskOfReply(r, n) ==
  [ahead |-> {m \in batch[r] : ChainKey(m) = ChainKey(n) /\ m < n},
   step |-> "start", attempt |-> 1]

\* An entry joins the chain of its key behind what is already there.
NewTask(r, n) ==
  [ahead |-> {m \in InFlight(r) \cup batch[r] :
                ChainKey(m) = ChainKey(n) /\ (m \in InFlight(r) \/ m < n)},
   step |-> "start", attempt |-> 1]

\* enqueueOrdered for every entry of the reply, in id order, in one turn.
Enqueue(r) ==
  /\ up[r] /\ loop[r] \in {"claimed", "gotten"}
  /\ task' = [task EXCEPT ![r] =
       [n \in InFlight(r) \cup batch[r] |->
          IF n \in InFlight(r) THEN task[r][n] ELSE NewTask(r, n)]]
  /\ batch' = [batch EXCEPT ![r] = {}]
  /\ loop' = [loop EXCEPT ![r] = IF loop[r] = "claimed" THEN "read" ELSE "claim"]
  /\ UNCHANGED <<streams, up, claimCursor, blockedKeys, replay, effects, bounds>>

\* A command of the loop fails or times out: its reply, if any, is lost.
LoopFails(r) ==
  /\ up[r] /\ Fault("redis")
  /\ loop' = [loop EXCEPT ![r] = "claim"]
  /\ batch' = [batch EXCEPT ![r] = {}]
  /\ claimCursor' = [claimCursor EXCEPT ![r] = 0]
  /\ UNCHANGED <<streams, up, blockedKeys, task, replay, effects, replays>>

-----------------------------------------------------------------------------
(* processMessage, for the entry at the head of its chain. *)

At(r, n, step) ==
  /\ up[r] /\ n \in InFlight(r)
  /\ task[r][n].ahead = {} /\ task[r][n].step = step

GoTo(r, n, step) == task' = [task EXCEPT ![r][n].step = step]

\* The chain's finally: the entry leaves the flight, the next one starts.
Leave(r, n) ==
  task' = [task EXCEPT ![r] =
     [m \in InFlight(r) \ {n} |-> [task[r][m] EXCEPT !.ahead = @ \ {n}]]]

\* A rejected command is caught by the chain; an unsettled one holds it.
NoReply(r, n) ==
  \/ Fault("redis") /\ Leave(r, n)
  \/ Fault("hang") /\ GoTo(r, n, "hung")

Reply(r, n, step) ==
  \/ GoTo(r, n, step) /\ UNCHANGED faults
  \/ NoReply(r, n)

\* Mutant: the blocked group is not looked up.
NeverBlocked(r, n) == FALSE

Blocked(r, n) == Ordering = "block" /\ OrderingKey[Event(n)] \in blockedKeys[r]

\* Mutant: no EXISTS before the attempts.
BeginUnchecked(r, n) ==
  /\ At(r, n, "start")
  /\ \/ Blocked(r, n) /\ Leave(r, n) /\ UNCHANGED faults
     \/ ~Blocked(r, n) /\ Reply(r, n, "deliver")
  /\ UNCHANGED <<streams, up, loopVars, blockedKeys, replay, effects, replays>>

\* Mutant: the marker is claimed (SET NX) before the attempts.
BeginMarking(r, n) ==
  /\ At(r, n, "start") /\ ~Blocked(r, n)
  /\ Reply(r, n, IF Event(n) \in done THEN "ack" ELSE "deliver")
  /\ done' = done \cup {Event(n)}
  /\ UNCHANGED <<log, lastRead, idle, dlq, up, loopVars, blockedKeys, replay,
                 effects, replays>>

\* The blocked-group check, then EXISTS of the done marker.
Begin(r, n) ==
  /\ At(r, n, "start")
  /\ \/ /\ Blocked(r, n)
        /\ Leave(r, n) /\ UNCHANGED faults
     \/ /\ ~Blocked(r, n)
        /\ Reply(r, n, IF Event(n) \in done THEN "ack" ELSE "deliver")
  /\ UNCHANGED <<streams, up, loopVars, blockedKeys, replay, effects, replays>>

\* Mutant: an exhausted entry is acknowledged without a dead letter.
AttemptFailedUnparked(r, n) ==
  /\ IF task[r][n].attempt < MaxAttempts
     THEN task' = [task EXCEPT ![r][n].attempt = @ + 1]
     ELSE GoTo(r, n, "ack")
  /\ UNCHANGED blockedKeys

AttemptFailed(r, n) ==
  \/ /\ task[r][n].attempt < MaxAttempts
     /\ task' = [task EXCEPT ![r][n].attempt = @ + 1]
     /\ UNCHANGED blockedKeys
  \/ /\ task[r][n].attempt = MaxAttempts /\ Ordering = "block"
     /\ blockedKeys' = [blockedKeys EXCEPT ![r] = @ \cup {OrderingKey[Event(n)]}]
     /\ Leave(r, n)
  \/ /\ task[r][n].attempt = MaxAttempts /\ Ordering # "block"
     /\ GoTo(r, n, "park")
     /\ UNCHANGED blockedKeys

\* attemptDelivery: carried out, refused, or carried out with the answer lost.
Deliver(r, n) ==
  /\ At(r, n, "deliver")
  /\ \/ /\ effects' = [effects EXCEPT ![Event(n)] = @ + 1]
        /\ GoTo(r, n, "mark") /\ UNCHANGED <<blockedKeys, faults>>
     \/ /\ AttemptFailed(r, n) /\ UNCHANGED <<effects, faults>>
     \/ /\ Fault("response")
        /\ effects' = [effects EXCEPT ![Event(n)] = @ + 1]
        /\ AttemptFailed(r, n)
  /\ UNCHANGED <<streams, up, loopVars, replay, replays>>

\* SET of the done marker.
Mark(r, n) ==
  /\ At(r, n, "mark")
  /\ done' = done \cup {Event(n)}
  /\ Reply(r, n, "ack")
  /\ UNCHANGED <<log, lastRead, idle, dlq, up, loopVars, blockedKeys, replay,
                 effects, replays>>

\* XADD to the dead-letter stream.
Park(r, n) ==
  /\ At(r, n, "park")
  /\ log' = Append(log, [at |-> "dlq", event |-> Event(n)])
  /\ dlq' = dlq \cup {Len(log) + 1}
  /\ Reply(r, n, "ack")
  /\ UNCHANGED <<lastRead, idle, done, up, loopVars, blockedKeys, replay,
                 effects, replays>>

\* XACK; processMessage returns.
Ack(r, n) ==
  /\ At(r, n, "ack")
  /\ idle' = Without(idle, n)
  /\ \/ Leave(r, n) /\ UNCHANGED faults
     \/ Fault("hang") /\ GoTo(r, n, "hung")
  /\ UNCHANGED <<log, lastRead, dlq, done, up, loopVars, blockedKeys, replay,
                 effects, replays>>

\* A command of processMessage that never reached Redis.
CommandLost(r, n) ==
  /\ \E step \in {"start", "mark", "park", "ack"} : At(r, n, step)
  /\ task[r][n].step = "start" => ~Blocked(r, n)
  /\ NoReply(r, n)
  /\ UNCHANGED <<streams, up, loopVars, blockedKeys, replay, effects, replays>>

-----------------------------------------------------------------------------
(* POST /v1/dlq/replay: XRANGE, then for each row XADD and XDEL. *)

\* Mutant: the rows leave the dead-letter stream as they are read.
ReplayRequestTaking(r) ==
  /\ up[r] /\ replay[r] = NoReplay /\ replays < MaxReplays
  /\ dlq # {} /\ dlq' = {}
  /\ replay' = [replay EXCEPT ![r] = [rows |-> dlq, step |-> "add"]]
  /\ replays' = replays + 1
  /\ UNCHANGED <<log, lastRead, idle, done, up, loopVars, blockedKeys, task,
                 effects, faults>>

ReplayRequest(r) ==
  /\ up[r] /\ replay[r] = NoReplay /\ replays < MaxReplays
  /\ \E rows \in {dlq} \cup {{d \in dlq : Event(d) = e} : e \in Events} :
       rows # {} /\ replay' = [replay EXCEPT ![r] = [rows |-> rows, step |-> "add"]]
  /\ replays' = replays + 1
  /\ UNCHANGED <<streams, up, loopVars, blockedKeys, task, effects, faults>>

FirstRow(r, d) == d \in replay[r].rows /\ \A x \in replay[r].rows : d <= x

ReplayAdd(r) ==
  /\ up[r] /\ replay[r].step = "add"
  /\ \E d \in replay[r].rows :
       /\ FirstRow(r, d)
       /\ log' = Append(log, [at |-> "stream", event |-> Event(d)])
  /\ replay' = [replay EXCEPT ![r].step = "del"]
  /\ UNCHANGED <<lastRead, idle, dlq, done, up, loopVars, blockedKeys, task,
                 effects, bounds>>

ReplayDel(r) ==
  /\ up[r] /\ replay[r].step = "del"
  /\ \E d \in replay[r].rows :
       /\ FirstRow(r, d)
       /\ dlq' = dlq \ {d}
       /\ replay' = [replay EXCEPT ![r] = [rows |-> replay[r].rows \ {d},
                                           step |-> "add"]]
  /\ UNCHANGED <<log, lastRead, idle, done, up, loopVars, blockedKeys, task,
                 effects, bounds>>

\* A rejected command answers 500 and leaves the other rows; XADD applied
\* with its reply lost is ReplayAdd followed by this.
ReplayFails(r) ==
  /\ up[r] /\ replay[r].rows # {} /\ Fault("redis")
  /\ replay' = [replay EXCEPT ![r] = NoReplay]
  /\ UNCHANGED <<streams, up, loopVars, blockedKeys, task, effects, replays>>

-----------------------------------------------------------------------------
LoopStep(r) == Claim(r) \/ Read(r) \/ Enqueue(r)

ChainStep(r, n) ==
  Begin(r, n) \/ Deliver(r, n) \/ Mark(r, n) \/ Park(r, n) \/ Ack(r, n)

ReplayStep(r) == ReplayAdd(r) \/ ReplayDel(r)

Next ==
  \/ Tick
  \/ \E e \in Events : Publish(e) \/ Expire(e)
  \/ \E r \in Routers :
       \/ Start(r) \/ Crash(r)
       \/ LoopStep(r) \/ LoopFails(r)
       \/ ReplayRequest(r) \/ ReplayStep(r) \/ ReplayFails(r)
       \/ \E n \in InFlight(r) : ChainStep(r, n) \/ CommandLost(r, n)

Spec == Init /\ [][Next]_vars

(* The scheduler runs a ready continuation, a timer fires, Kubernetes        *)
(* restarts the pod.  Nothing obliges anyone to publish, replay or fail.     *)
Fairness ==
  /\ WF_vars(Tick)
  /\ \A r \in Routers :
       /\ WF_vars(Start(r)) /\ WF_vars(LoopStep(r)) /\ WF_vars(ReplayStep(r))
       /\ \A k \in ChainKeys :
            WF_vars(\E n \in InFlight(r) : ChainKey(n) = k /\ ChainStep(r, n))

FairSpec == Spec /\ Fairness

-----------------------------------------------------------------------------
(* Properties *)

StepNames == {"start", "deliver", "mark", "park", "ack", "hung"}

Task == [ahead : SUBSET Nat, step : StepNames, attempt : 1..MaxAttempts]

StreamsOK ==
  /\ log \in Seq([at : {"stream", "dlq"}, event : Events])
  /\ lastRead \in {0} \cup Stream
  /\ Pending \subseteq Stream /\ idle \in [Pending -> 0..MinIdle]
  /\ dlq \subseteq Ids \ Stream
  /\ done \subseteq Events

LoopsOK ==
  /\ up \in [Routers -> BOOLEAN]
  /\ loop \in [Routers -> {"claim", "claimed", "read", "gotten"}]
  /\ batch \in [Routers -> SUBSET Stream]
  /\ claimCursor \in [Routers -> Nat]
  /\ blockedKeys \in [Routers -> SUBSET {OrderingKey[e] : e \in Events}]

TasksOK ==
  /\ DOMAIN task = Routers
  /\ \A r \in Routers : /\ InFlight(r) \subseteq Stream
                        /\ task[r] \in [InFlight(r) -> Task]

ReplaysOK == replay \in [Routers -> [rows : SUBSET (Ids \ Stream), step : {"add", "del"}]]

CountsOK ==
  /\ effects \in [Events -> Nat]
  /\ faults \in 0..MaxFaults /\ replays \in 0..MaxReplays

\* Every variable keeps its type; in particular whatever the processes hold
\* (batches, tasks, rows to replay) refers to entries that exist.
TypeOK == StreamsOK /\ LoopsOK /\ TasksOK /\ ReplaysOK /\ CountsOK

\* Where the system still holds an event: unread, pending, or a dead letter.
Live(n) == n \in Unread \cup Pending \cup dlq

\* Durable acceptance: once XADD answered, the event was carried out or is
\* still held somewhere from which it will be delivered or can be replayed,
\* whatever crashed, was lost or overlapped (fanOut's "the worker owns
\* everything after that").
NoEventLost ==
  \A n \in Ids : \/ effects[Event(n)] > 0
                  \/ \E m \in Ids : Event(m) = Event(n) /\ Live(m)

\* An id that may leave the system: its event was carried out, or the same
\* event was added again after it.
Superseded(n) ==
  effects[Event(n)] > 0 \/ \E m \in Ids : m > n /\ Event(m) = Event(n)

\* The done marker never suppresses an event nobody carried out.
DoneMeansDelivered == \A e \in done : effects[e] > 0

IdsHeld == \A n \in Ids : Live(n) \/ Superseded(n)

TasksSound ==
  \A r \in Routers : \A n \in InFlight(r) :
    /\ task[r][n].step = "mark" => effects[Event(n)] > 0
    /\ task[r][n].step = "ack" => Superseded(n)

RowsSound ==
  \A r \in Routers : \A d \in replay[r].rows :
    replay[r].step = "del" /\ FirstRow(r, d) => Superseded(d)

\* Why no event is lost: an entry is acknowledged and a row deleted only
\* once superseded, in whatever order routers, replays and failures act.
Custody == IdsHeld /\ TasksSound /\ RowsSound /\ DoneMeansDelivered

\* At-least-once, and not more often than failures excuse: each repeated
\* effect of an event costs one crash, lost reply or expired marker.
AtMostOncePerFault == \A e \in Events : effects[e] <= 1 + faults

\* "Per-orderingKey serial chains": of the entries of one key (of one event,
\* without an order) that a process holds, read or claimed again in whatever
\* replies, at most one is past its start, also where one failed or hangs.
SerialChains ==
  \A r \in Routers : \A n, m \in InFlight(r) :
    task[r][n].step # "start" /\ task[r][m].step # "start" /\ ChainKey(n) = ChainKey(m)
      => n = m

Settled(n) == n <= lastRead /\ n \notin Pending

\* The worker "preserves same-key FIFO": an entry is attempted only when
\* every earlier entry of its ordering key is settled.
SameKeyFifo ==
  Ordering # "none" =>
    \A r \in Routers : \A n \in InFlight(r) : At(r, n, "deliver") =>
      \A m \in Stream :
         m < n /\ OrderingKey[Event(m)] = OrderingKey[Event(n)] => Settled(m)

\* As far as the code goes: the order holds until the first failure.
FifoUnlessFault == faults = 0 => SameKeyFifo

\* Every accepted event is eventually acknowledged, in every copy.
EventuallySettled ==
  \A e \in Events :
    (\E n \in Ids : Event(n) = e) ~> (\A n \in Stream : Event(n) = e => Settled(n))

\* "XAUTOCLAIM retries the group later": a blocked group is attempted again.
BlockedGroupRetried ==
  \A r \in Routers : \A k \in ChainKeys :
    k \in blockedKeys[r] ~> \E n \in InFlight(r) : ChainKey(n) = k /\ At(r, n, "deliver")

-----------------------------------------------------------------------------
(* What the queue promises for each event, and how its state shows it. *)

Held(e)   == \E n \in Unread \cup Pending : Event(n) = e
Parked(e) == \E d \in dlq : Event(d) = e

EventStatus ==
  [e \in Events |->
     IF effects[e] > 0 THEN "delivered"
     ELSE IF Held(e) THEN "queued"
     ELSE IF Parked(e) THEN "dead"
     ELSE IF \E n \in Ids : Event(n) = e THEN "lost"
     ELSE "absent"]

Lifecycle == INSTANCE EventLifecycle WITH status <- EventStatus

\* Whatever routers, replays and failures do to an event's copies, each step
\* moves one event along its lifecycle, or none.
ImplementsLifecycle == Lifecycle!Spec

ImplementsLiveLifecycle == Lifecycle!FairSpec
=============================================================================
