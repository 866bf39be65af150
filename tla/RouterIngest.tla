---------------------------- MODULE RouterIngest ----------------------------
(***************************************************************************)
(* How events enter the router: a producer's POST /v1/events, the shared   *)
(* webhook gateway POST /v1/hooks and the connection gateway POST          *)
(* /v1/connect, each of these two with its replay guard in memory, and     *)
(* fanOut over the edges, in their order, one await after the other.       *)
(*                                                                         *)
(* Requests run concurrently.  Two requests may carry one delivery: the    *)
(* sender repeats what was not accepted, or its redelivery is asked for.   *)
(***************************************************************************)
EXTENDS Naturals, FiniteSets

CONSTANTS
  Requests,     \* the requests that may arrive
  Delivery,     \* [Requests -> the provider's delivery id or signature]
  NEdges,       \* the event's compiled edges are 1..NEdges, in their order
  Mode,         \* [1..NEdges -> "queued", "direct" or "filtered"]
  SeenMax,      \* how many keys a replay guard holds before it is cleared
  Faults, MaxFaults

Deliveries == {Delivery[q] : q \in Requests}
Edges      == 1..NEdges

ASSUME IngestAssumption ==
  /\ DOMAIN Delivery = Requests
  /\ NEdges \in Nat /\ Mode \in [Edges -> {"queued", "direct", "filtered"}]
  /\ SeenMax \in Nat \ {0}
  /\ Faults \subseteq {"crash", "redis", "unreachable"} /\ MaxFaults \in Nat

VARIABLES
  \* What arrives and how the router is deployed; these never change.
  path,            \* [delivery -> "events", "hooks" or "connect"]
  good,            \* the deliveries that parse, are accepted and match a route
  durable,         \* is a Redis configured
  \* The router.
  seenSignatures,  \* memory: the hook gateway's replay keys
  seenDeliveries,  \* memory: the connection gateway's
  at,              \* where each request is, or its answer
  edge,            \* the edge a request's fanOut is at
  tried,           \* the edges it attempted
  carried,         \* how often an edge took a delivery over
  forwarded,       \* how often a connection's agent got a delivery, if only to refuse it
  wipes,           \* how often a guard lost its memory
  outages,         \* how often Redis or an agent did not answer
  crashes

guards == <<seenSignatures, seenDeliveries, wipes>>
fan    == <<edge, tried, carried>>
input  == <<path, good, durable>>
faults == <<outages, crashes>>
vars   == <<input, guards, at, fan, forwarded, faults>>

Init ==
  /\ path \in [Deliveries -> {"events", "hooks", "connect"}]
  /\ good \in SUBSET Deliveries /\ durable \in BOOLEAN
  /\ seenSignatures = {} /\ seenDeliveries = {} /\ wipes = 0
  /\ at = [q \in Requests |-> "unsent"]
  /\ edge = [q \in Requests |-> 1]
  /\ tried = [q \in Requests |-> {}]
  /\ carried = [e \in Edges |-> [d \in Deliveries |-> 0]]
  /\ forwarded = [d \in Deliveries |-> 0]
  /\ outages = 0 /\ crashes = 0

MayFail(kind) == kind \in Faults /\ outages + crashes < MaxFaults

Outage(kind) == MayFail(kind) /\ outages' = outages + 1 /\ UNCHANGED crashes

Answer(q, status) == at' = [at EXCEPT ![q] = status]

\* Mutant: the key is the binding's, not the delivery's.
ReplayKeyOfBinding(d) == path[d]

\* `${input.id}:${delivery id or signature}`
ReplayKey(d) == d

-----------------------------------------------------------------------------
\* The handler up to its first await, one action per path.

PostEvent(q) ==
  /\ at[q] = "unsent" /\ path[Delivery[q]] = "events"
  /\ Answer(q, IF Delivery[q] \in good THEN "fanout" ELSE "400")
  /\ UNCHANGED <<input, guards, fan, forwarded, faults>>

\* Mutant: the guard is asked and never told.
PostHookForgetting(q) ==
  /\ at[q] = "unsent" /\ path[Delivery[q]] = "hooks"
  /\ Answer(q, IF Delivery[q] \in good THEN "fanout" ELSE "422")
  /\ UNCHANGED <<input, guards, fan, forwarded, faults>>

PostHook(q) ==
  /\ at[q] = "unsent" /\ path[Delivery[q]] = "hooks"
  /\ LET key == ReplayKey(Delivery[q]) IN
     \/ /\ key \in seenSignatures
        /\ Answer(q, "409") /\ UNCHANGED guards
     \/ /\ key \notin seenSignatures
        /\ Answer(q, IF Delivery[q] \in good THEN "fanout" ELSE "422")
        /\ \/ /\ Cardinality(seenSignatures) < SeenMax
              /\ seenSignatures' = seenSignatures \cup {key} /\ UNCHANGED wipes
           \/ /\ Cardinality(seenSignatures) = SeenMax
              /\ seenSignatures' = {} /\ wipes' = wipes + 1
        /\ UNCHANGED seenDeliveries
  /\ UNCHANGED <<input, fan, forwarded, faults>>

\* rememberDelivery clears a full guard before it adds.
PostConnect(q) ==
  /\ at[q] = "unsent" /\ path[Delivery[q]] = "connect"
  /\ LET key == ReplayKey(Delivery[q]) IN
     \/ /\ key \in seenDeliveries
        /\ Answer(q, "409") /\ UNCHANGED guards
     \/ /\ key \notin seenDeliveries
        /\ Answer(q, IF Delivery[q] \in good THEN "forward" ELSE "422")
        /\ \/ /\ Cardinality(seenDeliveries) < SeenMax
              /\ seenDeliveries' = seenDeliveries \cup {key} /\ UNCHANGED wipes
           \/ /\ Cardinality(seenDeliveries) = SeenMax
              /\ seenDeliveries' = {key} /\ wipes' = wipes + 1
        /\ UNCHANGED seenSignatures
  /\ UNCHANGED <<input, fan, forwarded, faults>>

\* The synchronous forward: the agent's answer, a refusal or an error of its
\* own included, goes back to the provider as it is.
Forward(q) ==
  /\ at[q] = "forward"
  /\ \/ /\ forwarded' = [forwarded EXCEPT ![Delivery[q]] = @ + 1]
        /\ \E status \in {"200", "upstream"} : Answer(q, status)
        /\ UNCHANGED faults
     \/ /\ Outage("unreachable") /\ Answer(q, "502")
        /\ \/ UNCHANGED forwarded
           \/ forwarded' = [forwarded EXCEPT ![Delivery[q]] = @ + 1]
  /\ UNCHANGED <<input, guards, fan>>

-----------------------------------------------------------------------------
(* fanOut *)

At(q, e) == at[q] = "fanout" /\ edge[q] = e /\ e \in Edges

Queued(e) == Mode[e] = "queued" /\ durable

NextEdge(q) == edge' = [edge EXCEPT ![q] = @ + 1]

Carry(q) == carried' = [carried EXCEPT ![edge[q]][Delivery[q]] = @ + 1]

Try(q) == tried' = [tried EXCEPT ![q] = @ \cup {edge[q]}]

Skip(q) ==
  /\ \E e \in Edges : At(q, e) /\ Mode[e] = "filtered"
  /\ NextEdge(q)
  /\ UNCHANGED <<input, guards, at, tried, carried, forwarded, faults>>

\* Mutant: a rejected XADD is passed over like a failed direct delivery.
EnqueueTolerant(q) ==
  /\ \E e \in Edges : At(q, e) /\ Queued(e)
  /\ NextEdge(q) /\ Try(q)
  /\ \/ Carry(q) /\ UNCHANGED faults
     \/ Outage("redis") /\ UNCHANGED carried
  /\ UNCHANGED <<input, guards, at, forwarded>>

\* XADD; when it throws so does fanOut, and the request is answered 500,
\* whether Redis carried the command out or not.
Enqueue(q) ==
  /\ \E e \in Edges : At(q, e) /\ Queued(e)
  /\ Try(q)
  /\ \/ Carry(q) /\ NextEdge(q) /\ UNCHANGED <<at, faults>>
     \/ /\ Outage("redis") /\ Answer(q, "500") /\ UNCHANGED edge
        /\ Carry(q) \/ UNCHANGED carried
  /\ UNCHANGED <<input, guards, forwarded>>

\* Mutant: a failed delivery ends the fan-out.
AttemptStopping(q) ==
  /\ \E e \in Edges : At(q, e) /\ Mode[e] # "filtered" /\ ~Queued(e)
  /\ Try(q)
  /\ \/ Carry(q) /\ NextEdge(q) /\ UNCHANGED at
     \/ Answer(q, "500") /\ UNCHANGED <<carried, edge>>
  /\ UNCHANGED <<input, guards, forwarded, faults>>

\* attemptDelivery never throws: a failed receipt, and on to the next edge.
Attempt(q) ==
  /\ \E e \in Edges : At(q, e) /\ Mode[e] # "filtered" /\ ~Queued(e)
  /\ NextEdge(q) /\ Try(q)
  /\ Carry(q) \/ UNCHANGED carried
  /\ UNCHANGED <<input, guards, at, forwarded, faults>>

Accept(q) ==
  /\ at[q] = "fanout" /\ edge[q] > NEdges
  /\ Answer(q, "202")
  /\ UNCHANGED <<input, guards, fan, forwarded, faults>>

\* The pod ends: the guards are empty again and open requests unanswered.
Crash ==
  /\ MayFail("crash") /\ crashes' = crashes + 1
  /\ seenSignatures' = {} /\ seenDeliveries' = {} /\ wipes' = wipes + 1
  /\ at' = [q \in Requests |-> IF at[q] \in {"fanout", "forward"} THEN "none" ELSE at[q]]
  /\ UNCHANGED <<input, fan, forwarded, outages>>

Next ==
  \/ Crash
  \/ \E q \in Requests :
       \/ PostEvent(q) \/ PostHook(q) \/ PostConnect(q) \/ Forward(q)
       \/ Skip(q) \/ Enqueue(q) \/ Attempt(q) \/ Accept(q)

Spec == Init /\ [][Next]_vars

-----------------------------------------------------------------------------
Answers == {"200", "202", "400", "409", "422", "500", "502", "upstream", "none"}

TypeOK ==
  /\ seenSignatures \subseteq Deliveries /\ seenDeliveries \subseteq Deliveries
  /\ Cardinality(seenSignatures) <= SeenMax /\ Cardinality(seenDeliveries) <= SeenMax
  /\ at \in [Requests -> {"unsent", "fanout", "forward"} \cup Answers]
  /\ edge \in [Requests -> 1..NEdges + 1] /\ tried \in [Requests -> SUBSET Edges]
  /\ carried \in [Edges -> [Deliveries -> Nat]] /\ forwarded \in [Deliveries -> Nat]
  /\ path \in [Deliveries -> {"events", "hooks", "connect"}]
  /\ good \subseteq Deliveries /\ durable \in BOOLEAN
  /\ wipes \in Nat /\ outages \in Nat /\ crashes \in Nat
  /\ outages + crashes <= MaxFaults

\* "Durable acceptance: the publish succeeds only once XADD returns": 202
\* means that every queued edge holds the event.
AcceptedEverywhere ==
  \A q \in Requests : at[q] = "202" =>
    \A e \in Edges : Queued(e) => carried[e][Delivery[q]] > 0

\* "an already-seen signature is a replay": a delivery guarded in memory is
\* taken over once, concurrent repeats included, unless a guard lost its memory.
GuardedOnce ==
  \A d \in Deliveries :
    /\ path[d] = "hooks" => \A e \in Edges : carried[e][d] <= 1 + wipes
    /\ path[d] = "connect" => forwarded[d] <= 1 + wipes

\* "Every edge is INDEPENDENT: a failure on one never blocks another": an
\* answered fan-out tried every edge that was not filtered.
EdgesIndependent ==
  \A q \in Requests : at[q] \in {"202", "500"} =>
    tried[q] = {e \in Edges : Mode[e] # "filtered"}

\* As far as the code goes: failing deliveries stop nothing, only Redis does.
EdgesKept == outages = 0 => EdgesIndependent

\* "An already-seen signature is a replay": a delivery that would be taken is
\* turned away only while, or after, another request of the same delivery got
\* past the guard.  That one may have been answered an error since, by the
\* fan-out (500), for an agent out of reach (502) or by the agent itself
\* (upstream): the guards remember before anything is carried, and the
\* redelivery of what failed is turned away too.
ReplayWasAdmitted ==
  \A q \in Requests : at[q] = "409" /\ Delivery[q] \in good =>
    \E p \in Requests :
      /\ Delivery[p] = Delivery[q]
      /\ at[p] \in {"fanout", "forward", "200", "202", "500", "502", "upstream", "none"}
=============================================================================
