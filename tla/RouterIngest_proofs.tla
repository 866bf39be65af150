------------------------- MODULE RouterIngest_proofs -------------------------
(***************************************************************************)
(* Theorems about the router's ingest, for any requests, deliveries, edges *)
(* and bounds: acceptance reaches every queued edge, a guard takes a       *)
(* delivery over once per memory, a failing delivery leaves the others     *)
(* alone, and only what was let past before is turned away as a replay.    *)
(***************************************************************************)
EXTENDS RouterIngest, FiniteSetTheorems, TLAPS

Statuses == {"unsent", "fanout", "forward"} \cup Answers

\* What the argument needs of the types.
Typed ==
  /\ at \in [Requests -> Statuses] /\ edge \in [Requests -> 1..NEdges + 1]
  /\ tried \in [Requests -> SUBSET Edges]
  /\ carried \in [Edges -> [Deliveries -> Nat]] /\ forwarded \in [Deliveries -> Nat]
  /\ wipes \in Nat /\ outages \in Nat

\* A request that got past the guard.
Beyond == {"fanout", "forward", "200", "202", "500", "502", "upstream", "none"}

\* How far a fan-out has come, and what it has left behind.
FanInv ==
  \A q \in Requests :
    /\ at[q] = "202" => edge[q] = NEdges + 1
    /\ at[q] \in {"fanout", "202"} =>
         /\ tried[q] = {e \in Edges : e < edge[q] /\ Mode[e] # "filtered"}
         /\ \A e \in Edges : e < edge[q] /\ Queued(e) => carried[e][Delivery[q]] > 0
    /\ at[q] \notin {"fanout", "202", "500", "none"} => tried[q] = {}
    /\ at[q] = "unsent" => edge[q] = 1
    /\ at[q] \in {"500", "502"} => outages > 0

Seen == seenSignatures \cup seenDeliveries

\* What a guard remembers, or has turned away, had been let past.
ReplayInv ==
  /\ \A d \in Seen \cap good : \E p \in Requests : Delivery[p] = d /\ at[p] \in Beyond
  /\ \A q \in Requests : at[q] = "409" /\ Delivery[q] \in good =>
       \E p \in Requests : Delivery[p] = Delivery[q] /\ at[p] \in Beyond

Admitted(d)  == {q \in Requests : Delivery[q] = d /\ at[q] \in Beyond}
Trying(e, d) == {q \in Requests : Delivery[q] = d /\ e \in tried[q]}
Sent(d)      == {q \in Requests : Delivery[q] = d /\ at[q] \in {"200", "502", "upstream"}}

One(b) == IF b THEN 1 ELSE 0

\* A guard lets a delivery past once, and once more for every memory it lost.
GuardInv ==
  \A d \in Deliveries :
    /\ IsFiniteSet(Admitted(d))
    /\ path[d] = "hooks" => Cardinality(Admitted(d)) <= wipes + One(d \in seenSignatures)
    /\ path[d] = "connect" => Cardinality(Admitted(d)) <= wipes + One(d \in seenDeliveries)
    /\ \A e \in Edges : carried[e][d] <= Cardinality(Trying(e, d))
    /\ forwarded[d] <= Cardinality(Sent(d))

IInv == Typed /\ FanInv /\ ReplayInv /\ GuardInv

-----------------------------------------------------------------------------
(* Types *)

LEMMA AnswerFacts ==
  ASSUME Typed, NEW q \in Requests, NEW st \in Statuses, Answer(q, st)
  PROVE  /\ at' \in [Requests -> Statuses] /\ at'[q] = st
         /\ \A p \in Requests : p # q => at'[p] = at[p]
BY DEF Answer, Typed

LEMMA DeliveryFacts == \A q \in Requests : Delivery[q] \in Deliveries
BY DEF Deliveries

LEMMA NextEdgeFacts ==
  ASSUME Typed, NEW q \in Requests, edge[q] \in Edges, NextEdge(q)
  PROVE  /\ edge' \in [Requests -> 1..NEdges + 1] /\ edge'[q] = edge[q] + 1
         /\ \A p \in Requests : p # q => edge'[p] = edge[p]
BY IngestAssumption DEF NextEdge, Typed, Edges

LEMMA TryFacts ==
  ASSUME Typed, NEW q \in Requests, edge[q] \in Edges, Try(q)
  PROVE  /\ tried' \in [Requests -> SUBSET Edges] /\ tried'[q] = tried[q] \cup {edge[q]}
         /\ \A p \in Requests : p # q => tried'[p] = tried[p]
BY DEF Try, Typed

LEMMA CarryFacts ==
  ASSUME Typed, NEW q \in Requests, edge[q] \in Edges, Carry(q)
  PROVE  /\ carried' \in [Edges -> [Deliveries -> Nat]]
         /\ carried'[edge[q]][Delivery[q]] = carried[edge[q]][Delivery[q]] + 1
         /\ \A e \in Edges, d \in Deliveries :
              e # edge[q] \/ d # Delivery[q] => carried'[e][d] = carried[e][d]
<1>1. PICK e \in Edges, d \in Deliveries : e = edge[q] /\ d = Delivery[q]
  BY DeliveryFacts
<1>2. carried' = [carried EXCEPT ![e] = [carried[e] EXCEPT ![d] = carried[e][d] + 1]]
  BY <1>1 DEF Carry
<1>3. carried[e] \in [Deliveries -> Nat]
  BY DEF Typed
<1>4. PICK f : f = [carried[e] EXCEPT ![d] = carried[e][d] + 1]
  OBVIOUS
<1>5. /\ f \in [Deliveries -> Nat] /\ f[d] = carried[e][d] + 1
      /\ \A c \in Deliveries : c # d => f[c] = carried[e][c]
  BY <1>3, <1>4
<1>6. carried' = [carried EXCEPT ![e] = f]
  BY <1>2, <1>4
<1>7. QED
  BY <1>1, <1>5, <1>6 DEF Typed

\* Where a request of the fan-out is.
LEMMA AtFacts ==
  ASSUME NEW q \in Requests, \E e \in Edges : At(q, e)
  PROVE  at[q] = "fanout" /\ edge[q] \in Edges
BY DEF At

LEMMA OutageFacts ==
  ASSUME Typed, NEW kind, Outage(kind) PROVE outages' = outages + 1 /\ outages' \in Nat
BY DEF Outage, Typed

LEMMA TypedStep == Typed /\ [Next]_vars => Typed'
<1> SUFFICES ASSUME Typed, [Next]_vars PROVE Typed'
  OBVIOUS
<1>s. /\ {"fanout", "forward", "unsent"} \subseteq Statuses
      /\ {"200", "202", "400", "409", "422", "500", "502", "upstream", "none"} \subseteq Statuses
  BY DEF Statuses, Answers
<1>1. CASE Crash
  BY <1>1, <1>s DEF Crash, Typed, fan, Statuses, Answers
<1>2. CASE UNCHANGED vars
  BY <1>2 DEF vars, Typed, guards, fan, faults
<1>3. ASSUME NEW q \in Requests, PostEvent(q) \/ PostHook(q) \/ PostConnect(q) PROVE Typed'
  <2>1. \E st \in Statuses : Answer(q, st)
    BY <1>3, <1>s DEF PostEvent, PostHook, PostConnect
  <2>2. wipes' \in Nat
    BY <1>3 DEF PostEvent, PostHook, PostConnect, Typed, guards
  <2>3. UNCHANGED <<fan, forwarded, faults>>
    BY <1>3 DEF PostEvent, PostHook, PostConnect
  <2>4. QED
    BY <2>1, <2>2, <2>3, AnswerFacts DEF Typed, fan, faults
<1>4. ASSUME NEW q \in Requests, Forward(q) PROVE Typed'
  <2>1. \E st \in Statuses : Answer(q, st)
    BY <1>4, <1>s DEF Forward
  <2>2. forwarded' \in {forwarded, [forwarded EXCEPT ![Delivery[q]] = @ + 1]}
    BY <1>4 DEF Forward
  <2>3. outages' \in Nat
    BY <1>4, OutageFacts DEF Forward, faults, Typed
  <2>4. QED
    BY <1>4, <2>1, <2>2, <2>3, AnswerFacts, DeliveryFacts DEF Typed, Forward, guards, fan
<1>5. ASSUME NEW q \in Requests, Skip(q) PROVE Typed'
  BY <1>5, AtFacts, NextEdgeFacts DEF Skip, Typed, guards, faults
<1>6. ASSUME NEW q \in Requests, Enqueue(q) PROVE Typed'
  <2>1. at[q] = "fanout" /\ edge[q] \in Edges
    BY <1>6, AtFacts DEF Enqueue
  <2>2. carried' \in [Edges -> [Deliveries -> Nat]]
    BY <1>6, <2>1, CarryFacts DEF Enqueue, Typed
  <2>3. /\ at' \in [Requests -> Statuses] /\ edge' \in [Requests -> 1..NEdges + 1]
        /\ outages' \in Nat
    BY <1>6, <1>s, <2>1, NextEdgeFacts, AnswerFacts, OutageFacts DEF Enqueue, Typed, faults
  <2>4. QED
    BY <1>6, <2>1, <2>2, <2>3, TryFacts DEF Enqueue, Typed, guards
<1>7. ASSUME NEW q \in Requests, Attempt(q) PROVE Typed'
  <2>1. at[q] = "fanout" /\ edge[q] \in Edges
    BY <1>7, AtFacts DEF Attempt
  <2>2. carried' \in [Edges -> [Deliveries -> Nat]]
    BY <1>7, <2>1, CarryFacts DEF Attempt, Typed
  <2>3. QED
    BY <1>7, <2>1, <2>2, TryFacts, NextEdgeFacts DEF Attempt, Typed, guards, faults
<1>8. ASSUME NEW q \in Requests, Accept(q) PROVE Typed'
  BY <1>8, <1>s, AnswerFacts DEF Accept, Typed, guards, fan, faults
<1>9. QED
  BY <1>1, <1>2, <1>3, <1>4, <1>5, <1>6, <1>7, <1>8 DEF Next

-----------------------------------------------------------------------------
(* The fan-out *)

FanOf(q) ==
  /\ at[q] = "202" => edge[q] = NEdges + 1
  /\ at[q] \in {"fanout", "202"} =>
       /\ tried[q] = {e \in Edges : e < edge[q] /\ Mode[e] # "filtered"}
       /\ \A e \in Edges : e < edge[q] /\ Queued(e) => carried[e][Delivery[q]] > 0
  /\ at[q] \notin {"fanout", "202", "500", "none"} => tried[q] = {}
  /\ at[q] = "unsent" => edge[q] = 1
  /\ at[q] \in {"500", "502"} => outages > 0

LEMMA FanIs == FanInv <=> \A q \in Requests : FanOf(q)
BY DEF FanInv, FanOf

LEMMA FanIsNext == FanInv' <=> \A q \in Requests : FanOf(q)'
BY DEF FanInv, FanOf

\* What is carried stays carried, and an outage is not forgotten.
Counted ==
  /\ durable' = durable /\ outages' \in Nat /\ outages' >= outages
  /\ \A e \in Edges, d \in Deliveries : carried[e][d] > 0 => carried'[e][d] > 0

LEMMA CountedStep == Typed /\ [Next]_vars => Counted
<1> SUFFICES ASSUME Typed, [Next]_vars PROVE Counted
  OBVIOUS
<1>0. \A e \in Edges, d \in Deliveries : carried[e][d] \in Nat
  BY DEF Typed
<1>1. ASSUME NEW q \in Requests, Enqueue(q) \/ Attempt(q) PROVE Counted
  <2>1. edge[q] \in Edges /\ (Carry(q) \/ UNCHANGED carried)
    BY <1>1, AtFacts DEF Enqueue, Attempt
  <2>2. \A e \in Edges, d \in Deliveries : carried[e][d] > 0 => carried'[e][d] > 0
    BY <1>0, <2>1, CarryFacts
  <2>3. outages' \in Nat /\ outages' >= outages /\ durable' = durable
    BY <1>1, OutageFacts DEF Enqueue, Attempt, faults, input, Typed
  <2>4. QED
    BY <2>2, <2>3 DEF Counted
<1>2. ASSUME NEW q \in Requests, Forward(q) PROVE Counted
  BY <1>2, OutageFacts DEF Forward, Counted, fan, input, faults, Typed
<1>3. CASE Crash \/ UNCHANGED vars
           \/ \E q \in Requests : PostEvent(q) \/ PostHook(q) \/ PostConnect(q) \/ Skip(q) \/ Accept(q)
  BY <1>3 DEF Crash, vars, PostEvent, PostHook, PostConnect, Skip, Accept, Counted, fan, input,
     faults, Typed
<1>4. QED
  BY <1>1, <1>2, <1>3 DEF Next

LEMMA OthersFan ==
  ASSUME Typed, NEW q \in Requests, FanOf(q), Counted,
         at'[q] = at[q], edge'[q] = edge[q], tried'[q] = tried[q]
  PROVE  FanOf(q)'
<1>1. \A e \in Edges : Queued(e)' = Queued(e)
  BY DEF Queued, Counted
<1>2. outages' > 0 \/ outages = 0
  BY DEF Counted, Typed
<1>3. \A e \in Edges : carried[e][Delivery[q]] > 0 => carried'[e][Delivery[q]] > 0
  BY DeliveryFacts DEF Counted
<1>4. outages > 0 => outages' > 0
  BY <1>2
<1>5. QED
  BY <1>1, <1>3, <1>4 DEF FanOf

LEMMA FanStep == Typed /\ FanInv /\ [Next]_vars => FanInv'
<1> SUFFICES ASSUME Typed, FanInv, [Next]_vars, NEW p \in Requests PROVE FanOf(p)'
  BY FanIsNext
<1>0. FanOf(p) /\ Counted
  BY FanIs, CountedStep
<1>s. /\ {"fanout", "forward", "unsent"} \subseteq Statuses
      /\ {"200", "202", "400", "409", "422", "500", "502", "upstream", "none"} \subseteq Statuses
  BY DEF Statuses, Answers
<1>q. \A e \in Edges : Queued(e)' = Queued(e)
  BY <1>0 DEF Queued, Counted
<1>k. \A e \in Edges : carried[e][Delivery[p]] > 0 => carried'[e][Delivery[p]] > 0
  BY <1>0, DeliveryFacts DEF Counted
<1>o. outages \in Nat /\ outages' >= outages
  BY <1>0 DEF Counted, Typed
<1>1. CASE Crash
  <2>1. UNCHANGED <<edge, tried, carried, outages>>
    BY <1>1 DEF Crash, fan
  <2>2. at'[p] = IF at[p] \in {"fanout", "forward"} THEN "none" ELSE at[p]
    BY <1>1 DEF Crash
  <2>3. QED
    BY <1>0, <1>q, <2>1, <2>2 DEF FanOf
<1>2. CASE UNCHANGED vars
  BY <1>0, <1>2, OthersFan DEF vars, fan
<1>3. ASSUME NEW q \in Requests, PostEvent(q) \/ PostHook(q) \/ PostConnect(q) PROVE FanOf(p)'
  <2>1. /\ at[q] = "unsent" /\ UNCHANGED <<edge, tried, carried, outages>>
        /\ \E st \in {"fanout", "forward", "400", "409", "422"} : Answer(q, st)
    BY <1>3 DEF PostEvent, PostHook, PostConnect, fan, faults
  <2>2. CASE p # q
    BY <1>0, <1>s, <2>1, <2>2, AnswerFacts, OthersFan
  <2>3. CASE p = q
    <3>1. at'[q] \in {"fanout", "forward", "400", "409", "422"} /\ edge[q] = 1 /\ tried[q] = {}
      BY <1>0, <1>s, <2>1, <2>3, AnswerFacts DEF FanOf
    <3>2. QED
      BY <2>1, <2>3, <3>1 DEF FanOf, Edges
  <2>4. QED
    BY <2>2, <2>3
<1>4. ASSUME NEW q \in Requests, Forward(q) PROVE FanOf(p)'
  <2>1. /\ at[q] = "forward" /\ UNCHANGED <<edge, tried, carried>>
        /\ \/ Answer(q, "200") \/ Answer(q, "upstream")
           \/ Answer(q, "502") /\ outages' = outages + 1
    BY <1>4, OutageFacts DEF Forward, fan
  <2>2. CASE p # q
    BY <1>0, <1>s, <2>1, <2>2, AnswerFacts, OthersFan
  <2>3. CASE p = q
    <3>1. at'[q] \in {"200", "upstream"} \/ (at'[q] = "502" /\ outages' = outages + 1)
      BY <1>s, <2>1, AnswerFacts
    <3>2. QED
      BY <1>0, <1>o, <2>1, <2>3, <3>1 DEF FanOf
  <2>4. QED
    BY <2>2, <2>3
<1>5. ASSUME NEW q \in Requests, Skip(q) PROVE FanOf(p)'
  <2>1. /\ at[q] = "fanout" /\ edge[q] \in Edges /\ NextEdge(q) /\ Mode[edge[q]] = "filtered"
        /\ UNCHANGED <<at, tried, carried, outages>>
    BY <1>5 DEF Skip, At, faults
  <2>2. CASE p # q
    BY <1>0, <2>1, <2>2, NextEdgeFacts, OthersFan
  <2>3. CASE p = q
    <3>1. edge'[p] = edge[p] + 1
      BY <2>1, <2>3, NextEdgeFacts
    <3>2. \A e \in Edges : e < edge'[p] <=> e < edge[p] \/ e = edge[p]
      BY <2>1, <2>3, <3>1 DEF Edges
    <3>3. ~Queued(edge[p])
      BY <2>1, <2>3 DEF Queued
    <3>4. QED
      BY <1>0, <1>q, <2>1, <2>3, <3>2, <3>3 DEF FanOf
  <2>4. QED
    BY <2>2, <2>3
<1>6. ASSUME NEW q \in Requests, Enqueue(q) PROVE FanOf(p)'
  <2>1. /\ at[q] = "fanout" /\ edge[q] \in Edges /\ Try(q) /\ Queued(edge[q])
        /\ \/ Carry(q) /\ NextEdge(q) /\ UNCHANGED at
           \/ Answer(q, "500") /\ UNCHANGED edge /\ outages' = outages + 1
    BY <1>6, OutageFacts DEF Enqueue, At
  <2>2. CASE p # q
    BY <1>0, <1>s, <2>1, <2>2, TryFacts, NextEdgeFacts, AnswerFacts, OthersFan
  <2>3. CASE p = q /\ Carry(q) /\ NextEdge(q) /\ UNCHANGED at
    <3>1. /\ edge'[p] = edge[p] + 1 /\ tried'[p] = tried[p] \cup {edge[p]}
          /\ carried'[edge[p]][Delivery[p]] > 0
      <4>1. carried[edge[p]][Delivery[p]] \in Nat
        BY <2>1, <2>3, DeliveryFacts DEF Typed
      <4>2. QED
        BY <2>1, <2>3, <4>1, NextEdgeFacts, TryFacts, CarryFacts
    <3>2. \A e \in Edges : e < edge'[p] <=> e < edge[p] \/ e = edge[p]
      BY <2>1, <2>3, <3>1 DEF Edges
    <3>3. Mode[edge[p]] # "filtered"
      BY <2>1, <2>3 DEF Queued
    <3>4. QED
      BY <1>0, <1>q, <1>k, <2>1, <2>3, <3>1, <3>2, <3>3 DEF FanOf
  <2>4. CASE p = q /\ Answer(q, "500") /\ outages' = outages + 1
    <3>1. at'[p] = "500" /\ outages' > 0
      BY <1>o, <1>s, <2>4, AnswerFacts
    <3>2. QED
      BY <3>1 DEF FanOf
  <2>5. QED
    BY <2>1, <2>2, <2>3, <2>4
<1>7. ASSUME NEW q \in Requests, Attempt(q) PROVE FanOf(p)'
  <2>1. /\ at[q] = "fanout" /\ edge[q] \in Edges /\ Try(q) /\ NextEdge(q)
        /\ ~Queued(edge[q]) /\ Mode[edge[q]] # "filtered" /\ UNCHANGED at
    BY <1>7 DEF Attempt, At
  <2>2. CASE p # q
    BY <1>0, <2>1, <2>2, TryFacts, NextEdgeFacts, OthersFan
  <2>3. CASE p = q
    <3>1. edge'[p] = edge[p] + 1 /\ tried'[p] = tried[p] \cup {edge[p]}
      BY <2>1, <2>3, NextEdgeFacts, TryFacts
    <3>2. \A e \in Edges : e < edge'[p] <=> e < edge[p] \/ e = edge[p]
      BY <2>1, <2>3, <3>1 DEF Edges
    <3>3. QED
      BY <1>0, <1>q, <1>k, <2>1, <2>3, <3>1, <3>2 DEF FanOf
  <2>4. QED
    BY <2>2, <2>3
<1>8. ASSUME NEW q \in Requests, Accept(q) PROVE FanOf(p)'
  <2>1. /\ at[q] = "fanout" /\ edge[q] > NEdges /\ Answer(q, "202")
        /\ UNCHANGED <<edge, tried, carried, outages>>
    BY <1>8 DEF Accept, fan, faults
  <2>2. CASE p # q
    BY <1>0, <1>s, <2>1, <2>2, AnswerFacts, OthersFan
  <2>3. CASE p = q
    <3>1. at'[p] = "202" /\ edge[p] = NEdges + 1
      <4>1. edge[p] \in 1..NEdges + 1 /\ edge[p] > NEdges /\ NEdges \in Nat
        BY <2>1, <2>3, IngestAssumption DEF Typed
      <4>2. at'[p] = "202"
        BY <1>s, <2>1, <2>3, AnswerFacts
      <4>3. QED
        BY <4>1, <4>2
    <3>2. QED
      BY <1>0, <1>q, <2>1, <2>3, <3>1 DEF FanOf
  <2>4. QED
    BY <2>2, <2>3
<1>9. QED
  BY <1>1, <1>2, <1>3, <1>4, <1>5, <1>6, <1>7, <1>8 DEF Next

-----------------------------------------------------------------------------
(* The guards *)

\* Nobody who got past a guard is ever before it again, and a crash that ends
\* a request lets no one past.
Onward == \A q \in Requests : at[q] \in Beyond => at'[q] \in Beyond

\* How a request may get past.
Passes(q) ==
  /\ at[q] = "unsent" /\ at'[q] \in Beyond /\ Delivery[q] \in good
  /\ path[Delivery[q]] = "hooks" =>
       /\ Delivery[q] \notin seenSignatures
       /\ Delivery[q] \in seenSignatures' \/ wipes' = wipes + 1
  /\ path[Delivery[q]] = "connect" =>
       /\ Delivery[q] \notin seenDeliveries
       /\ Delivery[q] \in seenDeliveries'

\* A guard forgets only by losing all of its memory.
Forgets ==
  \/ /\ wipes' = wipes
     /\ seenSignatures \subseteq seenSignatures' /\ seenDeliveries \subseteq seenDeliveries'
  \/ wipes' = wipes + 1

\* What one step does to the guards: nobody passes, or exactly one does.
GuardMove ==
  /\ Onward /\ Forgets /\ UNCHANGED input
  /\ \/ \A p \in Requests : at'[p] \in Beyond => at[p] \in Beyond
     \/ \E q \in Requests :
          /\ Passes(q)
          /\ \A p \in Requests : p # q => at'[p] = at[p]

LEMMA GuardMoves == Typed /\ [Next]_vars => GuardMove
<1> SUFFICES ASSUME Typed, [Next]_vars PROVE GuardMove
  OBVIOUS
<1> USE DEF Beyond
<1>s. /\ {"fanout", "forward", "unsent"} \subseteq Statuses
      /\ {"200", "202", "400", "409", "422", "500", "502", "upstream", "none"} \subseteq Statuses
  BY DEF Statuses, Answers
<1>1. CASE Crash
  BY <1>1 DEF Crash, GuardMove, Onward, Forgets, input
<1>2. CASE UNCHANGED vars
  BY <1>2 DEF vars, GuardMove, Onward, Forgets, guards
<1>3. ASSUME NEW q \in Requests, PostEvent(q) PROVE GuardMove
  <2>1. /\ at[q] = "unsent" /\ path[Delivery[q]] = "events" /\ UNCHANGED <<input, guards>>
        /\ \/ Answer(q, "fanout") /\ Delivery[q] \in good
           \/ Answer(q, "400")
    BY <1>3 DEF PostEvent
  <2>2. /\ (at'[q] = "fanout" /\ Delivery[q] \in good) \/ at'[q] = "400"
        /\ \A p \in Requests : p # q => at'[p] = at[p]
    BY <1>s, <2>1, AnswerFacts
  <2>3. QED
    BY <2>1, <2>2 DEF GuardMove, Onward, Forgets, Passes, guards
<1>4. ASSUME NEW q \in Requests, PostHook(q) PROVE GuardMove
  <2>1. /\ at[q] = "unsent" /\ path[Delivery[q]] = "hooks" /\ UNCHANGED <<input, seenDeliveries>>
        /\ \/ Answer(q, "fanout") /\ Delivery[q] \in good /\ Delivery[q] \notin seenSignatures
              /\ (Delivery[q] \in seenSignatures' \/ wipes' = wipes + 1)
           \/ Answer(q, "409") \/ Answer(q, "422")
        /\ Forgets
    BY <1>4 DEF PostHook, ReplayKey, guards, Forgets
  <2>2. /\ \/ at'[q] = "fanout" /\ Delivery[q] \in good /\ Delivery[q] \notin seenSignatures
              /\ (Delivery[q] \in seenSignatures' \/ wipes' = wipes + 1)
           \/ at'[q] \in {"409", "422"}
        /\ \A p \in Requests : p # q => at'[p] = at[p]
    BY <1>s, <2>1, AnswerFacts
  <2>3. QED
    BY <2>1, <2>2 DEF GuardMove, Onward, Passes
<1>5. ASSUME NEW q \in Requests, PostConnect(q) PROVE GuardMove
  <2>1. /\ at[q] = "unsent" /\ path[Delivery[q]] = "connect" /\ UNCHANGED <<input, seenSignatures>>
        /\ \/ Answer(q, "forward") /\ Delivery[q] \in good /\ Delivery[q] \notin seenDeliveries
              /\ Delivery[q] \in seenDeliveries'
           \/ Answer(q, "409") \/ Answer(q, "422")
        /\ Forgets
    BY <1>5 DEF PostConnect, ReplayKey, guards, Forgets
  <2>2. /\ \/ at'[q] = "forward" /\ Delivery[q] \in good /\ Delivery[q] \notin seenDeliveries
              /\ Delivery[q] \in seenDeliveries'
           \/ at'[q] \in {"409", "422"}
        /\ \A p \in Requests : p # q => at'[p] = at[p]
    BY <1>s, <2>1, AnswerFacts
  <2>3. QED
    BY <2>1, <2>2 DEF GuardMove, Onward, Passes
<1>6. ASSUME NEW q \in Requests, Forward(q) \/ Skip(q) \/ Enqueue(q) \/ Attempt(q) \/ Accept(q)
      PROVE  GuardMove
  <2>1. /\ at[q] \in {"forward", "fanout"} /\ UNCHANGED <<input, guards>>
        /\ at' = at \/ \E st \in {"200", "502", "upstream", "500", "202"} : Answer(q, st)
    BY <1>6 DEF Forward, Skip, Enqueue, Attempt, Accept, At
  <2>2. /\ at' = at \/ at'[q] \in {"200", "502", "upstream", "500", "202"}
        /\ \A p \in Requests : p # q => at'[p] = at[p]
    BY <1>s, <2>1, AnswerFacts
  <2>3. QED
    BY <2>1, <2>2 DEF GuardMove, Onward, Forgets, guards
<1>7. QED
  BY <1>1, <1>2, <1>3, <1>4, <1>5, <1>6 DEF Next

\* A step that turns a request away, or remembers one, has let it or another past.
LEMMA Remembers ==
  ASSUME Typed, [Next]_vars
  PROVE  /\ \A d \in Seen' \cap good : d \in Seen \/ \E p \in Requests : Delivery[p] = d /\ at'[p] \in Beyond
         /\ \A q \in Requests : at'[q] = "409" => at[q] = "409" \/ Delivery[q] \in Seen
<1>s. /\ {"fanout", "forward", "unsent"} \subseteq Statuses
      /\ {"200", "202", "400", "409", "422", "500", "502", "upstream", "none"} \subseteq Statuses
  BY DEF Statuses, Answers
<1>1. CASE Crash
  BY <1>1 DEF Crash, Seen
<1>2. CASE UNCHANGED vars
  BY <1>2 DEF vars, guards, Seen
<1>3. ASSUME NEW q \in Requests, PostHook(q) \/ PostConnect(q)
      PROVE  /\ \A d \in Seen' \cap good : d \in Seen \/ \E p \in Requests : Delivery[p] = d /\ at'[p] \in Beyond
             /\ \A p \in Requests : at'[p] = "409" => at[p] = "409" \/ Delivery[p] \in Seen
  <2>1. /\ Seen' \subseteq Seen \cup {Delivery[q]}
        /\ \/ Answer(q, "409") /\ Delivery[q] \in Seen /\ Seen' = Seen
           \/ /\ Delivery[q] \in good
              /\ Answer(q, "fanout") \/ Answer(q, "forward")
           \/ Answer(q, "422") /\ Delivery[q] \notin good
    BY <1>3 DEF PostHook, PostConnect, ReplayKey, guards, Seen
  <2>2. /\ \/ at'[q] = "409" /\ Delivery[q] \in Seen /\ Seen' = Seen
           \/ at'[q] \in {"fanout", "forward"}
           \/ at'[q] = "422" /\ Delivery[q] \notin good
        /\ \A p \in Requests : p # q => at'[p] = at[p]
    BY <1>s, <2>1, AnswerFacts
  <2>3. QED
    BY <2>1, <2>2 DEF Beyond
<1>4. ASSUME NEW q \in Requests,
             PostEvent(q) \/ Forward(q) \/ Skip(q) \/ Enqueue(q) \/ Attempt(q) \/ Accept(q)
      PROVE  /\ Seen' = Seen
             /\ \A p \in Requests : at'[p] = "409" => at[p] = "409" \/ Delivery[p] \in Seen
  <2>1. /\ UNCHANGED guards
        /\ at' = at \/ \E st \in {"fanout", "400", "200", "502", "upstream", "500", "202"} : Answer(q, st)
    BY <1>4 DEF PostEvent, Forward, Skip, Enqueue, Attempt, Accept
  <2>2. /\ at' = at \/ at'[q] \in {"fanout", "400", "200", "502", "upstream", "500", "202"}
        /\ \A p \in Requests : p # q => at'[p] = at[p]
    BY <1>s, <2>1, AnswerFacts
  <2>3. QED
    BY <2>1, <2>2 DEF guards, Seen
<1>5. QED
  BY <1>1, <1>2, <1>3, <1>4 DEF Next

LEMMA ReplayStep == Typed /\ ReplayInv /\ [Next]_vars => ReplayInv'
<1> SUFFICES ASSUME Typed, ReplayInv, [Next]_vars PROVE ReplayInv'
  OBVIOUS
<1>1. good' = good /\ Onward
  BY GuardMoves DEF GuardMove, input
<1>2. \A d : (\E p \in Requests : Delivery[p] = d /\ at[p] \in Beyond) =>
             \E p \in Requests : Delivery[p] = d /\ at'[p] \in Beyond
  BY <1>1 DEF Onward
<1>3. \A d \in Seen' \cap good' : \E p \in Requests : Delivery[p] = d /\ at'[p] \in Beyond
  BY <1>1, <1>2, Remembers DEF ReplayInv
<1>4. \A q \in Requests : at'[q] = "409" /\ Delivery[q] \in good' =>
        \E p \in Requests : Delivery[p] = Delivery[q] /\ at'[p] \in Beyond
  BY <1>1, <1>2, Remembers DEF ReplayInv
<1>5. QED
  BY <1>3, <1>4 DEF ReplayInv, Seen

-----------------------------------------------------------------------------
(* Counting what was let past *)

AdmittedOf(d) ==
  /\ IsFiniteSet(Admitted(d))
  /\ path[d] = "hooks" => Cardinality(Admitted(d)) <= wipes + One(d \in seenSignatures)
  /\ path[d] = "connect" => Cardinality(Admitted(d)) <= wipes + One(d \in seenDeliveries)

LEMMA AdmittedStep ==
  ASSUME Typed, GuardMove, wipes' \in Nat, NEW d \in Deliveries, AdmittedOf(d)
  PROVE  AdmittedOf(d)'
<1>0. Cardinality(Admitted(d)) \in Nat /\ wipes \in Nat /\ path' = path
  BY FS_CardinalityType DEF AdmittedOf, Typed, GuardMove, input
<1>1. /\ One(TRUE) = 1 /\ One(FALSE) = 0
      /\ \A b \in BOOLEAN : One(b) \in {0, 1}
  BY DEF One
<1>2. CASE Admitted(d)' = Admitted(d)
  <2>1. CASE wipes' = wipes + 1
    <3>1. \A b, c \in BOOLEAN : wipes + One(b) <= wipes' + One(c)
      BY <1>0, <1>1, <2>1
    <3>2. /\ (d \in seenSignatures) \in BOOLEAN /\ (d \in seenSignatures)' \in BOOLEAN
          /\ (d \in seenDeliveries) \in BOOLEAN /\ (d \in seenDeliveries)' \in BOOLEAN
      OBVIOUS
    <3>3. /\ wipes + One(d \in seenSignatures) <= wipes' + One(d \in seenSignatures')
          /\ wipes + One(d \in seenDeliveries) <= wipes' + One(d \in seenDeliveries')
      BY <3>1, <3>2
    <3>4. QED
      BY <1>0, <1>2, <2>1, <3>3 DEF AdmittedOf, One
  <2>2. CASE /\ wipes' = wipes
             /\ seenSignatures \subseteq seenSignatures' /\ seenDeliveries \subseteq seenDeliveries'
    BY <1>0, <1>2, <2>2 DEF AdmittedOf, One
  <2>3. QED
    BY <2>1, <2>2 DEF GuardMove, Forgets
<1>3. ASSUME NEW q \in Requests, Passes(q), Delivery[q] = d, Admitted(d)' = Admitted(d) \cup {q}
      PROVE  AdmittedOf(d)'
  <2>1. q \notin Admitted(d)
    BY <1>3 DEF Passes, Admitted, Beyond
  <2>2. /\ IsFiniteSet(Admitted(d)')
        /\ Cardinality(Admitted(d)') = Cardinality(Admitted(d)) + 1
    BY <1>3, <2>1, FS_AddElement DEF AdmittedOf
  <2>3. \/ wipes' = wipes + 1
        \/ /\ wipes' = wipes
           /\ path[d] = "hooks" => d \in seenSignatures'
           /\ path[d] = "connect" => d \in seenDeliveries'
    BY <1>3 DEF GuardMove, Forgets, Passes
  <2>4. /\ path[d] = "hooks" => Cardinality(Admitted(d)) <= wipes
        /\ path[d] = "connect" => Cardinality(Admitted(d)) <= wipes
    BY <1>0, <1>3 DEF Passes, AdmittedOf, One
  <2>5. path[d] = "hooks" =>
          Cardinality(Admitted(d)') <= wipes' + One(d \in seenSignatures')
    BY <1>0, <2>2, <2>3, <2>4 DEF One
  <2>6. path[d] = "connect" =>
          Cardinality(Admitted(d)') <= wipes' + One(d \in seenDeliveries')
    BY <1>0, <2>2, <2>3, <2>4 DEF One
  <2>7. QED
    BY <1>0, <2>2, <2>5, <2>6 DEF AdmittedOf
<1>4. CASE \A p \in Requests : at'[p] \in Beyond => at[p] \in Beyond
  BY <1>2, <1>4 DEF GuardMove, Onward, Admitted
<1>5. ASSUME NEW q \in Requests, Passes(q), \A p \in Requests : p # q => at'[p] = at[p]
      PROVE  AdmittedOf(d)'
  <2>1. at[q] \notin Beyond /\ at'[q] \in Beyond
    BY <1>5 DEF Passes, Beyond
  <2>2. CASE Delivery[q] = d
    <3>1. Admitted(d)' = Admitted(d) \cup {q}
      BY <1>5, <2>1, <2>2 DEF Admitted
    <3>2. QED
      BY <1>3, <1>5, <2>2, <3>1
  <2>3. CASE Delivery[q] # d
    <3>1. Admitted(d)' = Admitted(d)
      BY <1>5, <2>1, <2>3 DEF Admitted
    <3>2. QED
      BY <1>2, <3>1
  <2>4. QED
    BY <2>2, <2>3
<1>6. QED
  BY <1>4, <1>5 DEF GuardMove

\* What was tried, or sent, had been let past.
LEMMA TryingAdmitted ==
  ASSUME Typed, FanInv, NEW d \in Deliveries, IsFiniteSet(Admitted(d)), NEW e \in Edges
  PROVE  /\ IsFiniteSet(Trying(e, d)) /\ Cardinality(Trying(e, d)) <= Cardinality(Admitted(d))
         /\ IsFiniteSet(Sent(d)) /\ Cardinality(Sent(d)) <= Cardinality(Admitted(d))
<1>1. Trying(e, d) \subseteq Admitted(d)
  BY DEF Trying, Admitted, Beyond, FanInv
<1>2. Sent(d) \subseteq Admitted(d)
  BY DEF Sent, Admitted, Beyond
<1>3. QED
  BY <1>1, <1>2, FS_Subset

LEMMA TryingStep ==
  ASSUME Typed, FanInv, [Next]_vars, NEW d \in Deliveries, NEW e \in Edges,
         IsFiniteSet(Trying(e, d)), carried[e][d] <= Cardinality(Trying(e, d))
  PROVE  carried'[e][d] <= Cardinality(Trying(e, d)')
<1>0. carried[e][d] \in Nat /\ Cardinality(Trying(e, d)) \in Nat
  BY FS_CardinalityType DEF Typed
<1>1. ASSUME NEW q \in Requests, Enqueue(q) \/ Attempt(q)
      PROVE  carried'[e][d] <= Cardinality(Trying(e, d)')
  <2>1. /\ at[q] = "fanout" /\ edge[q] \in Edges /\ Try(q)
        /\ Carry(q) \/ UNCHANGED carried
    BY <1>1 DEF Enqueue, Attempt, At
  <2>2. /\ tried'[q] = tried[q] \cup {edge[q]}
        /\ \A p \in Requests : p # q => tried'[p] = tried[p]
    BY <2>1, TryFacts
  <2>3. CASE e = edge[q] /\ d = Delivery[q]
    <3>1. edge[q] \notin tried[q]
      BY <2>1, IngestAssumption DEF FanInv, Edges
    <3>2. Trying(e, d)' = Trying(e, d) \cup {q} /\ q \notin Trying(e, d)
      BY <2>2, <2>3, <3>1 DEF Trying
    <3>3. Cardinality(Trying(e, d)') = Cardinality(Trying(e, d)) + 1
      BY <3>2, FS_AddElement
    <3>4. carried'[e][d] \in {carried[e][d], carried[e][d] + 1}
      BY <2>1, <2>3, CarryFacts
    <3>5. QED
      BY <1>0, <3>3, <3>4
  <2>4. CASE ~(e = edge[q] /\ d = Delivery[q])
    <3>1. Trying(e, d)' = Trying(e, d)
      BY <2>2, <2>4 DEF Trying
    <3>2. carried'[e][d] = carried[e][d]
      BY <2>1, <2>4, CarryFacts
    <3>3. QED
      BY <3>1, <3>2
  <2>5. QED
    BY <2>3, <2>4
<1>2. CASE UNCHANGED <<tried, carried>>
  BY <1>2 DEF Trying
<1>3. QED
  BY <1>1, <1>2
  DEF Next, vars, fan, Crash, PostEvent, PostHook, PostConnect, Forward, Skip, Accept

LEMMA SentStep ==
  ASSUME Typed, [Next]_vars, NEW d \in Deliveries,
         IsFiniteSet(Sent(d)), forwarded[d] <= Cardinality(Sent(d))
  PROVE  forwarded'[d] <= Cardinality(Sent(d)')
<1>0. forwarded[d] \in Nat /\ Cardinality(Sent(d)) \in Nat
  BY FS_CardinalityType DEF Typed
<1>s. /\ {"fanout", "forward", "unsent"} \subseteq Statuses
      /\ {"200", "202", "400", "409", "422", "500", "502", "upstream", "none"} \subseteq Statuses
  BY DEF Statuses, Answers
<1>1. ASSUME NEW q \in Requests, Forward(q) PROVE forwarded'[d] <= Cardinality(Sent(d)')
  <2>1. /\ at[q] = "forward" /\ at'[q] \in {"200", "502", "upstream"}
        /\ \A p \in Requests : p # q => at'[p] = at[p]
    BY <1>1, <1>s, AnswerFacts DEF Forward
  <2>2. forwarded' \in {forwarded, [forwarded EXCEPT ![Delivery[q]] = @ + 1]}
    BY <1>1 DEF Forward
  <2>3. CASE d = Delivery[q]
    <3>1. Sent(d)' = Sent(d) \cup {q} /\ q \notin Sent(d)
      BY <2>1, <2>3 DEF Sent
    <3>2. Cardinality(Sent(d)') = Cardinality(Sent(d)) + 1
      BY <3>1, FS_AddElement
    <3>3. forwarded'[d] \in {forwarded[d], forwarded[d] + 1}
      BY <2>2, <2>3 DEF Typed
    <3>4. QED
      BY <1>0, <3>2, <3>3
  <2>4. CASE d # Delivery[q]
    <3>1. Sent(d)' = Sent(d)
      BY <2>1, <2>4 DEF Sent
    <3>2. forwarded'[d] = forwarded[d]
      BY <2>2, <2>4 DEF Typed
    <3>3. QED
      BY <3>1, <3>2
  <2>5. QED
    BY <2>3, <2>4
<1>2. ASSUME Sent(d)' = Sent(d), UNCHANGED forwarded PROVE forwarded'[d] <= Cardinality(Sent(d)')
  BY <1>2
<1>3. CASE Crash
  <2>1. \A q \in Requests : at'[q] \in {"200", "502", "upstream"} <=> at[q] \in {"200", "502", "upstream"}
    BY <1>3 DEF Crash
  <2>2. Sent(d)' = Sent(d)
    BY <2>1 DEF Sent
  <2>3. QED
    BY <1>2, <1>3, <2>2 DEF Crash
<1>4. CASE UNCHANGED vars
  BY <1>2, <1>4 DEF vars, Sent
<1>5. ASSUME NEW q \in Requests,
             \/ PostEvent(q) \/ PostHook(q) \/ PostConnect(q)
             \/ Skip(q) \/ Enqueue(q) \/ Attempt(q) \/ Accept(q)
      PROVE  forwarded'[d] <= Cardinality(Sent(d)')
  <2>1. /\ at[q] \in {"unsent", "fanout"} /\ UNCHANGED forwarded
        /\ \/ at' = at
           \/ \E st \in {"fanout", "forward", "400", "409", "422", "500", "202"} : Answer(q, st)
    BY <1>5 DEF PostEvent, PostHook, PostConnect, Skip, Enqueue, Attempt, Accept, At
  <2>2. /\ at' = at \/ at'[q] \in {"fanout", "forward", "400", "409", "422", "500", "202"}
        /\ \A p \in Requests : p # q => at'[p] = at[p]
    BY <1>s, <2>1, AnswerFacts
  <2>3. Sent(d)' = Sent(d)
    BY <2>1, <2>2 DEF Sent
  <2>4. QED
    BY <1>2, <2>1, <2>3
<1>6. QED
  BY <1>1, <1>3, <1>4, <1>5 DEF Next

LEMMA GuardStep == Typed /\ FanInv /\ GuardInv /\ [Next]_vars => GuardInv'
<1> SUFFICES ASSUME Typed, FanInv, GuardInv, [Next]_vars PROVE GuardInv'
  OBVIOUS
<1>1. GuardMove /\ wipes' \in Nat
  BY GuardMoves, TypedStep DEF Typed
<1>2. ASSUME NEW d \in Deliveries
      PROVE  /\ AdmittedOf(d)'
             /\ \A e \in Edges : carried'[e][d] <= Cardinality(Trying(e, d)')
             /\ forwarded'[d] <= Cardinality(Sent(d)')
  <2>1. AdmittedOf(d)
    BY <1>2 DEF GuardInv, AdmittedOf
  <2>2. AdmittedOf(d)'
    BY <1>1, <2>1, AdmittedStep
  <2>3. \A e \in Edges : IsFiniteSet(Trying(e, d))
    BY <2>1, TryingAdmitted DEF AdmittedOf
  <2>4. IsFiniteSet(Sent(d))
    BY <2>1, FS_Subset DEF AdmittedOf, Sent, Admitted, Beyond
  <2>5. \A e \in Edges : carried'[e][d] <= Cardinality(Trying(e, d)')
    BY <2>3, TryingStep DEF GuardInv
  <2>6. forwarded'[d] <= Cardinality(Sent(d)')
    BY <2>4, SentStep DEF GuardInv
  <2>7. QED
    BY <2>2, <2>5, <2>6
<1>3. QED
  BY <1>2 DEF GuardInv, AdmittedOf, Deliveries

-----------------------------------------------------------------------------
(* The invariant and what it says *)

LEMMA Initially == Init => IInv
<1> SUFFICES ASSUME Init PROVE IInv
  OBVIOUS
<1>1. Typed
  BY IngestAssumption DEF Init, Typed, Statuses, Edges
<1>2. FanInv
  BY DEF Init, FanInv, Edges
<1>3. ReplayInv
  BY DEF Init, ReplayInv, Seen
<1>4. GuardInv
  <2>1. \A d \in Deliveries : Admitted(d) = {} /\ Sent(d) = {} /\ \A e \in Edges : Trying(e, d) = {}
    BY DEF Init, Admitted, Sent, Trying, Beyond
  <2>2. IsFiniteSet({}) /\ Cardinality({}) = 0
    BY FS_EmptySet
  <2>3. \A d \in Deliveries : forwarded[d] = 0 /\ \A e \in Edges : carried[e][d] = 0
    BY DEF Init
  <2>4. /\ wipes = 0
        /\ \A d : 0 <= wipes + One(d \in seenSignatures) /\ 0 <= wipes + One(d \in seenDeliveries)
    BY DEF Init, One
  <2>5. ASSUME NEW d \in Deliveries
        PROVE  /\ IsFiniteSet(Admitted(d)) /\ Cardinality(Admitted(d)) = 0
               /\ forwarded[d] <= Cardinality(Sent(d))
               /\ \A e \in Edges : carried[e][d] <= Cardinality(Trying(e, d))
    BY <2>1, <2>2, <2>3
  <2>6. QED
    BY <2>4, <2>5 DEF GuardInv
<1>5. QED
  BY <1>1, <1>2, <1>3, <1>4 DEF IInv

LEMMA Inductive == IInv /\ [Next]_vars => IInv'
BY TypedStep, FanStep, ReplayStep, GuardStep DEF IInv

\* The inductive invariant of the ingest.
THEOREM IngestInvariant == Spec => []IInv
<1>1. QED
  BY Initially, Inductive, PTL DEF Spec

\* "Durable acceptance: the publish succeeds only once XADD returns": a 202
\* of POST /v1/events or /v1/hooks stands for an entry in every queued stream.
THEOREM AcceptedEverywhereKept == Spec => []AcceptedEverywhere
<1>1. IInv => AcceptedEverywhere
  <2> SUFFICES ASSUME IInv, NEW q \in Requests, at[q] = "202", NEW e \in Edges, Queued(e)
               PROVE  carried[e][Delivery[q]] > 0
    BY DEF AcceptedEverywhere
  <2>1. edge[q] = NEdges + 1 /\ e \in 1..NEdges /\ NEdges \in Nat
    BY IngestAssumption DEF IInv, FanInv, Edges
  <2>2. e < edge[q]
    BY <2>1
  <2>3. QED
    BY <2>2 DEF IInv, FanInv
<1>2. QED
  BY <1>1, IngestInvariant, PTL

\* The gateways' replay guards: a signed delivery reaches each edge, or the
\* connection's agent, once and once more for every time the guard was emptied,
\* by its bound or by a restart, however many requests repeat it at once.
THEOREM GuardedOnceKept == Spec => []GuardedOnce
<1>1. IInv => GuardedOnce
  <2> SUFFICES ASSUME IInv, NEW d \in Deliveries
               PROVE  /\ path[d] = "hooks" => \A e \in Edges : carried[e][d] <= 1 + wipes
                      /\ path[d] = "connect" => forwarded[d] <= 1 + wipes
    BY DEF GuardedOnce
  <2>1. Typed /\ FanInv /\ IsFiniteSet(Admitted(d))
    BY DEF IInv, GuardInv
  <2>2. Cardinality(Admitted(d)) \in Nat /\ wipes \in Nat /\ forwarded[d] \in Nat
    BY <2>1, FS_CardinalityType DEF Typed
  <2>3. path[d] \in {"hooks", "connect"} => Cardinality(Admitted(d)) <= wipes + 1
    BY <2>2 DEF IInv, GuardInv, One
  <2>4. ASSUME path[d] = "hooks", NEW e \in Edges PROVE carried[e][d] <= 1 + wipes
    <3>1. /\ Cardinality(Trying(e, d)) <= Cardinality(Admitted(d))
          /\ Cardinality(Trying(e, d)) \in Nat /\ carried[e][d] \in Nat
      BY <2>1, TryingAdmitted, FS_CardinalityType DEF Typed
    <3>2. carried[e][d] <= Cardinality(Trying(e, d))
      BY DEF IInv, GuardInv
    <3>3. QED
      BY <2>2, <2>3, <2>4, <3>1, <3>2
  <2>5. ASSUME path[d] = "connect" PROVE forwarded[d] <= 1 + wipes
    <3>1. Sent(d) \subseteq Admitted(d)
      BY DEF Sent, Admitted, Beyond
    <3>2. Cardinality(Sent(d)) <= Cardinality(Admitted(d)) /\ Cardinality(Sent(d)) \in Nat
      BY <2>1, <3>1, FS_Subset, FS_CardinalityType
    <3>3. forwarded[d] <= Cardinality(Sent(d))
      BY DEF IInv, GuardInv
    <3>4. QED
      BY <2>2, <2>3, <2>5, <3>2, <3>3
  <2>6. QED
    BY <2>4, <2>5
<1>2. QED
  BY <1>1, IngestInvariant, PTL

\* fanOut's edges are independent as long as Redis answers: an answered
\* request tried every edge that its filter left.
THEOREM EdgesKeptAlways == Spec => []EdgesKept
<1>1. IInv => EdgesKept
  <2> SUFFICES ASSUME IInv, outages = 0, NEW q \in Requests, at[q] \in {"202", "500"}
               PROVE  tried[q] = {e \in Edges : Mode[e] # "filtered"}
    BY DEF EdgesKept, EdgesIndependent
  <2>1. at[q] = "202"
    BY DEF IInv, FanInv
  <2>2. edge[q] = NEdges + 1 /\ NEdges \in Nat
    BY <2>1, IngestAssumption DEF IInv, FanInv
  <2>3. tried[q] = {e \in Edges : e < edge[q] /\ Mode[e] # "filtered"}
    BY <2>1 DEF IInv, FanInv
  <2>4. \A e \in Edges : e < edge[q]
    BY <2>2 DEF Edges
  <2>5. QED
    BY <2>3, <2>4
<1>2. QED
  BY <1>1, IngestInvariant, PTL

\* The gateways answer 409 only for a delivery of which another request got
\* past the guard, whatever became of that one, and whichever guard was
\* emptied or shared in between (replayKey, rememberDelivery).
THEOREM ReplayWasAdmittedKept == Spec => []ReplayWasAdmitted
<1>1. IInv => ReplayWasAdmitted
  BY DEF IInv, ReplayInv, ReplayWasAdmitted, Beyond
<1>2. QED
  BY <1>1, IngestInvariant, PTL

-----------------------------------------------------------------------------
(* The bounds *)

\* A guard never holds more keys than its maximum.
Holds(seen) == seen \subseteq Deliveries /\ IsFiniteSet(seen) /\ Cardinality(seen) <= SeenMax

Guards == Holds(seenSignatures) /\ Holds(seenDeliveries)

Inputs ==
  /\ path \in [Deliveries -> {"events", "hooks", "connect"}]
  /\ good \subseteq Deliveries /\ durable \in BOOLEAN

Budget == outages \in Nat /\ crashes \in Nat /\ outages + crashes <= MaxFaults

LEMMA HoldsFew ==
  ASSUME NEW d \in Deliveries PROVE Holds({}) /\ Holds({d})
BY FS_EmptySet, FS_Singleton, IngestAssumption DEF Holds

LEMMA HoldsMore ==
  ASSUME NEW seen, Holds(seen), Cardinality(seen) < SeenMax, NEW d \in Deliveries, d \notin seen
  PROVE  Holds(seen \cup {d})
<1>1. Cardinality(seen) \in Nat /\ SeenMax \in Nat
  BY FS_CardinalityType, IngestAssumption DEF Holds
<1>2. IsFiniteSet(seen \cup {d}) /\ Cardinality(seen \cup {d}) = Cardinality(seen) + 1
  BY FS_AddElement DEF Holds
<1>3. QED
  BY <1>1, <1>2 DEF Holds

LEMMA GuardsStep == Guards /\ [Next]_vars => Guards'
<1> SUFFICES ASSUME Guards, [Next]_vars PROVE Guards'
  OBVIOUS
<1>0. Holds({})
  BY FS_EmptySet, IngestAssumption DEF Holds
<1>1. ASSUME NEW q \in Requests, PostHook(q) PROVE Guards'
  <2>1. /\ Delivery[q] \in Deliveries /\ seenDeliveries' = seenDeliveries
        /\ \/ seenSignatures' \in {seenSignatures, {}}
           \/ /\ Delivery[q] \notin seenSignatures /\ Cardinality(seenSignatures) < SeenMax
              /\ seenSignatures' = seenSignatures \cup {Delivery[q]}
    BY <1>1, DeliveryFacts DEF PostHook, ReplayKey, guards
  <2>2. QED
    BY <1>0, <2>1, HoldsMore DEF Guards
<1>2. ASSUME NEW q \in Requests, PostConnect(q) PROVE Guards'
  <2>1. /\ Delivery[q] \in Deliveries /\ seenSignatures' = seenSignatures
        /\ \/ seenDeliveries' \in {seenDeliveries, {Delivery[q]}}
           \/ /\ Delivery[q] \notin seenDeliveries /\ Cardinality(seenDeliveries) < SeenMax
              /\ seenDeliveries' = seenDeliveries \cup {Delivery[q]}
    BY <1>2, DeliveryFacts DEF PostConnect, ReplayKey, guards
  <2>2. QED
    BY <2>1, HoldsFew, HoldsMore DEF Guards
<1>3. CASE Crash
  BY <1>0, <1>3 DEF Crash, Guards
<1>4. CASE UNCHANGED <<seenSignatures, seenDeliveries>>
  BY <1>4 DEF Guards
<1>5. QED
  BY <1>1, <1>2, <1>3, <1>4
  DEF Next, vars, guards, PostEvent, Forward, Skip, Enqueue, Attempt, Accept

LEMMA BudgetStep == Budget /\ [Next]_vars => Budget'
<1> SUFFICES ASSUME Budget, [Next]_vars PROVE Budget'
  OBVIOUS
<1>1. ASSUME NEW kind, Outage(kind) PROVE Budget'
  BY <1>1, IngestAssumption DEF Outage, MayFail, Budget
<1>2. CASE Crash
  BY <1>2, IngestAssumption DEF Crash, MayFail, Budget
<1>3. CASE UNCHANGED faults
  BY <1>3 DEF faults, Budget
<1>4. QED
  BY <1>1, <1>2, <1>3
  DEF Next, vars, PostEvent, PostHook, PostConnect, Forward, Skip, Enqueue, Attempt, Accept

LEMMA InputsStep == Inputs /\ [Next]_vars => Inputs'
<1>1. [Next]_vars => UNCHANGED input
  BY DEF Next, vars, Crash, PostEvent, PostHook, PostConnect, Forward, Skip, Enqueue, Attempt, Accept
<1>2. QED
  BY <1>1 DEF input, Inputs

\* The type invariant, the bounds of the replay guards with it: neither guard
\* outgrows its maximum, whichever deliveries come in and however often.
THEOREM TypeCorrect == Spec => []TypeOK
<1>1. Init => Guards /\ Budget /\ Inputs
  BY FS_EmptySet, IngestAssumption DEF Init, Guards, Holds, Budget, Inputs
<1>2. IInv /\ Guards /\ Budget /\ Inputs => TypeOK
  BY DEF IInv, Typed, Guards, Holds, Budget, Inputs, TypeOK, Statuses
<1>3. QED
  BY <1>1, <1>2, Initially, Inductive, GuardsStep, BudgetStep, InputsStep, PTL DEF Spec
=============================================================================
