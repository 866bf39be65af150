------------------------ MODULE BusinessOutcomes_proofs ------------------------
(***************************************************************************)
(* Theorems about the business-outcome ledger, for any posts, ids,         *)
(* subjects, window and failures: a count too many is paid for, and none   *)
(* is missing while nothing fails, nor an id that drifted unreported.      *)
(***************************************************************************)
EXTENDS BusinessOutcomes, FiniteSetTheorems, TLAPS

HasId(p)      == EventId[p] # NoId
HasSubject(p) == Subject[p] # NoSubject

\* Only a post with an id, and a subject, speaks to Redis about it.
CallsInv ==
  /\ \A p \in Posts : pc[p] \in {"set", "subject", "get"} => durable /\ HasId(p)
  /\ \A p \in Posts : pc[p] \in {"subject", "get"} => HasSubject(p)
  /\ \A p \in Posts : <<"set", p>> \in late => durable /\ HasId(p)
  /\ \A p \in Posts : <<"subject", p>> \in late => durable /\ HasId(p) /\ HasSubject(p)
  /\ ~durable => bizseen = {}

\* The posts that Redis told their id is fresh, and that are not counted yet.
Claimed(i) == {p \in Posts : EventId[p] = i /\ pc[p] \in {"subject", "get"}}

One(b) == IF b THEN 1 ELSE 0

\* With Redis, an id counted or about to be is remembered there, or was paid for;
\* without, it is in the window, or the window lost it.
CountInv ==
  \A i \in EventIds :
    /\ durable => counted[i] + Cardinality(Claimed(i)) <= One(i \in bizseen) + faults
    /\ ~durable => counted[i] <= One(Seen(i)) + restarts + evictions

\* While nothing fails, what is remembered is counted or about to be.
LedgerInv ==
  faults + restarts = 0 =>
    /\ late = {}
    /\ \A p \in Posts : durable /\ HasId(p) /\ pc[p] \in {"subject", "get", "done"}
                          => EventId[p] \in bizseen
    /\ durable => \A i \in bizseen : counted[i] >= 1 \/ Claimed(i) # {}
    /\ ~durable => \A i \in EventIds : Seen(i) => counted[i] >= 1
    /\ \A p \in Posts : ~durable /\ HasId(p) /\ pc[p] = "done" => counted[EventId[p]] >= 1

IInv == TypeOK /\ CallsInv /\ CountInv /\ LedgerInv

-----------------------------------------------------------------------------
(* Types *)

LEMMA IdTypes ==
  ASSUME NEW p \in Posts
  PROVE  /\ HasId(p) => EventId[p] \in EventIds
         /\ HasSubject(p) => Subject[p] \in Subjects
BY DEF HasId, HasSubject, EventIds, Subjects

\* The window stays a sequence of ids no longer than its size, and it has the
\* id admitted; unless the oldest went, it has all it had.
LEMMA AdmitFacts ==
  ASSUME seen \in Seq(EventIds), Len(seen) <= SeenMax, evictions \in Nat,
         NEW i \in EventIds, Admit(i)
  PROVE  /\ seen' \in Seq(EventIds) /\ Len(seen') <= SeenMax
         /\ Seen(i)'
         /\ \A j \in EventIds : Seen(j)' => j = i \/ Seen(j)
         /\ \/ evictions' = evictions /\ \A j \in EventIds : Seen(j) => Seen(j)'
            \/ evictions' = evictions + 1
<1> USE OutcomesAssumption
<1>1. CASE Len(seen) < SeenMax /\ seen' = Append(seen, i) /\ UNCHANGED evictions
  <2>1. /\ seen' \in Seq(EventIds) /\ Len(seen') = Len(seen) + 1
        /\ \A k \in 1..Len(seen) : seen'[k] = seen[k]
        /\ seen'[Len(seen) + 1] = i
    BY <1>1
  <2>2. DOMAIN seen = 1..Len(seen) /\ DOMAIN seen' = 1..(Len(seen) + 1) /\ Len(seen) \in Nat
    BY <2>1
  <2>3. QED
    BY <1>1, <2>1, <2>2 DEF Seen
<1>2. CASE Len(seen) = SeenMax /\ seen' = Append(Tail(seen), i) /\ evictions' = evictions + 1
  <2>1. Tail(seen) \in Seq(EventIds) /\ Len(Tail(seen)) = Len(seen) - 1
        /\ \A k \in 1..(Len(seen) - 1) : Tail(seen)[k] = seen[k + 1]
    BY <1>2
  <2>2. /\ seen' \in Seq(EventIds) /\ Len(seen') = Len(seen)
        /\ \A k \in 1..(Len(seen) - 1) : seen'[k] = seen[k + 1]
        /\ seen'[Len(seen)] = i
    BY <1>2, <2>1
  <2>3. DOMAIN seen = 1..Len(seen) /\ DOMAIN seen' = 1..Len(seen) /\ Len(seen) \in Nat \ {0}
    BY <1>2, <2>2
  <2>4. QED
    BY <1>2, <2>2, <2>3 DEF Seen
<1>3. QED
  BY <1>1, <1>2 DEF Admit

Labels == {"sent", "set", "subject", "get", "done"}

LEMMA GotoFacts ==
  ASSUME pc \in [Posts -> Labels], NEW p \in Posts, NEW label \in Labels, Goto(p, label)
  PROVE  /\ pc' \in [Posts -> Labels] /\ pc'[p] = label
         /\ \A q \in Posts \ {p} : pc'[q] = pc[q]
BY DEF Goto

LEMMA CountFacts ==
  ASSUME counted \in [EventIds -> Nat], NEW p \in Posts, EventId[p] \in EventIds, Count(p)
  PROVE  /\ counted' \in [EventIds -> Nat]
         /\ counted'[EventId[p]] = counted[EventId[p]] + 1
         /\ \A i \in EventIds \ {EventId[p]} : counted'[i] = counted[i]
BY DEF Count

LEMMA TypeStep == TypeOK /\ CallsInv /\ [Next]_vars => TypeOK'
<1> SUFFICES ASSUME TypeOK, CallsInv, [Next]_vars PROVE TypeOK'
  OBVIOUS
<1> USE OutcomesAssumption DEF TypeOK
<1>s. seen \in Seq(EventIds) /\ Len(seen) <= SeenMax /\ evictions \in Nat
  OBVIOUS
<1>a. ASSUME NEW i \in EventIds, Admit(i)
      PROVE  seen' \in Seq(EventIds) /\ Len(seen') <= SeenMax /\ evictions' \in Nat
  <2>1. /\ seen' \in Seq(EventIds) /\ Len(seen') <= SeenMax
        /\ evictions' = evictions \/ evictions' = evictions + 1
    <3> HIDE DEF TypeOK
    <3>1. QED
      BY <1>s, <1>a, AdmitFacts
  <2>2. QED
    BY <2>1, <1>s
<1>r. ASSUME NEW i \in EventIds, Remember(i)
      PROVE  seen' \in Seq(EventIds) /\ Len(seen') <= SeenMax /\ evictions' \in Nat
  BY <1>r, <1>a DEF Remember
<1>m. ASSUME NEW p \in Posts, EventId[p] \in EventIds, Memory(p)
      PROVE  /\ seen' \in Seq(EventIds) /\ Len(seen') <= SeenMax /\ evictions' \in Nat
             /\ pc' \in [Posts -> {"sent", "set", "subject", "get", "done"}]
             /\ counted' \in [EventIds -> Nat]
  <2>1. seen' \in Seq(EventIds) /\ Len(seen') <= SeenMax /\ evictions' \in Nat
    BY <1>m, <1>a, <1>s DEF Memory
  <2>2. pc' \in [Posts -> Labels] /\ counted' \in [EventIds -> Nat]
    BY <1>m, GotoFacts, CountFacts DEF Memory, Labels
  <2>3. QED
    BY <2>1, <2>2 DEF Labels
<1>1. ASSUME NEW p \in Posts, Post(p) PROVE TypeOK'
  BY <1>1, <1>m, IdTypes DEF Post, Goto, HasId
<1>2. ASSUME NEW p \in Posts, SetReply(p) PROVE TypeOK'
  <2>1. EventId[p] \in EventIds
    BY <1>2, IdTypes DEF SetReply, CallsInv
  <2>2. seen' \in Seq(EventIds) /\ Len(seen') <= SeenMax /\ evictions' \in Nat
    BY <1>2, <2>1, <1>r DEF SetReply
  <2>3. pc' \in [Posts -> Labels] /\ counted' \in [EventIds -> Nat]
    BY <1>2, <2>1, GotoFacts, CountFacts DEF SetReply, Labels
  <2>4. QED
    BY <1>2, <2>1, <2>2, <2>3 DEF SetReply, Labels
<1>3. ASSUME NEW p \in Posts, SubjectReply(p) \/ GetReply(p) PROVE TypeOK'
  <2>1. EventId[p] \in EventIds /\ Subject[p] \in Subjects
    BY <1>3, IdTypes DEF SubjectReply, GetReply, CallsInv
  <2>2. UNCHANGED <<bizseen, late, seen, durable, evictions, restarts, faults>>
    BY <1>3 DEF SubjectReply, GetReply, obs
  <2>3. pc' \in [Posts -> Labels] /\ counted' \in [EventIds -> Nat]
    BY <1>3, <2>1, GotoFacts, CountFacts DEF SubjectReply, GetReply, Labels
  <2>4. bizsubj' \in [Subjects -> EventIds \cup {NoId}] /\ varied' \in [Subjects -> Nat]
    BY <1>3, <2>1 DEF SubjectReply, GetReply
  <2>5. QED
    BY <2>2, <2>3, <2>4 DEF Labels
<1>4. ASSUME NEW p \in Posts, CommandFails(p) PROVE TypeOK'
  <2>1. EventId[p] \in EventIds
    BY <1>4, IdTypes DEF CommandFails, CallsInv
  <2>2. late' \subseteq {"set", "subject"} \X Posts
    BY <1>4 DEF CommandFails
  <2>3. faults' \in Nat /\ faults' + restarts <= MaxFaults
    BY <1>4 DEF CommandFails, MayFail
  <2>4. QED
    BY <1>4, <2>1, <2>2, <2>3, <1>m DEF CommandFails
<1>5. ASSUME NEW p \in Posts, LateSet(p) PROVE TypeOK'
  BY <1>5, IdTypes DEF LateSet, CallsInv, obs
<1>6. CASE Crash
  BY <1>6 DEF Crash, MayFail
<1>7. CASE Expire
  <2>1. faults' \in Nat /\ faults' + restarts <= MaxFaults
    BY <1>7 DEF Expire, MayFail
  <2>2. bizseen' \subseteq EventIds /\ bizsubj' \in [Subjects -> EventIds \cup {NoId}]
    BY <1>7 DEF Expire
  <2>3. QED
    BY <1>7, <2>1, <2>2 DEF Expire
<1>8. CASE UNCHANGED vars
  BY <1>8 DEF vars, obs
<1>9. QED
  BY <1>1, <1>2, <1>3, <1>4, <1>5, <1>6, <1>7, <1>8 DEF Next

LEMMA CallsStep == TypeOK /\ CallsInv /\ [Next]_vars => CallsInv'
<1> SUFFICES ASSUME TypeOK, CallsInv, [Next]_vars PROVE CallsInv'
  OBVIOUS
<1> USE DEF TypeOK, CallsInv
<1>1. ASSUME NEW p \in Posts, Post(p) PROVE CallsInv'
  BY <1>1 DEF Post, Memory, Goto, HasId, HasSubject
<1>2. ASSUME NEW p \in Posts, SetReply(p) \/ SubjectReply(p) \/ GetReply(p) PROVE CallsInv'
  BY <1>2 DEF SetReply, SubjectReply, GetReply, Goto, HasSubject, HasId, obs
<1>3. ASSUME NEW p \in Posts, CommandFails(p) PROVE CallsInv'
  BY <1>3 DEF CommandFails, Memory, Goto, HasId, HasSubject
<1>4. ASSUME NEW p \in Posts, LateSet(p) PROVE CallsInv'
  BY <1>4 DEF LateSet, obs, HasId, HasSubject
<1>5. CASE Crash \/ Expire \/ UNCHANGED vars
  BY <1>5 DEF Crash, Expire, vars, obs, HasId, HasSubject
<1>6. QED
  BY <1>1, <1>2, <1>3, <1>4, <1>5 DEF Next

-----------------------------------------------------------------------------
(* The posts between their SET and their count *)

LEMMA ClaimedType ==
  ASSUME NEW i \in EventIds
  PROVE  IsFiniteSet(Claimed(i)) /\ Cardinality(Claimed(i)) \in Nat
<1>1. Claimed(i) \subseteq Posts
  BY DEF Claimed
<1>2. QED
  BY <1>1, OutcomesAssumption, FS_Subset, FS_CardinalityType

LEMMA ClaimedFewer ==
  ASSUME NEW i \in EventIds, Claimed(i)' \subseteq Claimed(i)
  PROVE  Cardinality(Claimed(i)') \in Nat /\ Cardinality(Claimed(i)') <= Cardinality(Claimed(i))
BY ClaimedType, FS_Subset, FS_CardinalityType

LEMMA ClaimedMore ==
  ASSUME NEW i \in EventIds, NEW p \in Posts, p \notin Claimed(i), Claimed(i)' = Claimed(i) \cup {p}
  PROVE  Cardinality(Claimed(i)') = Cardinality(Claimed(i)) + 1
BY ClaimedType, FS_AddElement

LEMMA ClaimedLess ==
  ASSUME NEW i \in EventIds, NEW p \in Claimed(i), Claimed(i)' = Claimed(i) \ {p}
  PROVE  Cardinality(Claimed(i)') = Cardinality(Claimed(i)) - 1
BY ClaimedType, FS_RemoveElement

\* A post that moves on changes what is claimed for its own id only.
LEMMA ClaimedMoves ==
  ASSUME pc \in [Posts -> Labels], NEW p \in Posts, NEW label \in Labels, Goto(p, label),
         NEW i \in EventIds
  PROVE  /\ i # EventId[p] => Claimed(i)' = Claimed(i)
         /\ label \in {"subject", "get"} /\ i = EventId[p] => Claimed(i)' = Claimed(i) \cup {p}
         /\ label \notin {"subject", "get"} => Claimed(i)' = Claimed(i) \ {p}
         /\ p \in Claimed(i) <=> i = EventId[p] /\ pc[p] \in {"subject", "get"}
BY GotoFacts DEF Claimed

-----------------------------------------------------------------------------
(* Every count too many is paid for *)

\* Without Redis: the window has what it lets through, or lost it.
LEMMA MemoryCounts ==
  ASSUME TypeOK, CountInv, ~durable, NEW p \in Posts, HasId(p), Memory(p),
         UNCHANGED <<restarts>>, NEW i \in EventIds
  PROVE  counted'[i] <= One(Seen(i)') + restarts' + evictions'
<1> USE DEF One
<1>0. /\ EventId[p] \in EventIds /\ counted \in [EventIds -> Nat]
      /\ seen \in Seq(EventIds) /\ Len(seen) <= SeenMax
      /\ evictions \in Nat /\ restarts \in Nat
      /\ counted[i] <= One(Seen(i)) + restarts + evictions
  BY IdTypes DEF TypeOK, CountInv
<1>1. CASE Seen(EventId[p]) /\ UNCHANGED <<seen, evictions, counted>>
  BY <1>0, <1>1 DEF Seen
<1>2. CASE ~Seen(EventId[p]) /\ Admit(EventId[p]) /\ Count(p)
  <2>1. /\ Seen(EventId[p])'
        /\ \/ evictions' = evictions /\ (Seen(i) => Seen(i)')
           \/ evictions' = evictions + 1
    BY <1>0, <1>2, AdmitFacts
  <2>2. counted'[i] = IF i = EventId[p] THEN counted[i] + 1 ELSE counted[i]
    BY <1>0, <1>2, CountFacts
  <2>3. CASE i = EventId[p]
    <3>1. counted[i] <= restarts + evictions /\ One(Seen(i)') = 1
      BY <1>0, <1>2, <2>1, <2>3
    <3>2. QED
      BY <1>0, <2>1, <2>2, <2>3, <3>1
  <2>4. CASE i # EventId[p]
    BY <1>0, <2>1, <2>2, <2>4
  <2>5. QED
    BY <2>3, <2>4
<1>3. QED
  BY <1>1, <1>2 DEF Memory

LEMMA CountStep == TypeOK /\ CallsInv /\ CountInv /\ [Next]_vars => CountInv'
<1> SUFFICES ASSUME TypeOK, CallsInv, CountInv, [Next]_vars, NEW i \in EventIds
             PROVE  /\ durable' => counted'[i] + Cardinality(Claimed(i)') <= One((i \in bizseen)') + faults'
                    /\ ~durable' => counted'[i] <= One(Seen(i)') + restarts' + evictions'
  BY DEF CountInv
<1> DEFINE Goal == /\ durable' => counted'[i] + Cardinality(Claimed(i)') <= One((i \in bizseen)') + faults'
                   /\ ~durable' => counted'[i] <= One(Seen(i)') + restarts' + evictions'
<1>0. /\ counted \in [EventIds -> Nat] /\ counted[i] \in Nat /\ pc \in [Posts -> Labels]
      /\ faults \in Nat /\ restarts \in Nat /\ evictions \in Nat
      /\ Cardinality(Claimed(i)) \in Nat
      /\ durable => counted[i] + Cardinality(Claimed(i)) <= One(i \in bizseen) + faults
      /\ ~durable => counted[i] <= One(Seen(i)) + restarts + evictions
  BY ClaimedType DEF TypeOK, CountInv, Labels
<1>1. ASSUME NEW p \in Posts, Post(p) PROVE Goal
  <2>1. durable' = durable /\ UNCHANGED <<bizseen, faults, restarts>> /\ pc[p] = "sent"
    BY <1>1 DEF Post
  <2>2. CASE durable \/ ~HasId(p)
    <3>1. UNCHANGED <<seen, evictions, counted>> /\ \E l \in {"done", "set"} : Goto(p, l)
      BY <1>1, <2>2 DEF Post, HasId
    <3>2. Claimed(i)' = Claimed(i)
      BY <1>0, <2>1, <3>1, ClaimedMoves DEF Labels
    <3>3. QED
      BY <1>0, <2>1, <3>1, <3>2 DEF One, Seen
  <2>3. CASE ~durable /\ HasId(p)
    <3>1. Memory(p)
      BY <1>1, <2>3 DEF Post, HasId
    <3>2. QED
      BY <2>1, <2>3, <3>1, MemoryCounts
  <2>4. QED
    BY <2>2, <2>3
<1>2. ASSUME NEW p \in Posts, SetReply(p) PROVE Goal
  <2>1. /\ durable /\ durable' /\ UNCHANGED faults
        /\ pc[p] = "set" /\ p \notin Claimed(i) /\ EventId[p] \in EventIds
    BY <1>2, IdTypes DEF SetReply, CallsInv, Claimed
  <2>2. CASE EventId[p] \in bizseen
    <3>1. UNCHANGED <<bizseen, counted>> /\ Goto(p, "done")
      BY <1>2, <2>2 DEF SetReply
    <3>2. Claimed(i)' = Claimed(i)
      BY <1>0, <2>1, <3>1, ClaimedMoves DEF Labels
    <3>3. QED
      BY <1>0, <2>1, <3>1, <3>2
  <2>3. CASE EventId[p] \notin bizseen
    <3>1. bizseen' = bizseen \cup {EventId[p]}
      BY <1>2, <2>3 DEF SetReply
    <3>2. CASE Goto(p, "done") /\ Count(p)
      <4>1. Claimed(i)' = Claimed(i)
        BY <1>0, <2>1, <3>2, ClaimedMoves DEF Labels
      <4>2. counted'[i] = IF i = EventId[p] THEN counted[i] + 1 ELSE counted[i]
        BY <1>0, <2>1, <3>2, CountFacts
      <4>3. QED
        BY <1>0, <2>1, <2>3, <3>1, <4>1, <4>2 DEF One
    <3>3. CASE Goto(p, "subject") /\ UNCHANGED counted
      <4>1. Cardinality(Claimed(i)') = Cardinality(Claimed(i)) + One(i = EventId[p])
        BY <1>0, <2>1, <3>3, ClaimedMoves, ClaimedMore DEF Labels, One
      <4>2. QED
        BY <1>0, <2>1, <2>3, <3>1, <3>3, <4>1 DEF One
    <3>4. QED
      BY <1>2, <2>3, <3>2, <3>3 DEF SetReply
  <2>4. QED
    BY <2>2, <2>3
<1>3. ASSUME NEW p \in Posts, SubjectReply(p) \/ GetReply(p) PROVE Goal
  <2>1. /\ durable /\ durable' /\ UNCHANGED <<bizseen, faults>>
        /\ pc[p] \in {"subject", "get"} /\ EventId[p] \in EventIds
    BY <1>3, IdTypes DEF SubjectReply, GetReply, CallsInv, obs
  <2>2. CASE Goto(p, "get") /\ UNCHANGED counted
    <3>1. Claimed(i)' = Claimed(i)
      BY <1>0, <2>1, <2>2, ClaimedMoves DEF Labels, Claimed
    <3>2. QED
      BY <1>0, <2>1, <2>2, <3>1
  <2>3. CASE Goto(p, "done") /\ Count(p)
    <3>1. counted'[i] = IF i = EventId[p] THEN counted[i] + 1 ELSE counted[i]
      BY <1>0, <2>1, <2>3, CountFacts
    <3>2. Cardinality(Claimed(i)') = Cardinality(Claimed(i)) - One(i = EventId[p])
      <4>1. /\ Claimed(i)' = Claimed(i) \ {p}
            /\ p \in Claimed(i) <=> i = EventId[p]
        BY <1>0, <2>1, <2>3, ClaimedMoves DEF Labels
      <4>2. CASE i = EventId[p]
        BY <4>1, <4>2, ClaimedLess DEF One
      <4>3. CASE i # EventId[p]
        <5>1. Claimed(i)' = Claimed(i)
          BY <4>1, <4>3
        <5>2. QED
          BY <1>0, <4>3, <5>1 DEF One
      <4>4. QED
        BY <4>2, <4>3
    <3>3. QED
      BY <1>0, <2>1, <3>1, <3>2 DEF One
  <2>4. QED
    BY <1>3, <2>2, <2>3 DEF SubjectReply, GetReply
<1>4. ASSUME NEW p \in Posts, CommandFails(p) PROVE Goal
  <2>1. /\ durable /\ durable' /\ UNCHANGED bizseen /\ faults' = faults + 1
        /\ EventId[p] \in EventIds /\ Goto(p, "done") /\ (Count(p) \/ UNCHANGED counted)
    BY <1>4, IdTypes DEF CommandFails, CallsInv, Memory
  <2>2. /\ Cardinality(Claimed(i)') \in Nat /\ Cardinality(Claimed(i)') <= Cardinality(Claimed(i))
    BY <1>0, <2>1, ClaimedMoves, ClaimedFewer DEF Labels
  <2>3. counted'[i] \in {counted[i], counted[i] + 1}
    BY <1>0, <2>1, CountFacts
  <2>4. QED
    BY <1>0, <2>1, <2>2, <2>3 DEF One
<1>5. ASSUME NEW p \in Posts, LateSet(p) PROVE Goal
  <2>1. UNCHANGED <<seen, counted, durable, faults, restarts, evictions>> /\ Claimed(i)' = Claimed(i)
        /\ bizseen \subseteq bizseen'
    BY <1>5 DEF LateSet, Claimed, obs
  <2>2. QED
    BY <1>0, <2>1 DEF One, Seen
<1>6. CASE Crash
  <2>1. /\ UNCHANGED <<bizseen, counted, durable, faults, evictions>> /\ restarts' = restarts + 1
        /\ Claimed(i)' \subseteq Claimed(i)
    BY <1>6 DEF Crash, Claimed
  <2>2. QED
    BY <1>0, <2>1, ClaimedFewer DEF One
<1>7. CASE Expire
  <2>1. /\ UNCHANGED <<seen, counted, durable, restarts, evictions>> /\ faults' = faults + 1
        /\ Claimed(i)' = Claimed(i)
    BY <1>7 DEF Expire, Claimed
  <2>2. QED
    BY <1>0, <2>1 DEF One, Seen
<1>8. CASE UNCHANGED vars
  BY <1>0, <1>8 DEF vars, obs, Claimed, Seen
<1>9. QED
  BY <1>1, <1>2, <1>3, <1>4, <1>5, <1>6, <1>7, <1>8 DEF Next

-----------------------------------------------------------------------------
(* No outcome is missing *)

LEMMA LedgerStep == TypeOK /\ CallsInv /\ LedgerInv /\ [Next]_vars => LedgerInv'
<1> SUFFICES ASSUME TypeOK, CallsInv, LedgerInv, [Next]_vars, faults' + restarts' = 0
             PROVE  LedgerInv'
  BY DEF LedgerInv
<1>0. /\ counted \in [EventIds -> Nat] /\ pc \in [Posts -> Labels]
      /\ faults \in Nat /\ restarts \in Nat /\ evictions \in Nat
      /\ seen \in Seq(EventIds) /\ Len(seen) <= SeenMax /\ bizseen \subseteq EventIds
  BY DEF TypeOK, Labels
<1>1. ASSUME NEW p \in Posts, Post(p) PROVE LedgerInv'
  <2>1. /\ durable' = durable /\ UNCHANGED <<bizseen, late, faults, restarts>> /\ pc[p] = "sent"
    BY <1>1 DEF Post
  <2>2. CASE durable \/ ~HasId(p)
    <3>1. /\ UNCHANGED <<seen, counted>>
          /\ (Goto(p, "done") /\ ~HasId(p)) \/ (Goto(p, "set") /\ durable)
      BY <1>1, <2>2 DEF Post, HasId
    <3>2. /\ \A q \in Posts \ {p} : pc'[q] = pc[q]
          /\ (pc'[p] = "set" /\ durable) \/ (pc'[p] = "done" /\ ~HasId(p))
      BY <1>0, <3>1, GotoFacts DEF Labels
    <3>3. \A j \in EventIds : Claimed(j)' = Claimed(j)
      BY <2>1, <3>2 DEF Claimed
    <3>4. QED
      BY <1>0, <2>1, <3>1, <3>2, <3>3 DEF LedgerInv, Seen, HasId
  <2>3. CASE ~durable /\ HasId(p)
    <3>1. Memory(p) /\ EventId[p] \in EventIds
      BY <1>1, <2>3, IdTypes DEF Post, HasId
    <3>2. \A q \in Posts \ {p} : pc'[q] = pc[q]
      BY <1>0, <3>1, GotoFacts DEF Memory, Labels
    <3>3. /\ \A j \in EventIds : Seen(j)' => j = EventId[p] \/ Seen(j)
          /\ \A j \in EventIds : counted[j] >= 1 => counted'[j] >= 1
          /\ counted'[EventId[p]] >= 1
      <4>1. CASE Seen(EventId[p]) /\ UNCHANGED <<seen, evictions, counted>>
        BY <1>0, <2>1, <2>3, <3>1, <4>1 DEF LedgerInv, Seen
      <4>2. CASE Admit(EventId[p]) /\ Count(p)
        <5>1. \A j \in EventIds : Seen(j)' => j = EventId[p] \/ Seen(j)
          BY <1>0, <3>1, <4>2, AdmitFacts
        <5>2. /\ \A j \in EventIds : counted[j] >= 1 => counted'[j] >= 1
              /\ counted'[EventId[p]] >= 1
          BY <1>0, <3>1, <4>2, CountFacts
        <5>3. QED
          BY <5>1, <5>2
      <4>3. QED
        BY <3>1, <4>1, <4>2 DEF Memory
    <3>4. \A q \in Posts : HasId(q) => EventId[q] \in EventIds
      BY IdTypes
    <3>5. QED
      BY <1>0, <2>1, <2>3, <3>2, <3>3, <3>4 DEF LedgerInv, HasId
  <2>4. QED
    BY <2>2, <2>3
<1>2. ASSUME NEW p \in Posts, SetReply(p) PROVE LedgerInv'
  <2>1. /\ durable /\ durable' /\ UNCHANGED <<late, faults, restarts>>
        /\ pc[p] = "set" /\ EventId[p] \in EventIds
    BY <1>2, IdTypes DEF SetReply, CallsInv
  <2>2. \E l \in {"subject", "done"} : Goto(p, l)
    BY <1>2 DEF SetReply
  <2>3. \A q \in Posts \ {p} : pc'[q] = pc[q]
    BY <1>0, <2>2, GotoFacts DEF Labels
  <2>4. bizseen' = bizseen \cup {EventId[p]}
    BY <1>2 DEF SetReply
  <2>5. \A j \in EventIds : /\ Claimed(j) \subseteq Claimed(j)'
                            /\ counted[j] >= 1 => counted'[j] >= 1
    BY <1>0, <1>2, <2>1, <2>3, CountFacts DEF Claimed, SetReply
  <2>6. EventId[p] \notin bizseen => counted'[EventId[p]] >= 1 \/ p \in Claimed(EventId[p])'
    <3>1. ASSUME Goto(p, "subject") PROVE p \in Claimed(EventId[p])'
      BY <1>0, <3>1, GotoFacts DEF Labels, Claimed
    <3>2. ASSUME Count(p) PROVE counted'[EventId[p]] >= 1
      BY <1>0, <2>1, <3>2, CountFacts
    <3>3. QED
      BY <1>2, <3>1, <3>2 DEF SetReply
  <2>7. QED
    BY <1>0, <2>1, <2>3, <2>4, <2>5, <2>6 DEF LedgerInv, HasId
<1>3. ASSUME NEW p \in Posts, SubjectReply(p) \/ GetReply(p) PROVE LedgerInv'
  <2>1. /\ durable /\ durable' /\ UNCHANGED <<bizseen, late, faults, restarts>>
        /\ pc[p] \in {"subject", "get"} /\ EventId[p] \in EventIds
    BY <1>3, IdTypes DEF SubjectReply, GetReply, CallsInv, obs
  <2>2. \A q \in Posts \ {p} : pc'[q] = pc[q]
    BY <1>0, <1>3, GotoFacts DEF SubjectReply, GetReply, Labels
  <2>3. \A j \in EventIds : counted[j] >= 1 => counted'[j] >= 1
    BY <1>0, <1>3, <2>1, CountFacts DEF SubjectReply, GetReply
  <2>4. \A j \in EventIds : /\ j # EventId[p] => Claimed(j)' = Claimed(j)
                            /\ counted'[EventId[p]] >= 1 \/ Claimed(EventId[p])' = Claimed(EventId[p])
    <3>1. ASSUME NEW j \in EventIds, j # EventId[p] PROVE Claimed(j)' = Claimed(j)
      BY <2>2, <3>1 DEF Claimed
    <3>2. CASE Count(p)
      BY <1>0, <2>1, <3>1, <3>2, CountFacts
    <3>3. CASE Goto(p, "get")
      <4>1. Claimed(EventId[p])' = Claimed(EventId[p])
        BY <1>0, <2>1, <2>2, <3>3, GotoFacts DEF Claimed, Labels
      <4>2. QED
        BY <3>1, <4>1
    <3>4. QED
      BY <1>3, <3>2, <3>3 DEF SubjectReply, GetReply
  <2>5. QED
    BY <1>0, <2>1, <2>2, <2>3, <2>4 DEF LedgerInv
<1>4. ASSUME NEW p \in Posts, LateSet(p) PROVE LedgerInv'
  BY <1>4, <1>0 DEF LateSet, LedgerInv, obs
<1>5. ASSUME NEW p \in Posts, CommandFails(p) PROVE FALSE
  BY <1>5, <1>0 DEF CommandFails
<1>6. CASE Crash \/ Expire
  BY <1>6, <1>0 DEF Crash, Expire
<1>7. CASE UNCHANGED vars
  BY <1>7 DEF vars, obs, LedgerInv, Claimed, Seen
<1>8. QED
  BY <1>1, <1>2, <1>3, <1>4, <1>5, <1>6, <1>7 DEF Next

-----------------------------------------------------------------------------
(* The theorems *)

LEMMA Inductive == Spec => []IInv
<1>1. Init => IInv
  <2> SUFFICES ASSUME Init PROVE IInv
    OBVIOUS
  <2>1. TypeOK /\ CallsInv
    BY OutcomesAssumption DEF Init, TypeOK, CallsInv
  <2>2. ASSUME NEW i \in EventIds PROVE Cardinality(Claimed(i)) = 0
    <3>1. Claimed(i) = {}
      BY DEF Init, Claimed
    <3>2. QED
      BY <3>1, FS_EmptySet
  <2>3. CountInv
    BY <2>2 DEF Init, CountInv, One, Seen
  <2>4. LedgerInv
    BY DEF Init, LedgerInv, Seen
  <2>5. QED
    BY <2>1, <2>3, <2>4 DEF IInv
<1>2. IInv /\ [Next]_vars => IInv'
  BY TypeStep, CallsStep, CountStep, LedgerStep DEF IInv
<1>3. QED
  BY <1>1, <1>2, PTL DEF Spec

\* Every reachable state is well typed; in particular the window never
\* outgrows its size (seenBusinessIds).
THEOREM TypeCorrect == Spec => []TypeOK
BY Inductive, PTL DEF IInv

\* An outcome is counted more than once only for an answer Redis did not give,
\* a key that expired or, without Redis, a restart or a full window, however
\* posts, retries and late commands interleave (recordBusinessOutcome).
THEOREM OvercountPaidKept == Spec => []OvercountPaid
<1>1. IInv => OvercountPaid
  <2> SUFFICES ASSUME IInv, NEW i \in EventIds
               PROVE  counted[i] <= 1 + faults + (IF durable THEN 0 ELSE restarts + evictions)
    BY DEF OvercountPaid
  <2>1. /\ counted[i] \in Nat /\ faults \in Nat /\ restarts \in Nat /\ evictions \in Nat
        /\ Cardinality(Claimed(i)) \in Nat
    BY ClaimedType DEF IInv, TypeOK
  <2>2. QED
    BY <2>1 DEF IInv, CountInv, One
<1>2. QED
  BY <1>1, Inductive, PTL

\* While Redis answers and no router restarts, an outcome that was answered is
\* counted: the post that found its id taken relies on one that counts it.
THEOREM UncountedExcusedKept == Spec => []UncountedExcused
<1>1. IInv => UncountedExcused
  <2> SUFFICES ASSUME IInv, faults + restarts = 0, NEW i \in EventIds, Settled(i)
               PROVE  counted[i] >= 1
    BY DEF UncountedExcused, NeverUncounted
  <2>1. PICK p \in Posts : EventId[p] = i /\ pc[p] = "done" /\ HasId(p)
    BY DEF EventIds, Settled, HasId
  <2>2. Claimed(i) = {}
    BY DEF Settled, Claimed
  <2>3. QED
    BY <2>1, <2>2 DEF IInv, LedgerInv, TypeOK
<1>2. QED
  BY <1>1, Inductive, PTL

-----------------------------------------------------------------------------
(* An id that drifted is reported *)

\* A retry keeps its subject: an event id is the id of one logical outcome.
OneSubject ==
  \A p, q \in Posts : HasId(p) /\ EventId[p] = EventId[q] => Subject[p] = Subject[q]

\* The ids of a subject that are counted and are not its first.
Later(s) == {i \in IdsOf(s) \cap bizseen : Claimed(i) = {} /\ i # bizsubj[s]}

\* One of the claimed posts of an id waits for the key of its subject.
Asking(i) == \E p \in Claimed(i) : pc[p] = "subject"

\* While Redis answers, two posts never claim one id; a subject's key has the
\* first id, which is counted; while it has none, every id that got past its own
\* SET is about to ask; and what was reported is what was counted later.
KeyInv(s) ==
  /\ bizsubj[s] \in IdsOf(s) \cup {NoId}
  /\ \A i \in IdsOf(s) : bizsubj[s] = i => i \in bizseen /\ Claimed(i) = {}
  /\ bizsubj[s] = NoId => \A i \in IdsOf(s) \cap bizseen : Asking(i)
  /\ \A p \in Posts : pc[p] = "get" /\ Subject[p] = s => bizsubj[s] # NoId
  /\ varied[s] = Cardinality(Later(s))

SubjectInv ==
  durable /\ faults + restarts = 0 =>
    /\ \A p, q \in Posts :
         EventId[p] = EventId[q] /\ {pc[p], pc[q]} \subseteq {"subject", "get"} => p = q
    /\ \A s \in Subjects : KeyInv(s)

LEMMA IdsFinite ==
  ASSUME NEW s
  PROVE  /\ IdsOf(s) \subseteq EventIds /\ IsFiniteSet(IdsOf(s))
         /\ IsFiniteSet(Later(s)) /\ Cardinality(Later(s)) \in Nat
<1> DEFINE all == {EventId[p] : p \in Posts}
           idOf == [p \in Posts |-> EventId[p]]
<1>1. idOf \in Surjection(Posts, all)
  BY DEF Surjection
<1>2. IsFiniteSet(all)
  BY <1>1, OutcomesAssumption, FS_Surjection
<1>3. IdsOf(s) \subseteq all /\ Later(s) \subseteq IdsOf(s)
  BY DEF IdsOf, Later
<1>4. QED
  BY <1>2, <1>3, FS_Subset, FS_CardinalityType DEF IdsOf, EventIds

\* The subject an id belongs to is the subject of every post with the id.
LEMMA IdsApart ==
  ASSUME OneSubject, NEW p \in Posts, HasId(p), NEW s
  PROVE  EventId[p] \in IdsOf(s) <=> Subject[p] = s
BY DEF OneSubject, IdsOf, HasId

\* A step that moves the claims, the keys and the reports of no subject.
LEMMA SubjectStays ==
  ASSUME SubjectInv, UNCHANGED <<bizseen, bizsubj, varied, durable, faults, restarts>>,
         \A p \in Posts : IF pc[p] \in {"subject", "get"} THEN pc'[p] = pc[p]
                                                         ELSE pc'[p] \notin {"subject", "get"}
  PROVE  SubjectInv'
<1>1. \A i : Claimed(i)' = Claimed(i)
  BY DEF Claimed
<1>2. \A i : Asking(i)' <=> Asking(i)
  BY <1>1 DEF Asking, Claimed
<1>3. \A s : Later(s)' = Later(s)
  BY <1>1 DEF Later
<1>4. \A p \in Posts : pc'[p] \in {"subject", "get"} => pc[p] = pc'[p]
  OBVIOUS
<1>5. QED
  BY <1>1, <1>2, <1>3, <1>4 DEF SubjectInv, KeyInv

\* A post whose id is fresh claims it; it was no subject's before.
LEMMA SetClaims ==
  ASSUME TypeOK, CallsInv, LedgerInv, SubjectInv, OneSubject, durable, faults + restarts = 0,
         NEW p \in Posts, SetReply(p), EventId[p] \notin bizseen
  PROVE  SubjectInv'
<1>0. /\ pc \in [Posts -> Labels] /\ pc[p] = "set" /\ HasId(p) /\ EventId[p] \in EventIds
      /\ bizseen' = bizseen \cup {EventId[p]} /\ UNCHANGED <<bizsubj, varied, durable, faults, restarts>>
      /\ IF HasSubject(p) THEN Goto(p, "subject") ELSE Goto(p, "done")
  BY IdTypes DEF SetReply, CallsInv, TypeOK, Labels, HasSubject
<1>1. \A q \in Posts \ {p} : pc'[q] = pc[q]
  BY <1>0, GotoFacts DEF Labels
<1>2. pc'[p] = IF HasSubject(p) THEN "subject" ELSE "done"
  BY <1>0, GotoFacts DEF Labels
<1>3. \A q \in Posts : EventId[q] = EventId[p] => pc[q] \notin {"subject", "get", "done"}
  BY <1>0 DEF LedgerInv, HasId
<1>4. Claimed(EventId[p]) = {} /\ Claimed(EventId[p])' = IF HasSubject(p) THEN {p} ELSE {}
  BY <1>1, <1>2, <1>3 DEF Claimed
<1>5. \A i : i # EventId[p] => Claimed(i)' = Claimed(i) /\ (Asking(i)' <=> Asking(i))
  BY <1>1 DEF Claimed, Asking
<1>6. \A q, r \in Posts :
        EventId[q] = EventId[r] /\ {pc'[q], pc'[r]} \subseteq {"subject", "get"} => q = r
  BY <1>0, <1>1, <1>3 DEF SubjectInv, KeyInv
<1>7. ASSUME NEW s \in Subjects
      PROVE  KeyInv(s)'
  <2>1. EventId[p] \in IdsOf(s) => HasSubject(p) /\ Subject[p] = s
    BY <1>0, IdsApart DEF HasSubject, Subjects
  <2>2. HasSubject(p) => Asking(EventId[p])'
    BY <1>2, <1>4 DEF Asking
  <2>3. Later(s)' = Later(s)
    BY <1>0, <1>4, <1>5, <2>1 DEF Later
  <2>4. QED
    BY <1>0, <1>1, <1>2, <1>5, <2>1, <2>2, <2>3 DEF SubjectInv, KeyInv
<1>8. QED
  BY <1>6, <1>7 DEF SubjectInv, KeyInv

\* A claimed post that is done: its id is claimed no more, the others stay.
LEMMA ClaimEnds ==
  ASSUME TypeOK, CallsInv, SubjectInv, OneSubject, durable, faults + restarts = 0,
         NEW p \in Posts, pc[p] \in {"subject", "get"}, Goto(p, "done")
  PROVE  /\ HasId(p) /\ EventId[p] \in EventIds /\ Subject[p] \in Subjects
         /\ p \in Claimed(EventId[p]) /\ Claimed(EventId[p])' = {}
         /\ \A q \in Posts \ {p} : pc'[q] = pc[q]
         /\ \A i : i # EventId[p] => Claimed(i)' = Claimed(i) /\ (Asking(i)' <=> Asking(i))
         /\ \A q, r \in Posts :
              EventId[q] = EventId[r] /\ {pc'[q], pc'[r]} \subseteq {"subject", "get"} => q = r
         /\ \A s : EventId[p] \in IdsOf(s) <=> Subject[p] = s
         /\ pc'[p] = "done"
<1>1. HasId(p) /\ EventId[p] \in EventIds /\ Subject[p] \in Subjects
  BY IdTypes DEF CallsInv
<1>2. pc'[p] = "done" /\ \A q \in Posts \ {p} : pc'[q] = pc[q]
  BY GotoFacts DEF TypeOK, Labels
<1>3. \A q \in Posts : EventId[q] = EventId[p] /\ pc[q] \in {"subject", "get"} => q = p
  BY DEF SubjectInv, KeyInv
<1>4. p \in Claimed(EventId[p]) /\ Claimed(EventId[p])' = {}
  BY <1>2, <1>3 DEF Claimed
<1>5. \A i : i # EventId[p] => Claimed(i)' = Claimed(i) /\ (Asking(i)' <=> Asking(i))
  BY <1>2 DEF Claimed, Asking
<1>6. \A q, r \in Posts :
        EventId[q] = EventId[r] /\ {pc'[q], pc'[r]} \subseteq {"subject", "get"} => q = r
  BY <1>2 DEF SubjectInv, KeyInv
<1>7. QED
  BY <1>1, <1>2, <1>4, <1>5, <1>6, IdsApart

\* The first id of a subject: every other one it has still asks, so none was
\* counted later yet.
LEMMA FirstClaims ==
  ASSUME TypeOK, CallsInv, LedgerInv, SubjectInv, OneSubject, durable, faults + restarts = 0,
         NEW p \in Posts, SubjectReply(p), bizsubj[Subject[p]] = NoId
  PROVE  SubjectInv'
<1>0. /\ pc[p] = "subject" /\ Goto(p, "done")
      /\ bizsubj' = [bizsubj EXCEPT ![Subject[p]] = EventId[p]]
      /\ UNCHANGED <<bizseen, varied, durable, faults, restarts>>
  BY DEF SubjectReply, obs
<1>1. /\ HasId(p) /\ EventId[p] \in EventIds /\ Subject[p] \in Subjects
      /\ Claimed(EventId[p])' = {}
      /\ \A q \in Posts \ {p} : pc'[q] = pc[q]
      /\ \A i : i # EventId[p] => Claimed(i)' = Claimed(i) /\ (Asking(i)' <=> Asking(i))
      /\ \A q, r \in Posts :
           EventId[q] = EventId[r] /\ {pc'[q], pc'[r]} \subseteq {"subject", "get"} => q = r
      /\ \A s : EventId[p] \in IdsOf(s) <=> Subject[p] = s
      /\ pc'[p] = "done"
  BY <1>0, ClaimEnds
<1>2. EventId[p] \in bizseen
  BY <1>0, <1>1 DEF LedgerInv
<1>3. /\ bizsubj'[Subject[p]] = EventId[p]
      /\ \A s \in Subjects \ {Subject[p]} : bizsubj'[s] = bizsubj[s]
  BY <1>0, <1>1 DEF TypeOK
<1>4. ASSUME NEW s \in Subjects
      PROVE  KeyInv(s)'
  <2>1. CASE s = Subject[p]
    <3>1. \A i \in IdsOf(s) \cap bizseen : Claimed(i) # {}
      BY <2>1 DEF SubjectInv, KeyInv, Asking
    <3>2. Later(s) = {} /\ Later(s)' = {}
      BY <1>0, <1>1, <1>3, <2>1, <3>1 DEF Later
    <3>3. varied'[s] = Cardinality(Later(s)')
      BY <1>0, <3>2 DEF SubjectInv, KeyInv
    <3>4. QED
      BY <1>0, <1>1, <1>2, <1>3, <2>1, <3>3 DEF HasId, KeyInv
  <2>2. CASE s # Subject[p]
    <3>1. EventId[p] \notin IdsOf(s) /\ bizsubj'[s] = bizsubj[s]
      BY <1>1, <1>3, <2>2
    <3>2. Later(s)' = Later(s)
      BY <1>0, <1>1, <3>1 DEF Later
    <3>3. QED
      BY <1>0, <1>1, <3>1, <3>2 DEF SubjectInv, KeyInv
  <2>3. QED
    BY <2>1, <2>2
<1>5. QED
  BY <1>1, <1>4 DEF SubjectInv, KeyInv

\* The subject is taken: the post goes and looks by whom.
LEMMA SubjectAsks ==
  ASSUME TypeOK, CallsInv, SubjectInv, OneSubject, durable, faults + restarts = 0,
         NEW p \in Posts, SubjectReply(p), bizsubj[Subject[p]] # NoId
  PROVE  SubjectInv'
<1>0. /\ pc[p] = "subject" /\ Goto(p, "get") /\ Subject[p] \in Subjects
      /\ UNCHANGED <<bizseen, bizsubj, varied, durable, faults, restarts>>
      /\ HasId(p)
  BY IdTypes DEF SubjectReply, obs, CallsInv
<1>1. pc'[p] = "get" /\ \A q \in Posts \ {p} : pc'[q] = pc[q]
  BY <1>0, GotoFacts DEF TypeOK, Labels
<1>2. \A i : Claimed(i)' = Claimed(i)
  BY <1>0, <1>1 DEF Claimed
<1>3. \A s : Later(s)' = Later(s)
  BY <1>0, <1>2 DEF Later
<1>4. \A i : i # EventId[p] => (Asking(i)' <=> Asking(i))
  BY <1>1, <1>2 DEF Asking, Claimed
<1>5. ASSUME NEW s \in Subjects PROVE KeyInv(s)'
  <2>1. bizsubj[s] = NoId => \A i \in IdsOf(s) : i # EventId[p]
    BY <1>0, IdsApart
  <2>2. QED
    BY <1>0, <1>1, <1>2, <1>3, <1>4, <2>1 DEF SubjectInv, KeyInv
<1>6. QED
  BY <1>0, <1>1, <1>5 DEF SubjectInv

\* The look finds the id that came first, which is never the post's own: it is
\* counted already, and the post's is claimed.
LEMMA DriftSeen ==
  ASSUME TypeOK, CallsInv, LedgerInv, SubjectInv, OneSubject, durable, faults + restarts = 0,
         NEW p \in Posts, GetReply(p)
  PROVE  SubjectInv'
<1>0. /\ pc[p] = "get" /\ Goto(p, "done")
      /\ UNCHANGED <<bizseen, bizsubj, durable, faults, restarts>>
  BY DEF GetReply, obs
<1>1. /\ HasId(p) /\ EventId[p] \in EventIds /\ Subject[p] \in Subjects
      /\ p \in Claimed(EventId[p]) /\ Claimed(EventId[p])' = {}
      /\ \A q \in Posts \ {p} : pc'[q] = pc[q]
      /\ \A i : i # EventId[p] => Claimed(i)' = Claimed(i) /\ (Asking(i)' <=> Asking(i))
      /\ \A q, r \in Posts :
           EventId[q] = EventId[r] /\ {pc'[q], pc'[r]} \subseteq {"subject", "get"} => q = r
      /\ \A s : EventId[p] \in IdsOf(s) <=> Subject[p] = s
      /\ pc'[p] = "done"
  BY <1>0, ClaimEnds
<1>2. EventId[p] \in bizseen /\ bizsubj[Subject[p]] # NoId /\ bizsubj[Subject[p]] # EventId[p]
  BY <1>0, <1>1 DEF LedgerInv, SubjectInv, KeyInv
<1>3. /\ varied'[Subject[p]] = varied[Subject[p]] + 1
      /\ \A s \in Subjects \ {Subject[p]} : varied'[s] = varied[s]
  BY <1>1, <1>2 DEF GetReply, TypeOK
<1>4. ASSUME NEW s \in Subjects PROVE KeyInv(s)'
  <2>1. CASE s = Subject[p]
    <3>1. EventId[p] \notin Later(s) /\ Later(s)' = Later(s) \cup {EventId[p]}
      BY <1>0, <1>1, <1>2, <2>1 DEF Later
    <3>2. varied'[s] = Cardinality(Later(s)')
      <4>1. varied[s] = Cardinality(Later(s))
        BY DEF SubjectInv, KeyInv
      <4>2. Cardinality(Later(s) \cup {EventId[p]}) = Cardinality(Later(s)) + 1
        BY <3>1, IdsFinite, FS_AddElement
      <4>3. QED
        BY <1>3, <2>1, <3>1, <4>1, <4>2
    <3>3. QED
      <4>1. KeyInv(s) /\ bizsubj'[s] = bizsubj[s] /\ bizseen' = bizseen /\ bizsubj[s] # NoId
        BY <1>0, <1>2, <2>1 DEF SubjectInv
      <4>2. \A i \in IdsOf(s) : bizsubj'[s] = i => i \in bizseen' /\ Claimed(i)' = {}
        BY <1>1, <4>1 DEF KeyInv
      <4>3. QED
        BY <3>2, <4>1, <4>2 DEF KeyInv
  <2>2. CASE s # Subject[p]
    <3>1. EventId[p] \notin IdsOf(s) /\ varied'[s] = varied[s]
      BY <1>1, <1>3, <2>2
    <3>2. Later(s)' = Later(s)
      BY <1>0, <1>1, <3>1 DEF Later
    <3>3. QED
      BY <1>0, <1>1, <3>1, <3>2 DEF SubjectInv, KeyInv
  <2>3. QED
    BY <2>1, <2>2
<1>5. QED
  BY <1>1, <1>4 DEF SubjectInv

LEMMA SubjectStep ==
  OneSubject => (TypeOK /\ CallsInv /\ LedgerInv /\ SubjectInv /\ [Next]_vars => SubjectInv')
<1> SUFFICES ASSUME OneSubject, TypeOK, CallsInv, LedgerInv, SubjectInv, [Next]_vars,
                    durable', faults' + restarts' = 0
             PROVE  SubjectInv'
  BY DEF SubjectInv
<1>0. durable /\ faults + restarts = 0 /\ faults \in Nat /\ restarts \in Nat
  <2>1. faults \in Nat /\ restarts \in Nat
    BY DEF TypeOK
  <2>2. /\ durable' = durable
        /\ faults' = faults \/ faults' = faults + 1
        /\ restarts' = restarts \/ restarts' = restarts + 1
    <3>1. CASE Crash \/ Expire \/ UNCHANGED vars
      BY <3>1 DEF Crash, Expire, vars, obs
    <3>2. ASSUME NEW p \in Posts, Post(p) \/ SetReply(p)
          PROVE  UNCHANGED <<durable, faults, restarts>>
      BY <3>2 DEF Post, SetReply
    <3>3. ASSUME NEW p \in Posts, SubjectReply(p) \/ GetReply(p) \/ LateSet(p)
          PROVE  UNCHANGED <<durable, faults, restarts>>
      BY <3>3 DEF SubjectReply, GetReply, LateSet, obs
    <3>4. ASSUME NEW p \in Posts, CommandFails(p)
          PROVE  UNCHANGED <<durable, restarts>> /\ faults' = faults + 1
      BY <3>4 DEF CommandFails
    <3>5. QED
      BY <3>1, <3>2, <3>3, <3>4 DEF Next
  <2>3. QED
    BY <2>1, <2>2
<1>1. ASSUME NEW p \in Posts, Post(p) PROVE SubjectInv'
  <2>1. /\ pc[p] = "sent" /\ UNCHANGED <<bizseen, bizsubj, varied, durable, faults, restarts>>
        /\ \E l \in {"set", "done"} : Goto(p, l)
    BY <1>1, <1>0 DEF Post
  <2>2. pc'[p] \in {"set", "done"} /\ \A q \in Posts \ {p} : pc'[q] = pc[q]
    BY <2>1, GotoFacts DEF TypeOK, Labels
  <2>3. QED
    BY <2>1, <2>2, SubjectStays
<1>2. ASSUME NEW p \in Posts, SetReply(p) PROVE SubjectInv'
  <2>1. CASE EventId[p] \in bizseen
    <3>1. /\ pc[p] = "set" /\ UNCHANGED <<bizseen, bizsubj, varied, durable, faults, restarts>>
          /\ Goto(p, "done")
      BY <1>2, <2>1 DEF SetReply
    <3>2. pc'[p] = "done" /\ \A q \in Posts \ {p} : pc'[q] = pc[q]
      BY <3>1, GotoFacts DEF TypeOK, Labels
    <3>3. QED
      BY <3>1, <3>2, SubjectStays
  <2>2. CASE EventId[p] \notin bizseen
    BY <1>0, <1>2, <2>2, SetClaims
  <2>3. QED
    BY <2>1, <2>2
<1>3. ASSUME NEW p \in Posts, SubjectReply(p) PROVE SubjectInv'
  BY <1>0, <1>3, FirstClaims, SubjectAsks
<1>4. ASSUME NEW p \in Posts, GetReply(p) PROVE SubjectInv'
  BY <1>0, <1>4, DriftSeen
<1>5. ASSUME NEW p \in Posts, LateSet(p) PROVE FALSE
  BY <1>0, <1>5 DEF LateSet, LedgerInv
<1>6. ASSUME NEW p \in Posts, CommandFails(p) PROVE FALSE
  BY <1>0, <1>6 DEF CommandFails
<1>7. CASE Crash \/ Expire
  BY <1>0, <1>7 DEF Crash, Expire
<1>8. CASE UNCHANGED vars
  BY <1>8, SubjectStays DEF vars, obs
<1>9. QED
  BY <1>1, <1>2, <1>3, <1>4, <1>5, <1>6, <1>7, <1>8 DEF Next

\* "two concurrent fresh ids cannot both claim first": while Redis answers and
\* nothing expires, when every post is answered each id of a subject but the one
\* its key holds was reported once, whatever order the awaits of the posts took.
THEOREM DriftReportedKept ==
  ASSUME OneSubject
  PROVE  Spec => []DriftReported
<1>1. Init => SubjectInv
  <2> SUFFICES ASSUME Init, NEW s \in Subjects PROVE KeyInv(s)
    BY DEF Init, SubjectInv
  <2>1. Later(s) = {}
    BY DEF Later, Init
  <2>2. QED
    BY <2>1, FS_EmptySet DEF Init, KeyInv, IdsOf
<1>2. IInv /\ SubjectInv /\ [Next]_vars => SubjectInv'
  BY OneSubject, SubjectStep DEF IInv
<1>3. IInv /\ SubjectInv => DriftReported
  <2> SUFFICES ASSUME IInv, SubjectInv, durable, faults + restarts = 0,
                      \A p \in Posts : pc[p] = "done", NEW s \in Subjects
               PROVE  varied[s] = IF IdsOf(s) = {} THEN 0 ELSE Cardinality(IdsOf(s)) - 1
    BY DEF DriftReported
  <2>1. \A i : Claimed(i) = {} /\ ~Asking(i)
    BY DEF Claimed, Asking
  <2>2. \A i \in IdsOf(s) : i \in bizseen
    BY DEF IInv, LedgerInv, IdsOf, HasId
  <2>3. CASE IdsOf(s) = {}
    <3>1. Later(s) = {}
      BY <2>3 DEF Later
    <3>2. QED
      BY <2>3, <3>1, FS_EmptySet DEF SubjectInv, KeyInv
  <2>4. CASE IdsOf(s) # {}
    <3>1. bizsubj[s] \in IdsOf(s)
      BY <2>1, <2>2, <2>4 DEF SubjectInv, KeyInv
    <3>2. Later(s) = IdsOf(s) \ {bizsubj[s]}
      BY <2>1, <2>2 DEF Later
    <3>3. QED
      BY <2>4, <3>1, <3>2, IdsFinite, FS_RemoveElement DEF SubjectInv, KeyInv
  <2>5. QED
    BY <2>3, <2>4
<1>4. QED
  BY <1>1, <1>2, <1>3, Inductive, PTL DEF Spec
=============================================================================
