--------------------------- MODULE BusinessOutcomes ---------------------------
(***************************************************************************)
(* The business-outcome ledger of the event router: recordBusinessOutcome, *)
(* for the posts of one event type and outcome that several clients send   *)
(* at the same time.  An outcome is counted once per event id: Redis       *)
(* remembers the counted ids, a window in memory stands in when Redis does *)
(* not answer, and an event id that changes for one subject is reported.   *)
(*                                                                         *)
(* A post awaits each Redis command, and the others run meanwhile.  A      *)
(* command that timed out may still be carried out later, or never.        *)
(***************************************************************************)
EXTENDS Naturals, Sequences, FiniteSets

CONSTANTS
  Posts,        \* the posts, retries of one logical outcome included
  EventId,      \* [Posts -> id or NoId]: payload.eventId
  Subject,      \* [Posts -> subject or NoSubject]
  NoId, NoSubject,
  SeenMax,      \* SEEN_BUSINESS_MAX, the size of the window in memory
  Faults,       \* the kinds of failure that may happen
  MaxFaults     \* how many of them, all kinds together

ASSUME OutcomesAssumption ==
  /\ IsFiniteSet(Posts)
  /\ DOMAIN EventId = Posts /\ DOMAIN Subject = Posts
  /\ SeenMax \in Nat \ {0}
  /\ Faults \subseteq {"crash", "redis", "expire"}
  /\ MaxFaults \in Nat

EventIds == {EventId[p] : p \in Posts} \ {NoId}
Subjects == {Subject[p] : p \in Posts} \ {NoSubject}

VARIABLES
  bizseen,   \* Redis: the ids with a hermes:bizseen key
  bizsubj,   \* Redis: [Subjects -> the first id, or NoId]
  late,      \* SETs that timed out and that Redis may still carry out
  seen,      \* memory: seenBusinessIds in insertion order
  pc,        \* where each post is
  counted,   \* how often each id was counted, over all restarts
  varied,    \* how often a varied id was reported for each subject
  durable,   \* is a Redis configured; never changes
  evictions, restarts, faults  \* what the counts may be excused by

obs  == <<durable, evictions, restarts, faults>>
vars == <<bizseen, bizsubj, late, seen, pc, counted, varied, obs>>

Init ==
  /\ bizseen = {} /\ bizsubj = [s \in Subjects |-> NoId] /\ late = {}
  /\ seen = <<>>
  /\ pc = [p \in Posts |-> "sent"]
  /\ counted = [i \in EventIds |-> 0]
  /\ varied = [s \in Subjects |-> 0]
  /\ durable \in BOOLEAN /\ evictions = 0 /\ restarts = 0 /\ faults = 0

MayFail(kind) == kind \in Faults /\ faults + restarts < MaxFaults

Goto(p, label) == pc' = [pc EXCEPT ![p] = label]

Count(p) == counted' = [counted EXCEPT ![EventId[p]] = @ + 1]

Seen(i) == \E k \in DOMAIN seen : seen[k] = i

\* Over the maximum the oldest id goes.
Admit(i) ==
  \/ /\ Len(seen) < SeenMax
     /\ seen' = Append(seen, i) /\ UNCHANGED evictions
  \/ /\ Len(seen) = SeenMax
     /\ seen' = Append(Tail(seen), i) /\ evictions' = evictions + 1

\* Set.add keeps a member's place.
Remember(i) ==
  \/ Seen(i) /\ UNCHANGED <<seen, evictions>>
  \/ ~Seen(i) /\ Admit(i)

\* memoryBizSeen: the window in memory decides.
Memory(p) ==
  /\ Goto(p, "done")
  /\ \/ Seen(EventId[p]) /\ UNCHANGED <<seen, evictions, counted>>
     \/ ~Seen(EventId[p]) /\ Admit(EventId[p]) /\ Count(p)

-----------------------------------------------------------------------------
\* The post arrives; without an id it is counted every time it comes.
Post(p) ==
  /\ pc[p] = "sent"
  /\ \/ /\ EventId[p] = NoId
        /\ Goto(p, "done") /\ UNCHANGED <<seen, evictions, counted>>
     \/ /\ EventId[p] # NoId /\ durable
        /\ Goto(p, "set") /\ UNCHANGED <<seen, evictions, counted>>
     \/ EventId[p] # NoId /\ ~durable /\ Memory(p)
  /\ UNCHANGED <<bizseen, bizsubj, late, varied, durable, restarts, faults>>

\* Mutant: SET without NX, the id always looks fresh.
SetReplyAlways(p) ==
  /\ pc[p] = "set"
  /\ bizseen' = bizseen \cup {EventId[p]} /\ Remember(EventId[p])
  /\ \/ Subject[p] = NoSubject /\ Goto(p, "done") /\ Count(p)
     \/ Subject[p] # NoSubject /\ Goto(p, "subject") /\ UNCHANGED counted
  /\ UNCHANGED <<bizsubj, late, varied, durable, restarts, faults>>

\* SET hermes:bizseen NX and what follows its reply.
SetReply(p) ==
  /\ pc[p] = "set"
  /\ \/ /\ EventId[p] \in bizseen
        /\ Goto(p, "done") /\ UNCHANGED <<bizseen, seen, evictions, counted>>
     \/ /\ EventId[p] \notin bizseen
        /\ bizseen' = bizseen \cup {EventId[p]} /\ Remember(EventId[p])
        /\ \/ Subject[p] = NoSubject /\ Goto(p, "done") /\ Count(p)
           \/ Subject[p] # NoSubject /\ Goto(p, "subject") /\ UNCHANGED counted
  /\ UNCHANGED <<bizsubj, late, varied, durable, restarts, faults>>

\* Mutant: SET without NX, the last id of the subject wins unnoticed.
SubjectReplyOverwriting(p) ==
  /\ pc[p] = "subject"
  /\ bizsubj' = [bizsubj EXCEPT ![Subject[p]] = EventId[p]]
  /\ Goto(p, "done") /\ Count(p)
  /\ UNCHANGED <<bizseen, late, seen, varied, obs>>

\* Mutant: a subject that is taken makes the post a duplicate.
SubjectReplyDropping(p) ==
  /\ pc[p] = "subject"
  /\ Goto(p, "done")
  /\ \/ /\ bizsubj[Subject[p]] = NoId /\ Count(p)
        /\ bizsubj' = [bizsubj EXCEPT ![Subject[p]] = EventId[p]]
     \/ bizsubj[Subject[p]] # NoId /\ UNCHANGED <<bizsubj, counted>>
  /\ UNCHANGED <<bizseen, late, seen, varied, obs>>

\* SET hermes:bizsubj NX: the first id of the subject, or a look at it.
SubjectReply(p) ==
  /\ pc[p] = "subject"
  /\ \/ /\ bizsubj[Subject[p]] = NoId
        /\ bizsubj' = [bizsubj EXCEPT ![Subject[p]] = EventId[p]]
        /\ Goto(p, "done") /\ Count(p)
     \/ /\ bizsubj[Subject[p]] # NoId
        /\ Goto(p, "get") /\ UNCHANGED <<bizsubj, counted>>
  /\ UNCHANGED <<bizseen, late, seen, varied, obs>>

\* GET: another id came first.
GetReply(p) ==
  /\ pc[p] = "get"
  /\ \/ bizsubj[Subject[p]] = EventId[p] /\ UNCHANGED varied
     \/ /\ bizsubj[Subject[p]] # EventId[p]
        /\ varied' = [varied EXCEPT ![Subject[p]] = @ + 1]
  /\ Goto(p, "done") /\ Count(p)
  /\ UNCHANGED <<bizseen, bizsubj, late, seen, obs>>

\* redisCmd rejects or times out: the window in memory decides instead.
CommandFails(p) ==
  /\ pc[p] \in {"set", "subject", "get"} /\ MayFail("redis") /\ faults' = faults + 1
  /\ late' = IF pc[p] = "get" THEN late ELSE late \cup {<<pc[p], p>>}
  /\ Memory(p)
  /\ UNCHANGED <<bizseen, bizsubj, varied, durable, restarts>>

\* A SET NX that timed out is carried out after all.
LateSet(p) ==
  /\ \/ /\ <<"set", p>> \in late
        /\ late' = late \ {<<"set", p>>}
        /\ bizseen' = bizseen \cup {EventId[p]} /\ UNCHANGED bizsubj
     \/ /\ <<"subject", p>> \in late
        /\ late' = late \ {<<"subject", p>>}
        /\ bizsubj' = [bizsubj EXCEPT ![Subject[p]] = IF @ = NoId THEN EventId[p] ELSE @]
        /\ UNCHANGED bizseen
  /\ UNCHANGED <<seen, pc, counted, varied, obs>>

\* The router restarts: memory is gone, unanswered clients send again.
Crash ==
  /\ MayFail("crash") /\ restarts' = restarts + 1
  /\ seen' = <<>>
  /\ pc' = [p \in Posts |-> IF pc[p] = "done" THEN "done" ELSE "sent"]
  /\ UNCHANGED <<bizseen, bizsubj, late, counted, varied, durable, evictions, faults>>

\* The seven days of a key are over.
Expire ==
  /\ MayFail("expire") /\ faults' = faults + 1
  /\ \/ \E i \in bizseen : bizseen' = bizseen \ {i} /\ UNCHANGED bizsubj
     \/ \E s \in Subjects : /\ bizsubj[s] # NoId
                            /\ bizsubj' = [bizsubj EXCEPT ![s] = NoId]
                            /\ UNCHANGED bizseen
  /\ UNCHANGED <<late, seen, pc, counted, varied, durable, evictions, restarts>>

Next ==
  \/ Crash \/ Expire
  \/ \E p \in Posts :
       \/ Post(p) \/ SetReply(p) \/ SubjectReply(p) \/ GetReply(p)
       \/ CommandFails(p) \/ LateSet(p)

Spec == Init /\ [][Next]_vars

-----------------------------------------------------------------------------
(* Properties *)

TypeOK ==
  /\ bizseen \subseteq EventIds /\ bizsubj \in [Subjects -> EventIds \cup {NoId}]
  /\ late \subseteq {"set", "subject"} \X Posts
  /\ seen \in Seq(EventIds) /\ Len(seen) <= SeenMax
  /\ pc \in [Posts -> {"sent", "set", "subject", "get", "done"}]
  /\ counted \in [EventIds -> Nat] /\ varied \in [Subjects -> Nat]
  /\ durable \in BOOLEAN /\ evictions \in Nat
  /\ restarts \in Nat /\ faults \in Nat /\ faults + restarts <= MaxFaults

\* "a retry that crosses a router restart no longer double-counts the ledger
\* an alert reads": with Redis an id is counted once, and once more for each
\* answer Redis did not give or key that expired, however often the router
\* restarts.  Without Redis a restart or a full window costs a count too.
OvercountPaid ==
  \A i \in EventIds :
    counted[i] <= 1 + faults + (IF durable THEN 0 ELSE restarts + evictions)

Settled(i) == \A p \in Posts : EventId[p] = i => pc[p] = "done"

\* Every outcome that was posted and answered is in the ledger.
NeverUncounted == \A i \in EventIds : Settled(i) => counted[i] >= 1

\* What every interleaving of the awaits keeps: an answered outcome is in the
\* ledger unless Redis failed or the router restarted meanwhile.
UncountedExcused == faults + restarts = 0 => NeverUncounted

IdsOf(s) == {EventId[p] : p \in {q \in Posts : Subject[q] = s}} \ {NoId}

\* "two concurrent fresh ids cannot both claim first": when all is said,
\* every id of a subject but the first was reported, once.
DriftReported ==
  (durable /\ faults + restarts = 0 /\ \A p \in Posts : pc[p] = "done") =>
     \A s \in Subjects :
       varied[s] = IF IdsOf(s) = {} THEN 0 ELSE Cardinality(IdsOf(s)) - 1
=============================================================================
