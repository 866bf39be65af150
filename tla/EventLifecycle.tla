---------------------------- MODULE EventLifecycle ----------------------------
(***************************************************************************)
(* What the event router promises for every event of a queued edge: it is  *)
(* accepted once, stays queued until a destination carries it out or its   *)
(* retries are exhausted, a dead letter can be queued again by a replay,   *)
(* and what was carried out stays so.  No step loses an event.             *)
(***************************************************************************)
CONSTANT Events

VARIABLE status    \* [Events -> "absent" | "queued" | "delivered" | "dead"]

Init == status = [e \in Events |-> "absent"]

Move(e, from, to) == status[e] \in from /\ status' = [status EXCEPT ![e] = to]

Accept(e)     == Move(e, {"absent"}, "queued")
\* An attempt may still be under way when the event is already a dead letter.
Deliver(e)    == Move(e, {"queued", "dead"}, "delivered")
DeadLetter(e) == Move(e, {"queued"}, "dead")
Replay(e)     == Move(e, {"dead"}, "queued")

Next == \E e \in Events : Accept(e) \/ Deliver(e) \/ DeadLetter(e) \/ Replay(e)

Spec == Init /\ [][Next]_status

\* The worker settles what is queued; nobody is obliged to replay.
Settle(e) == Move(e, {"queued"}, "delivered") \/ DeadLetter(e)

FairSpec == Spec /\ \A e \in Events : WF_status(Settle(e))
=============================================================================
