---------------------------- MODULE DurableEffect ----------------------------
(***************************************************************************)
(* What the event pipeline promises a consumer group: an appended event is *)
(* queued; a queued event is applied once and for all, or rejected; only a *)
(* rejected event may be queued again.  Claims, leases, attempts, workers  *)
(* and the transport are invisible at this level.                          *)
(***************************************************************************)
EXTENDS Naturals

CONSTANT Deliveries

VARIABLES stage, effects

vars == <<stage, effects>>

Init ==
    /\ stage = [d \in Deliveries |-> "unrecorded"]
    /\ effects = [d \in Deliveries |-> 0]

Move(d, from, to) ==
    /\ stage[d] = from
    /\ stage' = [stage EXCEPT ![d] = to]

Enqueue(d) == Move(d, "unrecorded", "queued") /\ UNCHANGED effects

Apply(d) ==
    /\ Move(d, "queued", "applied")
    /\ effects' = [effects EXCEPT ![d] = @ + 1]

Reject(d) == Move(d, "queued", "rejected") /\ UNCHANGED effects

Requeue(d) == Move(d, "rejected", "queued") /\ UNCHANGED effects

Next == \E d \in Deliveries : Enqueue(d) \/ Apply(d) \/ Reject(d) \/ Requeue(d)

Spec == Init /\ [][Next]_vars

=============================================================================
