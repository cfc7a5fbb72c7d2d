---------------------------- MODULE EventDelivery ----------------------------
(***************************************************************************)
(* The durable half of the event pipeline: the rows of event_deliveries,   *)
(* event_delivery_attempts and event_receipts of ONE consumer group, and   *)
(* the worker processes that move them (events/execution.py,               *)
(* events/repo/worker_queries.py, events/operator.py).                     *)
(*                                                                         *)
(* Every step below is one PostgreSQL transaction, or one thing a process  *)
(* does between two of them.  The Redis stream is not trusted by this code *)
(* and is not state here: a reference to any delivery may reach any worker *)
(* at any moment, any number of times, or never.                           *)
(*                                                                         *)
(* Time.  The code only compares instants with the database clock, so a    *)
(* delivery keeps the answers: due (next_attempt_at <= now), expired       *)
(* (claim_expires_at <= now), and whether its publication was observed and *)
(* has stalled.  The clock turns each answer by an action of its own.      *)
(*                                                                         *)
(* Batches.  claim_due_deliveries, recover_expired and                     *)
(* reset_observations_before change up to a limit of independent rows in   *)
(* one transaction; here each row is a step, which adds interleavings and  *)
(* removes none.                                                           *)
(***************************************************************************)
EXTENDS Naturals, FiniteSets

CONSTANTS
    Deliveries,     \* (event, consumer) pairs of the consumer group
    Workers,        \* worker processes: a relay loop and a consumer loop each
    NoWorker,       \* the holder of a row nobody has locked
    MaxAttempts,    \* RetryPolicy.max_attempts
    Rejected,       \* deliveries whose stored event deserialize_event refuses
    MaxTokens,      \* bound: claim tokens drawn in a behaviour
    MaxCycle        \* bound: retry cycles an operator opens

ASSUME MaxAttemptsAssumption == MaxAttempts \in Nat \ {0}
ASSUME BoundsAssumption == MaxTokens \in Nat /\ MaxCycle \in Nat
ASSUME RejectedAssumption == Rejected \subseteq Deliveries
ASSUME NoWorkerAssumption == NoWorker \notin Workers

VARIABLES
    delivery,   \* the event_deliveries row of each delivery
    attempts,   \* the rows of event_delivery_attempts
    receipt,    \* the event_receipts row of each delivery
    effects,    \* how often a handler's effect on the delivery was committed
    lock,       \* the worker whose effect transaction holds the row lock
    claims,     \* AttemptClaim objects a worker is executing
    unsettled,  \* _unsettled: failures a worker has still to record
    relay,      \* DeliveryClaim objects a worker's relay is publishing
    lastToken   \* the last claim token drawn (uuid4: never drawn twice)

vars == <<delivery, attempts, receipt, effects, lock, claims, unsettled,
          relay, lastToken>>

NoToken == 0
Statuses == {"absent", "pending", "processing", "succeeded", "failed"}
Outcomes == {"processed", "skipped"}

\* What Failure.infrastructure and Failure.permanent tell apart.
Failures == {"transient", "permanent", "infrastructure"}

\* attempt.status, with error_category where the status is "failed".
AttemptStates == {"running", "succeeded", "skipped", "worker_interrupted",
                  "contract"} \cup Failures

Row == [status: Statuses, count: Nat, cycle: Nat, due: BOOLEAN,
        pub: {"none", "fresh", "stale"}, token: Nat, expired: BOOLEAN]
Claim == [d: Deliveries, token: Nat]
UnsettledClaim == [d: Deliveries, token: Nat, failure: Failures]
Attempt == [d: Deliveries, token: Nat, cycle: Nat, number: Nat, state: AttemptStates]

-----------------------------------------------------------------------------
(* Rows *)

\* A row as it is inserted, or as an operator's replay leaves it.
NewRow(status, cycle) ==
    [status |-> status, count |-> 0, cycle |-> cycle, due |-> TRUE,
     pub |-> "none", token |-> NoToken, expired |-> FALSE]

\* _clear_claim: no token, so no lease either.
ClearClaim(row) == [row EXCEPT !.token = NoToken, !.expired = FALSE]

SetClaim(row, token) == [row EXCEPT !.token = token, !.expired = FALSE]

\* The claims that may be overwritten by the relay: none, or a lapsed lease.
ClaimFree(row) == row.token = NoToken \/ row.expired

\* Mutant: rows are read without FOR UPDATE.
UnlockedAlways(d) == TRUE

\* The CHECK constraints of event_deliveries: a token with its lease or neither.
DeliveryRow(row) ==
    /\ row.status \in Statuses /\ row.count >= 0 /\ row.cycle >= 0
    /\ row.expired => row.token # NoToken

\* Rows a transaction may write: no effect transaction holds them.
Unlocked(d) == lock[d] = NoWorker

\* Mutant: only the status is compared.
OwnsAnyToken(c) == delivery[c.d].status = "processing"

\* The fence of _effect and _finish_failure.
Owns(c) ==
    /\ delivery[c.d].status = "processing"
    /\ delivery[c.d].token = c.token

FreshToken == lastToken + 1

\* Mutant: the attempt is numbered by the allowance it uses.
NumberedByCount(d, n) == n = delivery[d].count + 1

\* next_attempt_number: one more than the attempts of this cycle, counted or not.
IsNextNumber(d, n) ==
    LET used == {a.number : a \in {a \in attempts : a.d = d /\ a.cycle = delivery[d].cycle}}
    IN /\ \A m \in used : m < n
       /\ n = 1 \/ n - 1 \in used

\* attempts with the attempt of claim c in another state.
AttemptFinished(c, state) ==
    {IF a.d = c.d /\ a.token = c.token THEN [a EXCEPT !.state = state] ELSE a :
        a \in attempts}

\* Mutant: takeover and recovery leave the old attempt running.
AttemptsLeftRunning(d) == attempts

\* attempts with every running attempt of d marked as interrupted.
AttemptsInterrupted(d) ==
    {IF a.d = d /\ a.state = "running"
     THEN [a EXCEPT !.state = "worker_interrupted"] ELSE a : a \in attempts}

-----------------------------------------------------------------------------
(* Producer and relay *)

\* append_event: the outbox row and the delivery row commit together.
Append(d) ==
    /\ delivery[d].status = "absent"
    /\ delivery' = [delivery EXCEPT ![d] = NewRow("pending", 0)]
    /\ UNCHANGED <<attempts, receipt, effects, lock, claims, unsettled, relay,
                   lastToken>>

Claimable(d) ==
    /\ Unlocked(d)
    /\ delivery[d].status = "pending"
    /\ delivery[d].due
    /\ ClaimFree(delivery[d])
    /\ delivery[d].pub # "fresh"

\* claim_due_deliveries.  The relay loop holds the claim only if it also saw
\* the commit succeed.
ClaimDueDelivery(w, d) ==
    /\ Claimable(d)
    /\ lastToken < MaxTokens
    /\ lastToken' = FreshToken
    /\ delivery' = [delivery EXCEPT ![d] = SetClaim(@, FreshToken)]
    /\ \/ relay' = [relay EXCEPT ![w] = @ \cup {[d |-> d, token |-> FreshToken]}]
       \/ UNCHANGED relay
    /\ UNCHANGED <<attempts, receipt, effects, lock, claims, unsettled>>

\* observe_publication: after XADD, fenced by status, token and lease.
ObservePublication(w, c) ==
    /\ c \in relay[w]
    /\ Unlocked(c.d)
    /\ delivery' =
         IF /\ delivery[c.d].status = "pending"
            /\ delivery[c.d].token = c.token
            /\ ~delivery[c.d].expired
         THEN [delivery EXCEPT ![c.d] = ClearClaim([@ EXCEPT !.pub = "fresh"])]
         ELSE delivery
    /\ relay' = [relay EXCEPT ![w] = @ \ {c}]
    /\ UNCHANGED <<attempts, receipt, effects, lock, claims, unsettled, lastToken>>

\* XADD or the observation failed.  The claim is forgotten; its row keeps the
\* token until the lease, possibly shortened by
\* defer_claim_after_transport_failure, lapses.
AbandonPublication(w, c) ==
    /\ c \in relay[w]
    /\ relay' = [relay EXCEPT ![w] = @ \ {c}]
    /\ UNCHANGED <<delivery, attempts, receipt, effects, lock, claims, unsettled,
                   lastToken>>

\* reset_observations_before: the stream was found empty, so what was published
\* before is published again.  Which publications precede the cutoff is left open.
ResetObservation(d) ==
    /\ Unlocked(d)
    /\ delivery[d].status = "pending"
    /\ delivery[d].due
    /\ delivery[d].pub # "none"
    /\ ClaimFree(delivery[d])
    /\ delivery' = [delivery EXCEPT ![d] = ClearClaim([@ EXCEPT !.pub = "none"])]
    /\ UNCHANGED <<attempts, receipt, effects, lock, claims, unsettled, relay,
                   lastToken>>

-----------------------------------------------------------------------------
(* Consumer: _start *)

\* Mutant: execute() does not settle earlier failures first.
StartableUnsettled(w, d) ==
    /\ claims[w] = {}
    /\ Unlocked(d)
    /\ delivery[d].status \in {"pending", "processing"}
    /\ receipt[d] = "none"
    /\ delivery[d].due
    /\ delivery[d].status = "processing" => delivery[d].expired

\* What _start requires before it changes anything: the row lock at once
\* (SKIP LOCKED), unfinished work that is due, and no claim of another consumer
\* that may still be alive.  execute() settles the loop's failures first.
Startable(w, d) ==
    /\ claims[w] = {}
    /\ unsettled[w] = {}
    /\ Unlocked(d)
    /\ delivery[d].status \in {"pending", "processing"}
    /\ receipt[d] = "none"
    /\ delivery[d].due
    /\ delivery[d].status = "processing" => delivery[d].expired

\* The allowance is spent: the delivery fails without another attempt.
StartExhausted(w, d) ==
    /\ Startable(w, d)
    /\ delivery[d].count >= MaxAttempts
    /\ attempts' = IF delivery[d].status = "processing"
                   THEN AttemptsInterrupted(d) ELSE attempts
    /\ delivery' = [delivery EXCEPT ![d] = ClearClaim([@ EXCEPT !.status = "failed"])]
    /\ UNCHANGED <<receipt, effects, lock, claims, unsettled, relay, lastToken>>

\* Mutant: the rejection is not recorded as an attempt.
RejectContractUnrecorded(w, d) ==
    /\ Startable(w, d)
    /\ delivery[d].count < MaxAttempts
    /\ d \in Rejected
    /\ attempts' = IF delivery[d].status = "processing"
                   THEN AttemptsInterrupted(d) ELSE attempts
    /\ delivery' = [delivery EXCEPT ![d] = ClearClaim([@ EXCEPT !.status = "failed"])]
    /\ UNCHANGED <<receipt, effects, lock, claims, unsettled, relay, lastToken>>

\* The stored event does not deserialize: one failed attempt, then terminal.
RejectContract(w, d) ==
    /\ Startable(w, d)
    /\ delivery[d].count < MaxAttempts
    /\ d \in Rejected
    /\ lastToken < MaxTokens
    /\ lastToken' = FreshToken
    /\ \E n \in 1..MaxTokens :
         /\ IsNextNumber(d, n)
         /\ attempts' =
              (IF delivery[d].status = "processing" THEN AttemptsInterrupted(d) ELSE attempts)
              \cup {[d |-> d, token |-> FreshToken, cycle |-> delivery[d].cycle,
                     number |-> n, state |-> "contract"]}
    /\ delivery' = [delivery EXCEPT ![d] =
                      ClearClaim([@ EXCEPT !.status = "failed",
                                           !.count = delivery[d].count + 1])]
    /\ UNCHANGED <<receipt, effects, lock, claims, unsettled, relay>>

\* A new attempt, which also takes over a lapsed one.  If the worker does not
\* learn that its commit succeeded, the row is claimed and nobody executes it.
StartAttempt(w, d) ==
    /\ Startable(w, d)
    /\ delivery[d].count < MaxAttempts
    /\ d \notin Rejected
    /\ lastToken < MaxTokens
    /\ lastToken' = FreshToken
    /\ \E n \in 1..MaxTokens :
         /\ IsNextNumber(d, n)
         /\ attempts' =
              (IF delivery[d].status = "processing" THEN AttemptsInterrupted(d) ELSE attempts)
              \cup {[d |-> d, token |-> FreshToken, cycle |-> delivery[d].cycle,
                     number |-> n, state |-> "running"]}
    /\ delivery' = [delivery EXCEPT ![d] =
                      SetClaim([@ EXCEPT !.status = "processing",
                                         !.count = delivery[d].count + 1], FreshToken)]
    /\ \/ claims' = [claims EXCEPT ![w] = {[d |-> d, token |-> FreshToken]}]
       \/ UNCHANGED claims
    /\ UNCHANGED <<receipt, effects, lock, unsettled, relay>>

-----------------------------------------------------------------------------
(* Consumer: _effect, one transaction that holds the row lock throughout *)

\* Under the row lock and by the clock read after it, the claim must still be
\* the delivery's and its lease alive; otherwise the worker gives up quietly.
EffectBegin(w, c) ==
    /\ c \in claims[w]
    /\ Unlocked(c.d)
    /\ IF Owns(c) /\ ~delivery[c.d].expired
       THEN lock' = [lock EXCEPT ![c.d] = w] /\ UNCHANGED claims
       ELSE claims' = [claims EXCEPT ![w] = @ \ {c}] /\ UNCHANGED lock
    /\ UNCHANGED <<delivery, attempts, receipt, effects, unsettled, relay, lastToken>>

\* Effect, receipt (primary key: one per delivery), delivery and attempt commit
\* together.  A worker that does not see the commit succeed takes it for an
\* infrastructure failure.
EffectCommit(w, c) ==
    /\ c \in claims[w]
    /\ lock[c.d] = w
    /\ receipt[c.d] = "none"
    /\ \E outcome \in Outcomes :
         /\ receipt' = [receipt EXCEPT ![c.d] = outcome]
         /\ attempts' = AttemptFinished(c, IF outcome = "skipped" THEN "skipped"
                                           ELSE "succeeded")
    /\ effects' = [effects EXCEPT ![c.d] = @ + 1]
    /\ delivery' = [delivery EXCEPT ![c.d] =
                      ClearClaim([@ EXCEPT !.status = "succeeded"])]
    /\ lock' = [lock EXCEPT ![c.d] = NoWorker]
    /\ claims' = [claims EXCEPT ![w] = @ \ {c}]
    /\ \/ UNCHANGED unsettled
       \/ unsettled' = [unsettled EXCEPT ![w] = @ \cup
              {[d |-> c.d, token |-> c.token, failure |-> "infrastructure"]}]
    /\ UNCHANGED <<relay, lastToken>>

\* Mutant: the handler commits its own work before the transaction fails.
EffectFailCommitted(w, c) ==
    /\ c \in claims[w]
    /\ lock[c.d] = w
    /\ \E f \in Failures :
         unsettled' = [unsettled EXCEPT ![w] = @ \cup
                         {[d |-> c.d, token |-> c.token, failure |-> f]}]
    /\ lock' = [lock EXCEPT ![c.d] = NoWorker]
    /\ claims' = [claims EXCEPT ![w] = @ \ {c}]
    /\ effects' = [effects EXCEPT ![c.d] = @ + 1]
    /\ UNCHANGED <<delivery, attempts, receipt, relay, lastToken>>

\* The handler or the transaction raised: everything rolls back, and the
\* classified failure waits in _unsettled for its own transaction.
EffectFail(w, c) ==
    /\ c \in claims[w]
    /\ lock[c.d] = w
    /\ \E f \in Failures :
         unsettled' = [unsettled EXCEPT ![w] = @ \cup
                         {[d |-> c.d, token |-> c.token, failure |-> f]}]
    /\ lock' = [lock EXCEPT ![c.d] = NoWorker]
    /\ claims' = [claims EXCEPT ![w] = @ \ {c}]
    /\ UNCHANGED <<delivery, attempts, receipt, effects, relay, lastToken>>

-----------------------------------------------------------------------------
(* Consumer: failures and lapsed leases *)

\* Mutant: the allowance is tested before the refund, for every failure.
RowAfterFailureTestedEarly(row, f) ==
    LET count == IF f = "infrastructure" THEN row.count - 1 ELSE row.count
        terminal == f = "permanent" \/ row.count >= MaxAttempts
    IN ClearClaim([row EXCEPT !.status = IF terminal THEN "failed" ELSE "pending",
                              !.count = count, !.due = FALSE, !.pub = "none"])

\* The row after a recorded failure: infrastructure failures are refunded.
RowAfterFailure(row, f) ==
    LET count == IF f = "infrastructure" THEN row.count - 1 ELSE row.count
        terminal == f = "permanent" \/ (f # "infrastructure" /\ count >= MaxAttempts)
    IN ClearClaim([row EXCEPT !.status = IF terminal THEN "failed" ELSE "pending",
                              !.count = count, !.due = FALSE, !.pub = "none"])

\* Mutant: a failure is settled without the ownership fence.
FinishFailureUnfenced(w, u) ==
    /\ u \in unsettled[w]
    /\ Unlocked(u.d)
    /\ attempts' = AttemptFinished(u, u.failure)
    /\ delivery' = [delivery EXCEPT ![u.d] = RowAfterFailure(@, u.failure)]
    /\ \/ unsettled' = [unsettled EXCEPT ![w] = @ \ {u}]
       \/ UNCHANGED unsettled
    /\ UNCHANGED <<receipt, effects, lock, claims, relay, lastToken>>

\* _finish_failure, from _execute_claim or from settle_failures.  A superseded
\* claim records nothing.  The entry stays when the outcome of the commit is
\* unknown; settling it again is harmless.
FinishFailure(w, u) ==
    /\ u \in unsettled[w]
    /\ Unlocked(u.d)
    /\ IF Owns(u)
       THEN /\ attempts' = AttemptFinished(u, u.failure)
            /\ delivery' = [delivery EXCEPT ![u.d] = RowAfterFailure(@, u.failure)]
       ELSE UNCHANGED <<attempts, delivery>>
    /\ \/ unsettled' = [unsettled EXCEPT ![w] = @ \ {u}]
       \/ UNCHANGED unsettled
    /\ UNCHANGED <<receipt, effects, lock, claims, relay, lastToken>>

\* Mutant: recovery passes over claims whose allowance is spent.
RecoverExpiredUnspent(d) ==
    /\ Unlocked(d)
    /\ delivery[d].status = "processing"
    /\ delivery[d].expired
    /\ delivery[d].count < MaxAttempts
    /\ attempts' = AttemptsInterrupted(d)
    /\ delivery' = [delivery EXCEPT ![d] =
         ClearClaim([@ EXCEPT !.status = "pending", !.due = TRUE, !.pub = "none"])]
    /\ UNCHANGED <<receipt, effects, lock, claims, unsettled, relay, lastToken>>

\* recover_expired: any worker's relay loop returns a lapsed claim to the queue,
\* or fails it when its allowance is spent.
RecoverExpired(d) ==
    /\ Unlocked(d)
    /\ delivery[d].status = "processing"
    /\ delivery[d].expired
    /\ attempts' = AttemptsInterrupted(d)
    /\ delivery' = [delivery EXCEPT ![d] =
         ClearClaim([@ EXCEPT
           !.status = IF delivery[d].count >= MaxAttempts THEN "failed" ELSE "pending",
           !.due = TRUE, !.pub = "none"])]
    /\ UNCHANGED <<receipt, effects, lock, claims, unsettled, relay, lastToken>>

-----------------------------------------------------------------------------
(* Operator, clock and crashes *)

\* Mutant: replay accepts any finished delivery.
ReplayFinished(d) ==
    /\ Unlocked(d)
    /\ delivery[d].status \in {"failed", "succeeded"}
    /\ delivery[d].cycle < MaxCycle
    /\ delivery' = [delivery EXCEPT ![d] = NewRow("pending", delivery[d].cycle + 1)]
    /\ UNCHANGED <<attempts, receipt, effects, lock, claims, unsettled, relay,
                   lastToken>>

\* EventOperator.replay: a failed delivery starts a new cycle.
Replay(d) ==
    /\ Unlocked(d)
    /\ delivery[d].status = "failed"
    /\ receipt[d] = "none"
    /\ delivery[d].cycle < MaxCycle
    /\ delivery' = [delivery EXCEPT ![d] = NewRow("pending", delivery[d].cycle + 1)]
    /\ UNCHANGED <<attempts, receipt, effects, lock, claims, unsettled, relay,
                   lastToken>>

\* A lease lapses, also while the effect transaction is still running.
LeaseExpires(d) ==
    /\ delivery[d].token # NoToken
    /\ ~delivery[d].expired
    /\ delivery' = [delivery EXCEPT ![d].expired = TRUE]
    /\ UNCHANGED <<attempts, receipt, effects, lock, claims, unsettled, relay,
                   lastToken>>

\* The delay of _finish_failure has passed; only a pending row consults it.
BackoffElapses(d) ==
    /\ ~delivery[d].due
    /\ delivery[d].status = "pending"
    /\ delivery' = [delivery EXCEPT ![d].due = TRUE]
    /\ UNCHANGED <<attempts, receipt, effects, lock, claims, unsettled, relay,
                   lastToken>>

\* republish_after_seconds have passed since the observed publication.
PublicationStalls(d) ==
    /\ delivery[d].pub = "fresh"
    /\ delivery[d].status = "pending"
    /\ delivery' = [delivery EXCEPT ![d].pub = "stale"]
    /\ UNCHANGED <<attempts, receipt, effects, lock, claims, unsettled, relay,
                   lastToken>>

\* A process dies: PostgreSQL rolls its open transaction back, its memory is
\* gone, and a new process takes its place.
Crash(w) ==
    /\ \/ claims[w] # {}
       \/ unsettled[w] # {}
       \/ relay[w] # {}
    /\ lock' = [d \in Deliveries |-> IF lock[d] = w THEN NoWorker ELSE lock[d]]
    /\ claims' = [claims EXCEPT ![w] = {}]
    /\ unsettled' = [unsettled EXCEPT ![w] = {}]
    /\ relay' = [relay EXCEPT ![w] = {}]
    /\ UNCHANGED <<delivery, attempts, receipt, effects, lastToken>>

-----------------------------------------------------------------------------
(* Specification *)

Init ==
    /\ delivery = [d \in Deliveries |-> NewRow("absent", 0)]
    /\ attempts = {}
    /\ receipt = [d \in Deliveries |-> "none"]
    /\ effects = [d \in Deliveries |-> 0]
    /\ lock = [d \in Deliveries |-> NoWorker]
    /\ claims = [w \in Workers |-> {}]
    /\ unsettled = [w \in Workers |-> {}]
    /\ relay = [w \in Workers |-> {}]
    /\ lastToken = 0

RelayStep(w) ==
    \/ \E d \in Deliveries : ClaimDueDelivery(w, d)
    \/ \E c \in relay[w] : ObservePublication(w, c) \/ AbandonPublication(w, c)

ConsumerStep(w) ==
    \/ \E d \in Deliveries : \/ StartExhausted(w, d)
                             \/ RejectContract(w, d)
                             \/ StartAttempt(w, d)
    \/ \E c \in claims[w] : \/ EffectBegin(w, c)
                            \/ EffectCommit(w, c)
                            \/ EffectFail(w, c)
    \/ \E u \in unsettled[w] : FinishFailure(w, u)

RowStep(d) ==
    \/ Append(d)
    \/ ResetObservation(d)
    \/ RecoverExpired(d)
    \/ Replay(d)
    \/ LeaseExpires(d)
    \/ BackoffElapses(d)
    \/ PublicationStalls(d)

Next ==
    \/ \E w \in Workers : RelayStep(w) \/ ConsumerStep(w) \/ Crash(w)
    \/ \E d \in Deliveries : RowStep(d)

Spec == Init /\ [][Next]_vars

\* What the scheduling of a running deployment gives: leases lapse, a relay loop
\* keeps scanning for lapsed claims (it catches every exception and waits a
\* bounded time), and a handler's transaction ends.
Fairness ==
    /\ \A d \in Deliveries : WF_vars(LeaseExpires(d)) /\ WF_vars(RecoverExpired(d))
    /\ \A w \in Workers : WF_vars(\E c \in claims[w] : EffectCommit(w, c) \/ EffectFail(w, c))

FairSpec == Spec /\ Fairness

-----------------------------------------------------------------------------
(* Properties *)

\* The rows, and what the processes remember, keep their types; a processing
\* row always carries a claim token (ck_event_deliveries_claim_fields).
TypeOK ==
    /\ delivery \in [Deliveries -> Row]
    /\ attempts \subseteq Attempt
    /\ receipt \in [Deliveries -> Outcomes \cup {"none"}]
    /\ effects \in [Deliveries -> Nat]
    /\ lock \in [Deliveries -> Workers \cup {NoWorker}]
    /\ claims \in [Workers -> SUBSET Claim]
    /\ unsettled \in [Workers -> SUBSET UnsettledClaim]
    /\ relay \in [Workers -> SUBSET Claim]
    /\ lastToken \in Nat
    /\ \A d \in Deliveries : delivery[d].status = "processing" =>
                               delivery[d].token # NoToken

\* Duplicate references, takeovers, crashes and lost commit replies never
\* apply a handler's effect twice, and never lose it: an effect is committed
\* exactly where the delivery succeeded and holds a receipt (_effect).
EffectExactlyOnce ==
    \A d \in Deliveries :
        /\ effects[d] = IF delivery[d].status = "succeeded" THEN 1 ELSE 0
        /\ receipt[d] # "none" <=> delivery[d].status = "succeeded"

\* The attempt history and the claim agree: a processing delivery has one
\* running attempt, the one its token names, and no other delivery has any.
\* An attempt left running would be invisible to recovery.
RunningAttemptHoldsClaim ==
    /\ \A a \in attempts : a.state = "running" =>
         /\ Owns(a)
         /\ a.cycle = delivery[a.d].cycle
    /\ \A d \in Deliveries : delivery[d].status = "processing" =>
         \E a \in attempts : a.d = d /\ a.token = delivery[d].token
                                     /\ a.state = "running"

\* attempt_count charges every attempt of the current cycle except those an
\* infrastructure failure was recorded for, and never passes the allowance.
Charged(d) ==
    {a \in attempts : a.d = d /\ a.cycle = delivery[d].cycle
                              /\ a.state # "infrastructure"}

AllowanceAccounted ==
    \A d \in Deliveries : /\ delivery[d].count = Cardinality(Charged(d))
                          /\ delivery[d].count <= MaxAttempts

\* A delivery is given up only when its allowance is spent or an attempt of
\* the current cycle failed for good; an outage alone never fails it.
FailedForCause ==
    \A d \in Deliveries : delivery[d].status = "failed" =>
        \/ delivery[d].count = MaxAttempts
        \/ \E a \in Charged(d) : a.state \in {"permanent", "contract"}

\* While a handler runs, its worker still owns the delivery, even after the
\* lease lapsed: nobody replaced the claim under the row lock.
HandlerOwnsDelivery ==
    \A d \in Deliveries : lock[d] # NoWorker =>
        \E c \in claims[lock[d]] : c.d = d /\ Owns(c)

\* settle_failures: a consumer loop has at most one failure to settle, and it
\* executes nothing before that failure is settled.
OneUnsettledPerLoop ==
    \A w \in Workers : Cardinality(claims[w]) + Cardinality(unsettled[w]) <= 1

\* No step writes a row the schema refuses: a lease has its token, and a refunded
\* attempt keeps its number, so none of its cycle has it again
\* (uq_event_attempt_cycle_number).
ConstraintsKept ==
    /\ \A d \in Deliveries : DeliveryRow(delivery[d])
    /\ \A a, b \in attempts :
         a.d = b.d /\ a.cycle = b.cycle /\ a.number = b.number => a = b

\* Every failure is accounted for: the allowance charges the attempts that
\* count and no others, each under its own number, a delivery is given up for a
\* recorded cause, and a loop settles one failure before it starts the next delivery.
FailuresAccounted ==
    /\ AllowanceAccounted
    /\ ConstraintsKept
    /\ FailedForCause
    /\ OneUnsettledPerLoop

\* Finished attempts are history: no later step rewrites or removes them, and
\* a running attempt keeps its identity when it ends.
HistoryPreserved ==
    [][\A a \in attempts :
         \E b \in attempts' : /\ b.d = a.d /\ b.token = a.token /\ b.cycle = a.cycle
                              /\ a.state # "running" => b = a]_vars

\* A succeeded delivery is final; a failed one leaves only through an operator
\* replay, which opens the next cycle with a full allowance.
TerminalStatusFinal ==
    [][\A d \in Deliveries :
         /\ delivery[d].status = "succeeded" => delivery'[d] = delivery[d]
         /\ delivery[d].status = "failed" /\ delivery'[d].status # "failed" =>
              /\ delivery'[d].status = "pending"
              /\ delivery'[d].cycle = delivery[d].cycle + 1
              /\ delivery'[d].count = 0]_vars

\* docs/api/events.md: "observed shared outages retain diagnostic history
\* without consuming allowance".  No worker that has observed an outage finds
\* its attempt charged as interrupted.
ObservedOutageNotCharged ==
    \A w \in Workers : \A u \in unsettled[w] : u.failure = "infrastructure" =>
        ~\E a \in attempts : /\ a.d = u.d /\ a.token = u.token
                             /\ a.state = "worker_interrupted"

\* A delivery never stays claimed by a consumer: whatever crashes, its handler
\* finishes it or recovery returns it to the queue or fails it.
ClaimsAreTemporary ==
    \A d \in Deliveries :
        delivery[d].status = "processing" ~> delivery[d].status # "processing"

-----------------------------------------------------------------------------
(* What is promised to the consumer group *)

Stage(d) ==
    CASE delivery[d].status = "absent" -> "unrecorded"
      [] delivery[d].status \in {"pending", "processing"} -> "queued"
      [] delivery[d].status = "succeeded" -> "applied"
      [] delivery[d].status = "failed" -> "rejected"

Durable == INSTANCE DurableEffect WITH stage <- [d \in Deliveries |-> Stage(d)]

\* The pipeline implements DurableEffect: seen from outside, claims, leases,
\* retries and crashes are stuttering steps, an effect is one step, and only a
\* rejected event is ever queued again.
ImplementsDurableEffect == Durable!Spec

=============================================================================
