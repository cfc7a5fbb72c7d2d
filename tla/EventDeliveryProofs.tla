------------------------ MODULE EventDeliveryProofs -------------------------
(***************************************************************************)
(* Proofs about EventDelivery, for every set of deliveries and workers,    *)
(* every allowance and every bound.                                        *)
(*                                                                         *)
(* The properties are not inductive by themselves.  IInv adds what the     *)
(* code relies on: tokens are drawn once and name one attempt, a loop      *)
(* executes one claim, a row lock belongs to the claim that owns the       *)
(* delivery, a processing delivery has been charged, and a finished        *)
(* delivery carries no claim.                                              *)
(***************************************************************************)
EXTENDS EventDelivery, FiniteSetTheorems, TLAPS

\* Tokens already written anywhere were drawn before (uuid4 never repeats).
TokensDrawn ==
    /\ \A a \in attempts : a.token <= lastToken
    /\ \A d \in Deliveries : delivery[d].token <= lastToken

\* A token names at most one attempt of a delivery.
AttemptsDistinct ==
    \A a, b \in attempts : a.d = b.d /\ a.token = b.token => a = b

\* A consumer loop executes at most one claim.
OneClaimPerLoop == \A w \in Workers : \A b, c \in claims[w] : b = c

\* The row lock is held for the claim that owns the delivery.
LockHolder ==
    /\ \A w \in Workers : \A c \in claims[w] : lock[c.d] = w => Owns(c)
    /\ \A d \in Deliveries : lock[d] # NoWorker =>
         \E c \in claims[lock[d]] : c.d = d

\* A processing delivery was charged for its attempt, so a refund is possible.
ProcessingCharged ==
    \A d \in Deliveries : delivery[d].status = "processing" => delivery[d].count >= 1

\* Finished deliveries, and those not appended yet, carry no claim.
FinishedUnclaimed ==
    \A d \in Deliveries : delivery[d].status \in {"absent", "succeeded", "failed"} =>
        delivery[d].token = NoToken

IInv ==
    /\ TypeOK
    /\ EffectExactlyOnce
    /\ RunningAttemptHoldsClaim
    /\ TokensDrawn
    /\ AttemptsDistinct
    /\ OneClaimPerLoop
    /\ LockHolder
    /\ ProcessingCharged
    /\ FinishedUnclaimed

-----------------------------------------------------------------------------

USE DEF NoToken

\* What an inserted or replayed row holds: typed, free, with a full allowance.
LEMMA NewRowFacts ==
  ASSUME NEW s \in Statuses, NEW n \in Nat
  PROVE  /\ NewRow(s, n) \in Row
         /\ NewRow(s, n).status = s /\ NewRow(s, n).token = NoToken
         /\ NewRow(s, n).count = 0 /\ NewRow(s, n).cycle = n
  BY DEF NewRow, Row

\* _clear_claim touches the claim and nothing else.
LEMMA ClearClaimFacts ==
  ASSUME NEW r \in Row
  PROVE  /\ ClearClaim(r) \in Row
         /\ ClearClaim(r).status = r.status /\ ClearClaim(r).token = NoToken
         /\ ClearClaim(r).count = r.count /\ ClearClaim(r).cycle = r.cycle
  BY DEF ClearClaim, Row

\* A new claim replaces the token and starts a lease, and nothing else.
LEMMA SetClaimFacts ==
  ASSUME NEW r \in Row, NEW t \in Nat
  PROVE  /\ SetClaim(r, t) \in Row
         /\ SetClaim(r, t).status = r.status /\ SetClaim(r, t).token = t
         /\ SetClaim(r, t).count = r.count /\ SetClaim(r, t).cycle = r.cycle
  BY DEF SetClaim, Row

\* An empty pipeline satisfies the invariant.
LEMMA InitIInv == Init => IInv
  <1> SUFFICES ASSUME Init PROVE IInv
    OBVIOUS
  <1> DEFINE row == NewRow("absent", 0)
  <1>1. /\ row \in Row
        /\ row.status = "absent" /\ row.token = NoToken
    BY NewRowFacts DEF Statuses
  <1>2. delivery = [d \in Deliveries |-> row]
    BY DEF Init
  <1> HIDE DEF row
  <1>3. TypeOK
    BY <1>1, <1>2, NoWorkerAssumption DEF Init, TypeOK, Outcomes
  <1>4. EffectExactlyOnce
    BY <1>1, <1>2 DEF Init, EffectExactlyOnce
  <1>5. RunningAttemptHoldsClaim /\ AttemptsDistinct /\ TokensDrawn
    BY <1>1, <1>2 DEF Init, RunningAttemptHoldsClaim, AttemptsDistinct, TokensDrawn
  <1>6. OneClaimPerLoop /\ LockHolder
    BY DEF Init, OneClaimPerLoop, LockHolder
  <1>7. ProcessingCharged /\ FinishedUnclaimed
    BY <1>1, <1>2 DEF ProcessingCharged, FinishedUnclaimed
  <1> QED
    BY <1>3, <1>4, <1>5, <1>6, <1>7 DEF IInv

-----------------------------------------------------------------------------
(* Steps that leave the attempts alone *)

\* What one step may do to the row and to the effect of delivery d.
RowMove(d) ==
    \/ delivery'[d] = delivery[d] /\ effects'[d] = effects[d]
    \/ /\ delivery[d].status = "absent" /\ delivery'[d].status = "pending"
       /\ effects'[d] = effects[d]
    \/ /\ delivery[d].status \in {"pending", "processing"}
       /\ delivery'[d].status \in {"pending", "processing", "failed"}
       /\ effects'[d] = effects[d]
    \/ /\ delivery[d].status = "processing" /\ delivery'[d].status = "succeeded"
       /\ effects'[d] = effects[d] + 1
    \/ /\ delivery[d].status = "failed" /\ delivery'[d].status = "pending"
       /\ delivery'[d].cycle = delivery[d].cycle + 1 /\ delivery'[d].count = 0
       /\ effects'[d] = effects[d]

\* A step moves at most one delivery.
Moves ==
    \/ UNCHANGED <<delivery, effects>>
    \/ \E d \in Deliveries :
         /\ RowMove(d)
         /\ \A e \in Deliveries \ {d} : delivery'[e] = delivery[e]
                                        /\ effects'[e] = effects[e]

\* An attempt with another state: the same attempt, typed, in that state.
LEMMA WithStateFacts ==
  ASSUME NEW a \in Attempt, NEW s \in AttemptStates
  PROVE  LET b == [a EXCEPT !.state = s]
         IN /\ b \in Attempt
            /\ b.d = a.d /\ b.token = a.token /\ b.cycle = a.cycle /\ b.state = s
  BY DEF Attempt

\* A row nobody executes is not locked.
LEMMA LockedIsProcessing ==
  ASSUME IInv, NEW d \in Deliveries, delivery[d].status # "processing"
  PROVE  lock[d] = NoWorker
  BY DEF IInv, TypeOK, LockHolder, Owns

\* A step that rewrites one row without starting or ending an attempt: the row
\* keeps status, token, cycle and count, or it is (again) waiting in the queue.
LEMMA QuietRowStep ==
  ASSUME IInv, NEW d \in Deliveries, NEW r \in Row,
         delivery' = [delivery EXCEPT ![d] = r],
         UNCHANGED <<attempts, receipt, effects, lock, claims, unsettled>>,
         relay' \in [Workers -> SUBSET Claim],
         lastToken' \in Nat, lastToken <= lastToken', r.token <= lastToken',
         \/ r = delivery[d]
         \/ /\ delivery[d].status \in {"pending", "processing"}
            /\ r.status = delivery[d].status /\ r.token = delivery[d].token
            /\ r.cycle = delivery[d].cycle /\ r.count = delivery[d].count
         \/ delivery[d].status \in {"absent", "pending"} /\ r.status = "pending"
         \/ /\ delivery[d].status = "failed" /\ r.status = "pending"
            /\ r.cycle = delivery[d].cycle + 1 /\ r.count = 0
  PROVE  IInv' /\ Moves
  <1> USE DEF IInv
  <1>0. \A e \in Deliveries : /\ e # d => delivery'[e] = delivery[e]
                              /\ delivery'[d] = r
    BY DEF TypeOK
  <1>1. TypeOK'
    BY <1>0 DEF TypeOK
  <1>2. EffectExactlyOnce'
    BY <1>0 DEF EffectExactlyOnce
  <1>3. RunningAttemptHoldsClaim'
    BY <1>0 DEF RunningAttemptHoldsClaim, Owns, TypeOK, Attempt
  <1>4. TokensDrawn'
    BY <1>0 DEF TokensDrawn, TypeOK, Attempt, Row
  <1>5. AttemptsDistinct' /\ OneClaimPerLoop'
    BY DEF AttemptsDistinct, OneClaimPerLoop
  <1>6. LockHolder'
    BY <1>0, LockedIsProcessing, NoWorkerAssumption DEF LockHolder, Owns, TypeOK, Claim
  <1>7. ProcessingCharged' /\ FinishedUnclaimed'
    BY <1>0 DEF ProcessingCharged, FinishedUnclaimed
  <1>8. Moves
    BY <1>0 DEF Moves, RowMove, TypeOK
  <1> QED
    BY <1>1, <1>2, <1>3, <1>4, <1>5, <1>6, <1>7, <1>8

\* append_event adds a row nobody has claimed.
LEMMA AppendIInv == ASSUME IInv, NEW d \in Deliveries, Append(d) PROVE IInv' /\ Moves
  <1> DEFINE r == NewRow("pending", 0)
  <1>1. /\ r \in Row /\ r.status = "pending" /\ r.token = NoToken
    BY NewRowFacts DEF Statuses
  <1>2. /\ delivery' = [delivery EXCEPT ![d] = r]
        /\ delivery[d].status = "absent"
        /\ UNCHANGED <<attempts, receipt, effects, lock, claims, unsettled>>
    BY DEF Append
  <1> HIDE DEF r
  <1>3. /\ relay' \in [Workers -> SUBSET Claim]
        /\ lastToken' \in Nat /\ lastToken <= lastToken' /\ r.token <= lastToken'
    BY <1>1 DEF Append, IInv, TypeOK
  <1> QED
    BY <1>1, <1>2, <1>3, QuietRowStep

\* A relay claim draws a fresh token for a row that stays pending.
LEMMA ClaimDueDeliveryIInv ==
  ASSUME IInv, NEW w \in Workers, NEW d \in Deliveries, ClaimDueDelivery(w, d)
  PROVE  IInv' /\ Moves
  <1> DEFINE r == SetClaim(delivery[d], FreshToken)
  <1>1. /\ delivery[d] \in Row /\ FreshToken \in Nat
        /\ [d |-> d, token |-> FreshToken] \in Claim
    BY DEF IInv, TypeOK, FreshToken, Claim
  <1>2. /\ r \in Row /\ r.status = "pending" /\ r.token = FreshToken
    BY <1>1, SetClaimFacts DEF ClaimDueDelivery, Claimable
  <1>3. /\ delivery' = [delivery EXCEPT ![d] = r]
        /\ delivery[d].status = "pending"
        /\ UNCHANGED <<attempts, receipt, effects, lock, claims, unsettled>>
    BY DEF ClaimDueDelivery, Claimable
  <1> HIDE DEF r
  <1>4. relay' \in [Workers -> SUBSET Claim]
    BY <1>1 DEF IInv, TypeOK, ClaimDueDelivery
  <1>5. lastToken' \in Nat /\ lastToken <= lastToken' /\ r.token <= lastToken'
    BY <1>2 DEF ClaimDueDelivery, IInv, TypeOK, FreshToken
  <1> QED
    BY <1>2, <1>3, <1>4, <1>5, QuietRowStep

\* Observing a publication clears a relay claim at most.
LEMMA ObservePublicationIInv ==
  ASSUME IInv, NEW w \in Workers, NEW c \in relay[w], ObservePublication(w, c)
  PROVE  IInv' /\ Moves
  <1> DEFINE p == [delivery[c.d] EXCEPT !.pub = "fresh"]
             r == IF /\ delivery[c.d].status = "pending"
                     /\ delivery[c.d].token = c.token
                     /\ ~delivery[c.d].expired
                  THEN ClearClaim(p) ELSE delivery[c.d]
  <1>1. /\ c.d \in Deliveries /\ delivery[c.d] \in Row
    BY DEF IInv, TypeOK, Claim
  <1>2. p \in Row /\ p.status = delivery[c.d].status
    BY <1>1 DEF Row
  <1>3. delivery' = [delivery EXCEPT ![c.d] = r]
    BY DEF ObservePublication, IInv, TypeOK
  <1> HIDE DEF p
  <1>4. /\ r \in Row
        /\ \/ r = delivery[c.d]
           \/ /\ delivery[c.d].status = "pending"
              /\ r.status = "pending" /\ r.token = NoToken
    BY <1>1, <1>2, ClearClaimFacts
  <1> HIDE DEF r
  <1>5. /\ UNCHANGED <<attempts, receipt, effects, lock, claims, unsettled>>
        /\ relay' \in [Workers -> SUBSET Claim]
    BY DEF ObservePublication, IInv, TypeOK
  <1>6. lastToken' \in Nat /\ lastToken <= lastToken' /\ r.token <= lastToken'
    BY <1>1, <1>4 DEF ObservePublication, IInv, TypeOK, TokensDrawn
  <1> QED
    BY <1>1, <1>3, <1>4, <1>5, <1>6, QuietRowStep

\* Forgetting a relay claim leaves every row alone.
LEMMA AbandonPublicationIInv ==
  ASSUME IInv, NEW w \in Workers, NEW c \in relay[w], AbandonPublication(w, c)
  PROVE  IInv' /\ Moves
  <1> DEFINE r == delivery[c.d]
  <1>1. /\ c.d \in Deliveries /\ r \in Row
        /\ delivery' = [delivery EXCEPT ![c.d] = r]
    BY DEF IInv, TypeOK, Claim, AbandonPublication
  <1>2. /\ UNCHANGED <<attempts, receipt, effects, lock, claims, unsettled>>
        /\ relay' \in [Workers -> SUBSET Claim]
    BY DEF AbandonPublication, IInv, TypeOK
  <1>3. lastToken' \in Nat /\ lastToken <= lastToken' /\ r.token <= lastToken'
    BY <1>1 DEF AbandonPublication, IInv, TypeOK, TokensDrawn
  <1> QED
    BY <1>1, <1>2, <1>3, QuietRowStep

\* Republication after stream loss clears a lapsed relay claim at most.
LEMMA ResetObservationIInv ==
  ASSUME IInv, NEW d \in Deliveries, ResetObservation(d) PROVE IInv' /\ Moves
  <1> DEFINE p == [delivery[d] EXCEPT !.pub = "none"]
             r == ClearClaim(p)
  <1>1. p \in Row /\ p.status = "pending"
    BY DEF Row, IInv, TypeOK, ResetObservation
  <1>2. /\ delivery' = [delivery EXCEPT ![d] = r]
        /\ delivery[d].status = "pending"
        /\ UNCHANGED <<attempts, receipt, effects, lock, claims, unsettled>>
    BY DEF ResetObservation
  <1> HIDE DEF p
  <1>3. r \in Row /\ r.status = "pending" /\ r.token = NoToken
    BY <1>1, ClearClaimFacts
  <1> HIDE DEF r
  <1>4. /\ relay' \in [Workers -> SUBSET Claim]
        /\ lastToken' \in Nat /\ lastToken <= lastToken' /\ r.token <= lastToken'
    BY <1>3 DEF ResetObservation, IInv, TypeOK
  <1> QED
    BY <1>2, <1>3, <1>4, QuietRowStep

\* A replay puts a failed delivery, which runs nothing, back into the queue.
LEMMA ReplayIInv == ASSUME IInv, NEW d \in Deliveries, Replay(d) PROVE IInv' /\ Moves
  <1> DEFINE n == delivery[d].cycle + 1
             r == NewRow("pending", n)
  <1>1. n \in Nat
    BY DEF IInv, TypeOK, Row
  <1>2. /\ delivery' = [delivery EXCEPT ![d] = r]
        /\ delivery[d].status = "failed" /\ n = delivery[d].cycle + 1
        /\ UNCHANGED <<attempts, receipt, effects, lock, claims, unsettled>>
    BY DEF Replay
  <1> HIDE DEF n
  <1>3. /\ r \in Row /\ r.status = "pending" /\ r.token = NoToken
        /\ r.cycle = n /\ r.count = 0
    BY <1>1, NewRowFacts DEF Statuses
  <1> HIDE DEF r
  <1>4. /\ relay' \in [Workers -> SUBSET Claim]
        /\ lastToken' \in Nat /\ lastToken <= lastToken' /\ r.token <= lastToken'
    BY <1>3 DEF Replay, IInv, TypeOK
  <1> QED
    BY <1>2, <1>3, <1>4, QuietRowStep

\* The clock: LeaseExpires, BackoffElapses, PublicationStalls.
LEMMA ClockIInv ==
  ASSUME IInv, NEW d \in Deliveries,
         LeaseExpires(d) \/ BackoffElapses(d) \/ PublicationStalls(d)
  PROVE  IInv' /\ Moves
  <1>1. /\ delivery[d] \in Row /\ delivery[d].token <= lastToken
        /\ lastToken' \in Nat /\ lastToken <= lastToken' /\ delivery[d].token <= lastToken'
        /\ relay' \in [Workers -> SUBSET Claim]
        /\ UNCHANGED <<attempts, receipt, effects, lock, claims, unsettled>>
        /\ delivery[d].status \in {"pending", "processing"}
    BY DEF IInv, TypeOK, TokensDrawn, FinishedUnclaimed, Row, Statuses, LeaseExpires,
           BackoffElapses, PublicationStalls
  <1>2. ASSUME NEW r \in Row, delivery' = [delivery EXCEPT ![d] = r],
               r.status = delivery[d].status, r.token = delivery[d].token,
               r.cycle = delivery[d].cycle, r.count = delivery[d].count
        PROVE  IInv' /\ Moves
    BY <1>1, <1>2, QuietRowStep
  <1>3. CASE LeaseExpires(d)
    <2> DEFINE r == [delivery[d] EXCEPT !.expired = TRUE]
    <2>1. r \in Row /\ r.status = delivery[d].status /\ r.token = delivery[d].token
          /\ r.cycle = delivery[d].cycle /\ r.count = delivery[d].count
      BY <1>1 DEF Row
    <2> QED BY <1>2, <1>3, <2>1 DEF LeaseExpires
  <1>4. CASE BackoffElapses(d)
    <2> DEFINE r == [delivery[d] EXCEPT !.due = TRUE]
    <2>1. r \in Row /\ r.status = delivery[d].status /\ r.token = delivery[d].token
          /\ r.cycle = delivery[d].cycle /\ r.count = delivery[d].count
      BY <1>1 DEF Row
    <2> QED BY <1>2, <1>4, <2>1 DEF BackoffElapses
  <1>5. CASE PublicationStalls(d)
    <2> DEFINE r == [delivery[d] EXCEPT !.pub = "stale"]
    <2>1. r \in Row /\ r.status = delivery[d].status /\ r.token = delivery[d].token
          /\ r.cycle = delivery[d].cycle /\ r.count = delivery[d].count
      BY <1>1 DEF Row
    <2> QED BY <1>2, <1>5, <2>1 DEF PublicationStalls
  <1> QED
    BY <1>3, <1>4, <1>5

-----------------------------------------------------------------------------
(* Steps that end the running attempt of a delivery *)

\* A is the attempt history once no attempt of d runs any more: finished
\* attempts and those of other deliveries are as before.
EndedFor(d, A) ==
    /\ A \subseteq Attempt
    /\ \A b \in A : \E a \in attempts :
         /\ b.d = a.d /\ b.token = a.token /\ b.cycle = a.cycle
         /\ b = a \/ (a.d = d /\ a.state = "running")
    /\ \A a \in attempts : \E b \in A :
         /\ b.d = a.d /\ b.token = a.token /\ b.cycle = a.cycle
         /\ a.state # "running" => b = a
    /\ \A a \in attempts : a.d # d => a \in A
    /\ \A b \in A : b.d = d => b.state # "running"
    /\ \A b, c \in A : b.d = c.d /\ b.token = c.token => b = c

\* A delivery that is not processing has no running attempt to end.
LEMMA NothingRunning ==
  ASSUME IInv, NEW d \in Deliveries, delivery[d].status # "processing"
  PROVE  EndedFor(d, attempts)
  BY DEF EndedFor, IInv, TypeOK, RunningAttemptHoldsClaim, Owns, AttemptsDistinct

\* Interrupting ends the running attempts of one delivery and no other.
LEMMA InterruptedFacts ==
  ASSUME IInv, NEW d \in Deliveries
  PROVE  EndedFor(d, AttemptsInterrupted(d))
  <1> DEFINE f(a) == IF a.d = d /\ a.state = "running"
                     THEN [a EXCEPT !.state = "worker_interrupted"] ELSE a
  <1>1. attempts \subseteq Attempt /\ AttemptsDistinct
    BY DEF IInv, TypeOK
  <1>2. ASSUME NEW a \in attempts
        PROVE  /\ f(a) \in Attempt
               /\ f(a).d = a.d /\ f(a).token = a.token /\ f(a).cycle = a.cycle
               /\ a.d = d => f(a).state # "running"
               /\ f(a) = a \/ (a.d = d /\ a.state = "running")
    BY <1>1, WithStateFacts DEF AttemptStates
  <1>3. AttemptsInterrupted(d) = {f(a) : a \in attempts}
    BY DEF AttemptsInterrupted
  <1> HIDE DEF f
  <1> QED
    BY <1>1, <1>2, <1>3 DEF EndedFor, AttemptsDistinct

\* Finishing the attempt of the current claim ends it and no other.
LEMMA FinishedFacts ==
  ASSUME IInv, NEW c, c.d \in Deliveries, Owns(c),
         NEW s \in AttemptStates, s # "running"
  PROVE  EndedFor(c.d, AttemptFinished(c, s))
  <1> DEFINE f(a) == IF a.d = c.d /\ a.token = c.token
                     THEN [a EXCEPT !.state = s] ELSE a
  <1>1. attempts \subseteq Attempt /\ AttemptsDistinct
    BY DEF IInv, TypeOK
  <1>2. \A a \in attempts : a.d = c.d => (a.state = "running" <=> a.token = c.token)
    BY DEF IInv, RunningAttemptHoldsClaim, AttemptsDistinct, Owns
  <1>3. ASSUME NEW a \in attempts
        PROVE  /\ f(a) \in Attempt
               /\ f(a).d = a.d /\ f(a).token = a.token /\ f(a).cycle = a.cycle
               /\ a.d = c.d => f(a).state # "running"
               /\ f(a) = a \/ (a.d = c.d /\ a.state = "running")
    BY <1>1, <1>2, WithStateFacts
  <1>4. AttemptFinished(c, s) = {f(a) : a \in attempts}
    BY DEF AttemptFinished
  <1> HIDE DEF f
  <1> QED
    BY <1>1, <1>3, <1>4 DEF EndedFor, AttemptsDistinct

\* The delivery goes back to the queue, or fails, with its attempt ended.
LEMMA EndAttemptStep ==
  ASSUME IInv, NEW d \in Deliveries, NEW r \in Row, Unlocked(d),
         delivery[d].status \in {"pending", "processing"},
         delivery' = [delivery EXCEPT ![d] = r],
         r.status \in {"pending", "failed"}, r.token = NoToken,
         EndedFor(d, attempts'),
         UNCHANGED <<receipt, effects, lock, claims, relay, lastToken>>,
         unsettled' \in [Workers -> SUBSET UnsettledClaim]
  PROVE  IInv' /\ Moves
  <1> USE DEF IInv
  <1>0. \A e \in Deliveries : /\ e # d => delivery'[e] = delivery[e]
                              /\ delivery'[d] = r
    BY DEF TypeOK
  <1>1. TypeOK'
    BY <1>0 DEF TypeOK, EndedFor
  <1>2. EffectExactlyOnce'
    BY <1>0 DEF EffectExactlyOnce
  <1>3. RunningAttemptHoldsClaim'
    BY <1>0 DEF RunningAttemptHoldsClaim, Owns, TypeOK, Attempt, EndedFor
  <1>4. TokensDrawn'
    BY <1>0 DEF TokensDrawn, TypeOK, EndedFor
  <1>5. AttemptsDistinct' /\ OneClaimPerLoop'
    BY DEF AttemptsDistinct, OneClaimPerLoop, EndedFor
  <1>6. LockHolder'
    BY <1>0, NoWorkerAssumption DEF LockHolder, Owns, TypeOK, Claim, Unlocked
  <1>7. ProcessingCharged' /\ FinishedUnclaimed'
    BY <1>0 DEF ProcessingCharged, FinishedUnclaimed
  <1>8. Moves
    BY <1>0 DEF Moves, RowMove, TypeOK
  <1> QED
    BY <1>1, <1>2, <1>3, <1>4, <1>5, <1>6, <1>7, <1>8

\* _start on a spent allowance ends what ran and fails the delivery.
LEMMA StartExhaustedIInv ==
  ASSUME IInv, NEW w \in Workers, NEW d \in Deliveries, StartExhausted(w, d)
  PROVE  IInv' /\ Moves
  <1> DEFINE p == [delivery[d] EXCEPT !.status = "failed"]
             r == ClearClaim(p)
  <1>1. p \in Row /\ p.status = "failed"
    BY SMTT(30) DEF Row, IInv, TypeOK, Statuses
  <1>2. /\ delivery' = [delivery EXCEPT ![d] = r]
        /\ delivery[d].status \in {"pending", "processing"} /\ Unlocked(d)
        /\ UNCHANGED <<receipt, effects, lock, claims, relay, lastToken>>
    BY DEF StartExhausted, Startable
  <1> HIDE DEF p
  <1>3. r \in Row /\ r.status = "failed" /\ r.token = NoToken
    BY <1>1, ClearClaimFacts
  <1> HIDE DEF r
  <1>4. unsettled' \in [Workers -> SUBSET UnsettledClaim]
    BY DEF StartExhausted, IInv, TypeOK
  <1>5. EndedFor(d, attempts')
    BY <1>2, NothingRunning, InterruptedFacts DEF StartExhausted
  <1> QED
    BY <1>2, <1>3, <1>4, <1>5, EndAttemptStep

\* recover_expired ends the lapsed attempt with its claim.
LEMMA RecoverExpiredIInv ==
  ASSUME IInv, NEW d \in Deliveries, RecoverExpired(d)
  PROVE  IInv' /\ Moves
  <1> DEFINE s == IF delivery[d].count >= MaxAttempts THEN "failed" ELSE "pending"
             p == [delivery[d] EXCEPT !.status = s, !.due = TRUE, !.pub = "none"]
             r == ClearClaim(p)
  <1>1. s \in {"pending", "failed"} /\ s \in Statuses
    BY DEF Statuses
  <1>2. /\ delivery' = [delivery EXCEPT ![d] = r]
        /\ delivery[d].status \in {"pending", "processing"} /\ Unlocked(d)
        /\ UNCHANGED <<receipt, effects, lock, claims, relay, lastToken>>
    BY DEF RecoverExpired
  <1> HIDE DEF s
  <1>3. p \in Row /\ p.status = s
    BY <1>1, ZenonT(40) DEF Row, IInv, TypeOK
  <1> HIDE DEF p
  <1>4. r \in Row /\ r.status \in {"pending", "failed"} /\ r.token = NoToken
    BY <1>1, <1>3, ClearClaimFacts
  <1> HIDE DEF r
  <1>5. unsettled' \in [Workers -> SUBSET UnsettledClaim]
    BY DEF RecoverExpired, IInv, TypeOK
  <1>6. EndedFor(d, attempts')
    BY InterruptedFacts DEF RecoverExpired
  <1> QED
    BY <1>2, <1>4, <1>5, <1>6, EndAttemptStep

\* _finish_failure ends the attempt it owns, or changes nothing.
LEMMA FinishFailureIInv ==
  ASSUME IInv, NEW w \in Workers, NEW u \in unsettled[w], FinishFailure(w, u)
  PROVE  IInv' /\ Moves
  <1>1. /\ u.d \in Deliveries /\ u.failure \in Failures
        /\ delivery[u.d] \in Row /\ u.failure \in AttemptStates /\ u.failure # "running"
    BY DEF IInv, TypeOK, UnsettledClaim, Failures, AttemptStates
  <1>2. unsettled' \in [Workers -> SUBSET UnsettledClaim]
    BY DEF FinishFailure, IInv, TypeOK
  <1>3. CASE ~Owns(u)
    <2> USE <1>3 DEF FinishFailure
    <2>1. TypeOK'
      BY <1>2 DEF IInv, TypeOK
    <2>2. /\ EffectExactlyOnce' /\ RunningAttemptHoldsClaim' /\ TokensDrawn'
          /\ AttemptsDistinct' /\ OneClaimPerLoop' /\ LockHolder'
          /\ ProcessingCharged' /\ FinishedUnclaimed'
      BY DEF IInv, EffectExactlyOnce, RunningAttemptHoldsClaim, Owns, TokensDrawn,
             AttemptsDistinct, OneClaimPerLoop, LockHolder, ProcessingCharged,
             FinishedUnclaimed
    <2> QED
      BY <2>1, <2>2 DEF IInv, Moves
  <1>4. CASE Owns(u)
    <2> DEFINE n == IF u.failure = "infrastructure" THEN delivery[u.d].count - 1
                    ELSE delivery[u.d].count
               s == IF u.failure = "permanent"
                       \/ (u.failure # "infrastructure" /\ n >= MaxAttempts)
                    THEN "failed" ELSE "pending"
               p == [delivery[u.d] EXCEPT !.status = s, !.count = n, !.due = FALSE,
                                          !.pub = "none"]
               r == ClearClaim(p)
    <2>1. n \in Nat
      BY <1>1, <1>4 DEF IInv, ProcessingCharged, Owns, Row
    <2>2. s \in {"pending", "failed"} /\ s \in Statuses
      BY DEF Statuses
    <2>3. /\ delivery' = [delivery EXCEPT ![u.d] = r]
          /\ delivery[u.d].status \in {"pending", "processing"} /\ Unlocked(u.d)
          /\ attempts' = AttemptFinished(u, u.failure)
          /\ UNCHANGED <<receipt, effects, lock, claims, relay, lastToken>>
      BY <1>4 DEF FinishFailure, RowAfterFailure, Owns
    <2> HIDE DEF n, s
    <2>4. p \in Row /\ p.status = s
      BY <1>1, <2>1, <2>2, Zenon DEF Row
    <2> HIDE DEF p
    <2>5. r \in Row /\ r.status \in {"pending", "failed"} /\ r.token = NoToken
      BY <2>2, <2>4, ClearClaimFacts
    <2> HIDE DEF r
    <2>6. EndedFor(u.d, attempts')
      BY <1>1, <1>4, <2>3, FinishedFacts
    <2> QED
      BY <1>1, <1>2, <2>3, <2>5, <2>6, EndAttemptStep
  <1> QED
    BY <1>3, <1>4

-----------------------------------------------------------------------------
(* Steps that record a new attempt *)

\* A new attempt, with a token never drawn before, joins an ended history.  It
\* runs for the row it claims, or it failed at once and the row is terminal.
LEMMA NewAttemptStep ==
  ASSUME IInv, NEW d \in Deliveries, NEW r \in Row, Unlocked(d),
         delivery[d].status \in {"pending", "processing"},
         delivery' = [delivery EXCEPT ![d] = r],
         NEW A, EndedFor(d, A), NEW a \in Attempt, attempts' = A \cup {a},
         a.d = d, a.token = lastToken', a.cycle = r.cycle,
         \/ /\ a.state = "running" /\ r.status = "processing"
            /\ r.token = a.token /\ r.count >= 1
         \/ a.state # "running" /\ r.status = "failed" /\ r.token = NoToken,
         lastToken' \in Nat, lastToken < lastToken',
         UNCHANGED <<receipt, effects, lock, unsettled, relay>>,
         NEW w \in Workers, claims[w] = {},
         \/ UNCHANGED claims
         \/ \E c \in Claim : c.d = d /\ claims' = [claims EXCEPT ![w] = {c}]
  PROVE  IInv' /\ Moves
  <1> USE DEF IInv
  <1>0. \A e \in Deliveries : /\ e # d => delivery'[e] = delivery[e]
                              /\ delivery'[d] = r
    BY DEF TypeOK
  <1>1. TypeOK'
    <2>1. claims' \in [Workers -> SUBSET Claim]
      BY DEF TypeOK
    <2>2. lastToken' # 0
      BY DEF TypeOK
    <2> QED
      BY <1>0, <2>1, <2>2 DEF TypeOK, EndedFor
  <1>2. EffectExactlyOnce'
    BY <1>0 DEF EffectExactlyOnce
  <1>3. RunningAttemptHoldsClaim'
    BY <1>0 DEF RunningAttemptHoldsClaim, Owns, TypeOK, Attempt, EndedFor
  <1>4. TokensDrawn'
    <2>1. \A b \in attempts' : b.token <= lastToken'
      BY DEF TokensDrawn, TypeOK, EndedFor, Attempt
    <2>2. \A e \in Deliveries : delivery'[e].token <= lastToken'
      BY <1>0 DEF TokensDrawn, TypeOK, Row
    <2> QED
      BY <2>1, <2>2 DEF TokensDrawn
  <1>5. AttemptsDistinct'
    <2>1. \A b \in A : b.token # lastToken'
      BY DEF TokensDrawn, TypeOK, EndedFor, Attempt
    <2> QED
      BY <2>1 DEF AttemptsDistinct, EndedFor
  <1>6. OneClaimPerLoop'
    BY DEF OneClaimPerLoop, TypeOK
  <1>7. LockHolder'
    <2>1. \A v \in Workers : \A c \in claims'[v] : lock[c.d] = v => c \in claims[v]
      BY NoWorkerAssumption DEF Unlocked, TypeOK
    <2>2. \A v \in Workers : v # w => claims'[v] = claims[v]
      BY DEF TypeOK
    <2>3. \A e \in Deliveries : lock[e] # w
      BY NoWorkerAssumption DEF LockHolder
    <2> QED
      BY <1>0, <2>1, <2>2, <2>3, NoWorkerAssumption
      DEF LockHolder, Owns, TypeOK, Claim, Unlocked
  <1>8. ProcessingCharged' /\ FinishedUnclaimed'
    BY <1>0 DEF ProcessingCharged, FinishedUnclaimed
  <1>9. Moves
    BY <1>0 DEF Moves, RowMove, TypeOK
  <1> QED
    BY <1>1, <1>2, <1>3, <1>4, <1>5, <1>6, <1>7, <1>8, <1>9

\* The history _start leaves of the attempts before the new one.
LEMMA TakeoverEnds ==
  ASSUME IInv, NEW d \in Deliveries
  PROVE  EndedFor(d, IF delivery[d].status = "processing"
                     THEN AttemptsInterrupted(d) ELSE attempts)
  BY NothingRunning, InterruptedFacts

\* A contract rejection records an attempt that never ran.
LEMMA RejectContractIInv ==
  ASSUME IInv, NEW w \in Workers, NEW d \in Deliveries, RejectContract(w, d)
  PROVE  IInv' /\ Moves
  <1>0. PICK number \in 1..MaxTokens :
          attempts' = (IF delivery[d].status = "processing"
                       THEN AttemptsInterrupted(d) ELSE attempts)
                      \cup {[d |-> d, token |-> FreshToken, cycle |-> delivery[d].cycle,
                             number |-> number, state |-> "contract"]}
    BY DEF RejectContract
  <1> DEFINE n == delivery[d].count + 1
             p == [delivery[d] EXCEPT !.status = "failed", !.count = n]
             r == ClearClaim(p)
             A == IF delivery[d].status = "processing"
                  THEN AttemptsInterrupted(d) ELSE attempts
             a == [d |-> d, token |-> FreshToken, cycle |-> delivery[d].cycle,
                   number |-> number, state |-> "contract"]
  <1>1. /\ delivery' = [delivery EXCEPT ![d] = r]
        /\ delivery[d].status \in {"pending", "processing"} /\ Unlocked(d)
        /\ attempts' = A \cup {a} /\ claims[w] = {}
        /\ UNCHANGED <<receipt, effects, lock, unsettled, relay>> /\ UNCHANGED claims
    BY <1>0 DEF RejectContract, Startable
  <1>2. /\ n \in Nat /\ delivery[d] \in Row /\ lastToken' = FreshToken
        /\ lastToken' \in Nat /\ lastToken < lastToken'
    BY DEF IInv, TypeOK, Row, RejectContract, FreshToken
  <1>3. a \in Attempt /\ a.d = d /\ a.token = lastToken'
        /\ a.cycle = delivery[d].cycle /\ a.state # "running"
    BY <1>2, BoundsAssumption DEF Attempt, AttemptStates, Row
  <1>4. EndedFor(d, A)
    BY TakeoverEnds
  <1> HIDE DEF n, A, a
  <1>5. p \in Row /\ p.status = "failed" /\ p.cycle = delivery[d].cycle
    BY <1>2, Zenon DEF Row, Statuses
  <1> HIDE DEF p
  <1>6. r \in Row /\ r.status = "failed" /\ r.token = NoToken
        /\ r.cycle = delivery[d].cycle
    BY <1>5, ClearClaimFacts
  <1> HIDE DEF r
  <1> QED
    BY <1>1, <1>2, <1>3, <1>4, <1>6, NewAttemptStep

\* _start ends the attempt it takes over before it starts its own.
LEMMA StartAttemptIInv ==
  ASSUME IInv, NEW w \in Workers, NEW d \in Deliveries, StartAttempt(w, d)
  PROVE  IInv' /\ Moves
  <1>0. PICK number \in 1..MaxTokens :
          attempts' = (IF delivery[d].status = "processing"
                       THEN AttemptsInterrupted(d) ELSE attempts)
                      \cup {[d |-> d, token |-> FreshToken, cycle |-> delivery[d].cycle,
                             number |-> number, state |-> "running"]}
    BY DEF StartAttempt
  <1> DEFINE n == delivery[d].count + 1
             p == [delivery[d] EXCEPT !.status = "processing", !.count = n]
             r == SetClaim(p, FreshToken)
             A == IF delivery[d].status = "processing"
                  THEN AttemptsInterrupted(d) ELSE attempts
             a == [d |-> d, token |-> FreshToken, cycle |-> delivery[d].cycle,
                   number |-> number, state |-> "running"]
             c == [d |-> d, token |-> FreshToken]
  <1>1. /\ delivery' = [delivery EXCEPT ![d] = r]
        /\ delivery[d].status \in {"pending", "processing"} /\ Unlocked(d)
        /\ attempts' = A \cup {a} /\ claims[w] = {}
        /\ UNCHANGED <<receipt, effects, lock, unsettled, relay>>
        /\ UNCHANGED claims \/ claims' = [claims EXCEPT ![w] = {c}]
    BY <1>0 DEF StartAttempt, Startable
  <1>2. /\ n \in Nat /\ n >= 1 /\ delivery[d] \in Row /\ lastToken' = FreshToken
        /\ FreshToken \in Nat /\ lastToken' \in Nat /\ lastToken < lastToken'
    BY DEF IInv, TypeOK, Row, StartAttempt, FreshToken
  <1>3. a \in Attempt /\ a.d = d /\ a.token = lastToken'
        /\ a.cycle = delivery[d].cycle /\ a.state = "running"
    BY <1>2, BoundsAssumption DEF Attempt, AttemptStates, Row
  <1>4. c \in Claim /\ c.d = d
    BY <1>2 DEF Claim
  <1>5. EndedFor(d, A)
    BY TakeoverEnds
  <1> HIDE DEF n, A, a, c
  <1>6. p \in Row /\ p.status = "processing" /\ p.cycle = delivery[d].cycle
        /\ p.count = n
    BY <1>2, Zenon DEF Row, Statuses
  <1> HIDE DEF p
  <1>7. r \in Row /\ r.status = "processing" /\ r.token = FreshToken
        /\ r.cycle = delivery[d].cycle /\ r.count = n
    BY <1>2, <1>6, SetClaimFacts
  <1> HIDE DEF r
  <1>8. /\ r.token = a.token /\ r.count >= 1 /\ a.cycle = r.cycle
        /\ lastToken' \in Nat /\ lastToken < lastToken'
    BY <1>2, <1>3, <1>7
  <1>9. \/ UNCHANGED claims
        \/ \E b \in Claim : b.d = d /\ claims' = [claims EXCEPT ![w] = {b}]
    BY <1>1, <1>4
  <1> QED
    BY <1>1, <1>3, <1>5, <1>7, <1>8, <1>9, NewAttemptStep

-----------------------------------------------------------------------------
(* The effect transaction and crashes *)

\* The fence of _effect lets only the current claim take the row lock.
LEMMA EffectBeginIInv ==
  ASSUME IInv, NEW w \in Workers, NEW c \in claims[w], EffectBegin(w, c)
  PROVE  IInv' /\ Moves
  <1> USE DEF IInv, EffectBegin
  <1>1. TypeOK'
    BY DEF TypeOK, Claim
  <1>2. EffectExactlyOnce' /\ TokensDrawn' /\ AttemptsDistinct'
        /\ ProcessingCharged' /\ FinishedUnclaimed'
    BY DEF EffectExactlyOnce, TokensDrawn, AttemptsDistinct, ProcessingCharged,
           FinishedUnclaimed
  <1>3. RunningAttemptHoldsClaim'
    BY DEF RunningAttemptHoldsClaim, Owns
  <1>4. OneClaimPerLoop'
    BY DEF OneClaimPerLoop, TypeOK
  <1>5. LockHolder'
    <2>1. CASE Owns(c) /\ ~delivery[c.d].expired
      BY <2>1, NoWorkerAssumption DEF LockHolder, OneClaimPerLoop, Owns, TypeOK, Claim,
                                      Unlocked
    <2>2. CASE ~(Owns(c) /\ ~delivery[c.d].expired)
      BY <2>2, NoWorkerAssumption DEF LockHolder, OneClaimPerLoop, Owns, TypeOK, Claim,
                                      Unlocked
    <2> QED
      BY <2>1, <2>2
  <1> QED
    BY <1>1, <1>2, <1>3, <1>4, <1>5 DEF Moves

\* The effect commits with its receipt, its attempt and its claim's end.
LEMMA EffectCommitIInv ==
  ASSUME IInv, NEW w \in Workers, NEW c \in claims[w], EffectCommit(w, c)
  PROVE  IInv' /\ Moves
  <1> DEFINE p == [delivery[c.d] EXCEPT !.status = "succeeded"]
             r == ClearClaim(p)
  <1>1. /\ c \in Claim /\ c.d \in Deliveries /\ c.token \in Nat
        /\ delivery[c.d] \in Row /\ lock[c.d] = w /\ Owns(c)
    BY DEF IInv, TypeOK, Claim, LockHolder, EffectCommit
  <1>2. delivery' = [delivery EXCEPT ![c.d] = r]
    BY DEF EffectCommit
  <1>3. p \in Row /\ p.status = "succeeded"
    BY <1>1 DEF Row, Statuses
  <1> HIDE DEF p
  <1>4. r \in Row /\ r.status = "succeeded" /\ r.token = NoToken
    BY <1>3, ClearClaimFacts
  <1> HIDE DEF r
  <1>5. EndedFor(c.d, attempts')
    <2>1. PICK outcome \in Outcomes :
            attempts' = AttemptFinished(c, IF outcome = "skipped" THEN "skipped"
                                           ELSE "succeeded")
      BY DEF EffectCommit
    <2> QED
      BY <1>1, <2>1, FinishedFacts DEF AttemptStates
  <1>6. \A e \in Deliveries : /\ e # c.d => delivery'[e] = delivery[e]
                              /\ delivery'[c.d] = r
    BY <1>1, <1>2 DEF IInv, TypeOK
  <1>7. TypeOK'
    <2>1. unsettled' \in [Workers -> SUBSET UnsettledClaim]
      BY <1>1 DEF EffectCommit, IInv, TypeOK, UnsettledClaim, Failures
    <2>2. receipt' \in [Deliveries -> Outcomes \cup {"none"}]
      BY <1>1 DEF EffectCommit, IInv, TypeOK
    <2>3. /\ effects' \in [Deliveries -> Nat]
          /\ lock' \in [Deliveries -> Workers \cup {NoWorker}]
          /\ claims' \in [Workers -> SUBSET Claim]
      BY <1>1 DEF EffectCommit, IInv, TypeOK
    <2> QED
      BY <1>2, <1>4, <1>5, <1>6, <2>1, <2>2, <2>3 DEF EffectCommit, IInv, TypeOK, EndedFor
  <1>8. EffectExactlyOnce'
    <2>1. receipt'[c.d] # "none" /\ \A e \in Deliveries : e # c.d => receipt'[e] = receipt[e]
      BY <1>1 DEF EffectCommit, IInv, TypeOK, Outcomes
    <2>2. effects'[c.d] = effects[c.d] + 1
          /\ \A e \in Deliveries : e # c.d => effects'[e] = effects[e]
      BY <1>1 DEF EffectCommit, IInv, TypeOK
    <2> QED
      BY <1>1, <1>4, <1>6, <2>1, <2>2 DEF IInv, TypeOK, EffectExactlyOnce, Owns
  <1>9. RunningAttemptHoldsClaim'
    BY <1>4, <1>5, <1>6 DEF IInv, RunningAttemptHoldsClaim, Owns, TypeOK, Attempt, EndedFor
  <1>10. TokensDrawn'
    BY <1>4, <1>5, <1>6 DEF IInv, EffectCommit, TokensDrawn, TypeOK, EndedFor
  <1>11. AttemptsDistinct' /\ OneClaimPerLoop'
    BY <1>5 DEF IInv, EffectCommit, AttemptsDistinct, OneClaimPerLoop, EndedFor, TypeOK
  <1>12. LockHolder'
    BY <1>1, <1>6, NoWorkerAssumption
    DEF IInv, EffectCommit, LockHolder, OneClaimPerLoop, Owns, TypeOK, Claim
  <1>13. ProcessingCharged' /\ FinishedUnclaimed'
    BY <1>4, <1>6 DEF IInv, ProcessingCharged, FinishedUnclaimed
  <1>14. Moves
    BY <1>1, <1>4, <1>6 DEF IInv, TypeOK, EffectCommit, Moves, RowMove, Owns
  <1> QED
    BY <1>7, <1>8, <1>9, <1>10, <1>11, <1>12, <1>13, <1>14 DEF IInv

\* A failed handler leaves only an entry of _unsettled behind.
LEMMA EffectFailIInv ==
  ASSUME IInv, NEW w \in Workers, NEW c \in claims[w], EffectFail(w, c)
  PROVE  IInv' /\ Moves
  <1> USE DEF IInv, EffectFail
  <1>1. TypeOK'
    BY DEF TypeOK, Claim, UnsettledClaim
  <1>2. EffectExactlyOnce' /\ TokensDrawn' /\ AttemptsDistinct'
        /\ ProcessingCharged' /\ FinishedUnclaimed'
    BY DEF EffectExactlyOnce, TokensDrawn, AttemptsDistinct, ProcessingCharged,
           FinishedUnclaimed
  <1>3. RunningAttemptHoldsClaim'
    BY DEF RunningAttemptHoldsClaim, Owns
  <1>4. OneClaimPerLoop'
    BY DEF OneClaimPerLoop, TypeOK
  <1>5. LockHolder'
    BY NoWorkerAssumption DEF LockHolder, OneClaimPerLoop, Owns, TypeOK, Claim
  <1> QED
    BY <1>1, <1>2, <1>3, <1>4, <1>5 DEF Moves

\* A crash releases locks and forgets claims; the rows stay as they are.
LEMMA CrashIInv ==
  ASSUME IInv, NEW w \in Workers, Crash(w)
  PROVE  IInv' /\ Moves
  <1> USE DEF IInv, Crash
  <1>1. TypeOK'
    BY DEF TypeOK
  <1>2. EffectExactlyOnce' /\ TokensDrawn' /\ AttemptsDistinct'
        /\ ProcessingCharged' /\ FinishedUnclaimed'
    BY DEF EffectExactlyOnce, TokensDrawn, AttemptsDistinct, ProcessingCharged,
           FinishedUnclaimed
  <1>3. RunningAttemptHoldsClaim'
    BY DEF RunningAttemptHoldsClaim, Owns
  <1>4. OneClaimPerLoop'
    BY DEF OneClaimPerLoop, TypeOK
  <1>5. LockHolder'
    BY NoWorkerAssumption DEF LockHolder, Owns, TypeOK, Claim
  <1> QED
    BY <1>1, <1>2, <1>3, <1>4, <1>5 DEF Moves

-----------------------------------------------------------------------------
(* Invariance *)

\* IInv is inductive: every step of the relay, the consumers, the operator, the
\* clock and every crash preserves it.
LEMMA NextIInv == IInv /\ [Next]_vars => IInv' /\ Moves
  <1> SUFFICES ASSUME IInv, [Next]_vars PROVE IInv' /\ Moves
    OBVIOUS
  <1>1. ASSUME NEW w \in Workers, RelayStep(w) PROVE IInv' /\ Moves
    BY <1>1, ClaimDueDeliveryIInv, ObservePublicationIInv, AbandonPublicationIInv
    DEF RelayStep
  <1>2. ASSUME NEW w \in Workers, ConsumerStep(w) PROVE IInv' /\ Moves
    <2>1. CASE \E d \in Deliveries : \/ StartExhausted(w, d) \/ RejectContract(w, d)
                                     \/ StartAttempt(w, d)
      BY <2>1, StartExhaustedIInv, RejectContractIInv, StartAttemptIInv
    <2>2. CASE \E c \in claims[w] : \/ EffectBegin(w, c) \/ EffectCommit(w, c)
                                    \/ EffectFail(w, c)
      BY <2>2, EffectBeginIInv, EffectCommitIInv, EffectFailIInv
    <2>3. CASE \E u \in unsettled[w] : FinishFailure(w, u)
      BY <2>3, FinishFailureIInv
    <2> QED
      BY <1>2, <2>1, <2>2, <2>3 DEF ConsumerStep
  <1>3. ASSUME NEW d \in Deliveries, RowStep(d) PROVE IInv' /\ Moves
    BY <1>3, AppendIInv, ResetObservationIInv, RecoverExpiredIInv, ReplayIInv, ClockIInv
    DEF RowStep
  <1>4. CASE UNCHANGED vars
    BY <1>4 DEF vars, IInv, TypeOK, EffectExactlyOnce, RunningAttemptHoldsClaim, Owns,
                TokensDrawn, AttemptsDistinct, OneClaimPerLoop, LockHolder,
                ProcessingCharged, FinishedUnclaimed, Moves
  <1> QED
    BY <1>1, <1>2, <1>3, <1>4, CrashIInv DEF Next

\* The inductive invariant holds in every state of every behaviour of the
\* pipeline: what execution.py may rely on between two transactions.
THEOREM Invariance == Spec => []IInv
  BY InitIInv, NextIInv, PTL DEF Spec

\* Rows and process memory keep their types, and a processing delivery always
\* carries the token _effect and _finish_failure are fenced by.
THEOREM TypeCorrectness == Spec => []TypeOK
  <1>1. IInv => TypeOK
    BY DEF IInv
  <1> QED
    BY Invariance, <1>1, PTL

\* However references are duplicated, leases lapse, workers crash and commit
\* replies get lost, _effect applies a delivery's effect exactly once, together
\* with its receipt and its success.
THEOREM ExactlyOnce == Spec => []EffectExactlyOnce
  <1>1. IInv => EffectExactlyOnce
    BY DEF IInv
  <1> QED
    BY Invariance, <1>1, PTL

\* The retained history never disagrees with the claim: takeover, recovery,
\* failure and success each end exactly the attempt that held the delivery.
THEOREM HistoryMatchesClaim == Spec => []RunningAttemptHoldsClaim
  <1>1. IInv => RunningAttemptHoldsClaim
    BY DEF IInv
  <1> QED
    BY Invariance, <1>1, PTL

\* The row lock makes the lease irrelevant while a handler runs: no recovery,
\* takeover or replay replaces the claim under it.
THEOREM RunningHandlerOwnsDelivery == Spec => []HandlerOwnsDelivery
  <1>1. IInv => HandlerOwnsDelivery
    <2> SUFFICES ASSUME IInv, NEW d \in Deliveries, lock[d] # NoWorker
                 PROVE  \E c \in claims[lock[d]] : c.d = d /\ Owns(c)
      BY DEF HandlerOwnsDelivery
    <2> QED
      BY DEF IInv, TypeOK, LockHolder
  <1> QED
    BY Invariance, <1>1, PTL

-----------------------------------------------------------------------------
(* What a step may do to the history and to a row *)

\* Every step keeps the history, or ends the attempt of one delivery and
\* possibly adds another.
LEMMA HistoryStep ==
  ASSUME IInv, Next
  PROVE  \/ UNCHANGED attempts
         \/ \E d \in Deliveries : \E A \in SUBSET attempts' : EndedFor(d, A)
  <1>1. ASSUME NEW w \in Workers, NEW d \in Deliveries,
               StartExhausted(w, d) \/ RejectContract(w, d) \/ StartAttempt(w, d)
        PROVE  \E A \in SUBSET attempts' : EndedFor(d, A)
    <2> DEFINE A == IF delivery[d].status = "processing"
                    THEN AttemptsInterrupted(d) ELSE attempts
    <2>1. A \subseteq attempts'
      BY <1>1 DEF StartExhausted, RejectContract, StartAttempt
    <2>2. EndedFor(d, A)
      BY TakeoverEnds
    <2> QED
      BY <2>1, <2>2
  <1>2. ASSUME NEW w \in Workers, NEW c \in claims[w], EffectCommit(w, c)
        PROVE  c.d \in Deliveries /\ EndedFor(c.d, attempts')
    <2>1. c.d \in Deliveries /\ Owns(c)
      BY <1>2 DEF IInv, TypeOK, Claim, LockHolder, EffectCommit
    <2>2. PICK outcome \in Outcomes :
            attempts' = AttemptFinished(c, IF outcome = "skipped" THEN "skipped"
                                           ELSE "succeeded")
      BY <1>2 DEF EffectCommit
    <2> QED
      BY <2>1, <2>2, FinishedFacts DEF AttemptStates
  <1>3. ASSUME NEW w \in Workers, NEW u \in unsettled[w], FinishFailure(w, u)
        PROVE  UNCHANGED attempts \/ (u.d \in Deliveries /\ EndedFor(u.d, attempts'))
    <2>1. u.d \in Deliveries /\ u.failure \in AttemptStates /\ u.failure # "running"
      BY DEF IInv, TypeOK, UnsettledClaim, Failures, AttemptStates
    <2> QED
      BY <1>3, <2>1, FinishedFacts DEF FinishFailure
  <1>4. ASSUME NEW w \in Workers, RelayStep(w) \/ Crash(w) PROVE UNCHANGED attempts
    BY <1>4 DEF RelayStep, ClaimDueDelivery, ObservePublication, AbandonPublication, Crash
  <1>5. ASSUME NEW d \in Deliveries, RowStep(d)
        PROVE  UNCHANGED attempts \/ EndedFor(d, attempts')
    BY <1>5, InterruptedFacts
    DEF RowStep, Append, ResetObservation, RecoverExpired, Replay, LeaseExpires,
        BackoffElapses, PublicationStalls
  <1>6. ASSUME NEW w \in Workers, NEW c \in claims[w],
               EffectBegin(w, c) \/ EffectFail(w, c)
        PROVE  UNCHANGED attempts
    BY <1>6 DEF EffectBegin, EffectFail
  <1>7. ASSUME NEW w \in Workers, ConsumerStep(w)
        PROVE  \/ UNCHANGED attempts
               \/ \E d \in Deliveries : \E A \in SUBSET attempts' : EndedFor(d, A)
    BY <1>1, <1>2, <1>3, <1>6, <1>7 DEF ConsumerStep
  <1> QED
    BY <1>4, <1>5, <1>7 DEF Next

\* Attempt history is append-only: a finished attempt is never rewritten.
THEOREM HistoryIsPreserved == Spec => HistoryPreserved
  <1> DEFINE Kept == \A a \in attempts :
         \E b \in attempts' : /\ b.d = a.d /\ b.token = a.token /\ b.cycle = a.cycle
                              /\ a.state # "running" => b = a
  <1>1. ASSUME IInv, Next PROVE Kept
    <2>1. CASE UNCHANGED attempts
      BY <2>1
    <2>2. CASE \E d \in Deliveries : \E A \in SUBSET attempts' : EndedFor(d, A)
      BY <2>2 DEF EndedFor
    <2> QED
      BY <1>1, <2>1, <2>2, HistoryStep
  <1>2. IInv /\ [Next]_vars => [Kept]_vars
    BY <1>1
  <1> QED
    BY Invariance, <1>2, PTL DEF Spec, HistoryPreserved

\* Success is final, and a failed delivery returns only as a replay with the
\* next cycle and a full allowance.
THEOREM TerminalStatusIsFinal == Spec => TerminalStatusFinal
  <1> DEFINE Final == \A d \in Deliveries :
         /\ delivery[d].status = "succeeded" => delivery'[d] = delivery[d]
         /\ delivery[d].status = "failed" /\ delivery'[d].status # "failed" =>
              /\ delivery'[d].status = "pending"
              /\ delivery'[d].cycle = delivery[d].cycle + 1
              /\ delivery'[d].count = 0
  <1>1. ASSUME Moves PROVE Final
    BY <1>1 DEF Moves, RowMove
  <1>2. IInv /\ [Next]_vars => [Final]_vars
    BY <1>1, NextIInv
  <1> QED
    BY Invariance, <1>2, PTL DEF Spec, TerminalStatusFinal

-----------------------------------------------------------------------------
(* Refinement *)

\* The pipeline implements the contract a consumer group relies on: an event is
\* queued once, applied or rejected, and only a rejected one is queued again.
THEOREM Refinement == Spec => ImplementsDurableEffect
  <1> DEFINE stage == [d \in Deliveries |-> Stage(d)]
  <1>1. Init => Durable!Init
    BY NewRowFacts DEF Init, Durable!Init, Stage, Statuses
  <1>2. ASSUME IInv, IInv', Moves PROVE [Durable!Next]_(Durable!vars)
    <2>1. CASE UNCHANGED <<delivery, effects>>
      BY <2>1 DEF Durable!vars, Stage
    <2>2. ASSUME NEW d \in Deliveries, RowMove(d),
                 \A e \in Deliveries \ {d} : delivery'[e] = delivery[e]
                                             /\ effects'[e] = effects[e]
          PROVE  [Durable!Next]_(Durable!vars)
      <3>0. effects \in [Deliveries -> Nat] /\ effects' \in [Deliveries -> Nat]
        BY <1>2 DEF IInv, TypeOK
      <3>1. \A e \in Deliveries \ {d} : Stage(e)' = Stage(e)
        BY <2>2 DEF Stage
      <3> DEFINE s == Stage(d)
                 t == Stage(d)'
      <3>2. stage' = [stage EXCEPT ![d] = t] /\ stage[d] = s
        BY <3>1
      <3>3. effects' = [effects EXCEPT ![d] = effects'[d]]
        BY <2>2, <3>0
      <3>4. \/ s = t /\ effects'[d] = effects[d]
            \/ s = "unrecorded" /\ t = "queued" /\ effects'[d] = effects[d]
            \/ s = "queued" /\ t = "rejected" /\ effects'[d] = effects[d]
            \/ s = "queued" /\ t = "applied" /\ effects'[d] = effects[d] + 1
            \/ s = "rejected" /\ t = "queued" /\ effects'[d] = effects[d]
        BY <2>2 DEF RowMove, Stage
      <3>5. effects'[d] = effects[d] => UNCHANGED effects
        BY <3>0, <3>3
      <3>6. s = t => UNCHANGED stage
        BY <3>1
      <3> HIDE DEF s, t, stage
      <3> QED
        BY <3>2, <3>3, <3>4, <3>5, <3>6
        DEF stage, Durable!vars, Durable!Next, Durable!Enqueue, Durable!Apply,
            Durable!Reject, Durable!Requeue, Durable!Move
    <2> QED
      BY <1>2, <2>1, <2>2 DEF Moves
  <1> QED
    BY Invariance, NextIInv, <1>1, <1>2, PTL DEF Spec, ImplementsDurableEffect, Durable!Spec

-----------------------------------------------------------------------------
(* The allowance.  attempt_count is the number of charged attempts of the      *)
(* cycle, a delivery fails for a recorded cause, a loop settles one failure at  *)
(* a time, and no row breaks a constraint of the schema.  AInv adds to          *)
(* FailuresAccounted that the history is finite and that no attempt is ahead of *)
(* its delivery's cycle, so that a replay starts with an empty account.  The    *)
(* argument counts: a step ends the one running attempt of a delivery (Ended),  *)
(* adds a new one, or does neither.                                             *)


\* The attempts of A that cycle n of delivery d is charged for.
ChargedIn(A, d, n) ==
    {a \in A : a.d = d /\ a.cycle = n /\ a.state # "infrastructure"}

\* A with its attempt x ended in state s.
Ended(A, x, s) == (A \ {x}) \cup {[x EXCEPT !.state = s]}

\* No attempt belongs to a cycle its delivery has not reached.
CyclesReached ==
    \A a \in attempts : /\ delivery[a.d].status # "absent"
                        /\ a.cycle <= delivery[a.d].cycle

\* A loop holds one claim or one failure to settle, never both.
OneTask ==
    \A w \in Workers : /\ claims[w] = {} \/ unsettled[w] = {}
                       /\ \A u, v \in unsettled[w] : u = v

NumbersDistinct ==
    \A a, b \in attempts :
        a.d = b.d /\ a.cycle = b.cycle /\ a.number = b.number => a = b

Leased == \A d \in Deliveries : DeliveryRow(delivery[d])

AInv ==
    /\ IsFiniteSet(attempts)
    /\ AllowanceAccounted
    /\ FailedForCause
    /\ CyclesReached
    /\ NumbersDistinct

-----------------------------------------------------------------------------
(* Counting *)

\* Exchanging an element keeps the size of a set.
LEMMA SwapKeepsSize ==
  ASSUME NEW S, IsFiniteSet(S), NEW x \in S, NEW y, y \notin S \ {x}
  PROVE  /\ IsFiniteSet((S \ {x}) \cup {y})
         /\ Cardinality((S \ {x}) \cup {y}) = Cardinality(S)
  <1>1. IsFiniteSet(S \ {x}) /\ Cardinality(S \ {x}) = Cardinality(S) - 1
    BY FS_RemoveElement
  <1>2. /\ IsFiniteSet((S \ {x}) \cup {y})
        /\ Cardinality((S \ {x}) \cup {y}) = Cardinality(S \ {x}) + 1
    BY <1>1, FS_AddElement
  <1>3. Cardinality(S) \in Nat
    BY FS_CardinalityType
  <1> QED
    BY <1>1, <1>2, <1>3

\* The charged attempts are those of the current cycle.
LEMMA ChargedIsIn == \A d : Charged(d) = ChargedIn(attempts, d, delivery[d].cycle)
  BY DEF Charged, ChargedIn

\* Charged attempts are attempts.
LEMMA ChargedFinite ==
  ASSUME NEW A, IsFiniteSet(A), NEW d, NEW n
  PROVE  IsFiniteSet(ChargedIn(A, d, n)) /\ Cardinality(ChargedIn(A, d, n)) \in Nat
  <1>1. ChargedIn(A, d, n) \in SUBSET A
    BY DEF ChargedIn
  <1> QED
    BY <1>1, FS_Subset, FS_CardinalityType

\* The running attempt of an owned delivery is charged to its cycle.
LEMMA RunningIsCharged ==
  ASSUME IInv, NEW x \in attempts, x.state = "running"
  PROVE  /\ x \in Attempt /\ x.d \in Deliveries
         /\ x.cycle = delivery[x.d].cycle
         /\ \A a \in attempts : a.d = x.d /\ a.state = "running" => a = x
         /\ \A a \in attempts : a.d = x.d /\ a.token = x.token => a = x
  BY DEF IInv, TypeOK, Attempt, RunningAttemptHoldsClaim, AttemptsDistinct, Owns

\* An ended attempt keeps its identity, and it is new to the history.
LEMMA EndedFacts ==
  ASSUME IInv, NEW x \in attempts, x.state = "running",
         NEW s \in AttemptStates, s # "running"
  PROVE  LET y == [x EXCEPT !.state = s]
         IN /\ y \in Attempt /\ y.d = x.d /\ y.token = x.token /\ y.cycle = x.cycle
            /\ y.number = x.number /\ y.state = s /\ y \notin attempts
  <1> DEFINE y == [x EXCEPT !.state = s]
  <1>1. /\ y \in Attempt /\ y.d = x.d /\ y.token = x.token /\ y.cycle = x.cycle
        /\ y.number = x.number /\ y.state = s
    BY RunningIsCharged DEF Attempt
  <1>2. y \notin attempts
    BY <1>1, RunningIsCharged
  <1> QED
    BY <1>1, <1>2

\* Ending an attempt keeps the account, except that an infrastructure failure
\* is taken back.
LEMMA EndedAccount ==
  ASSUME IInv, AInv, NEW x \in attempts, x.state = "running",
         NEW s \in AttemptStates, s # "running"
  PROVE  LET A == Ended(attempts, x, s)
         IN /\ IsFiniteSet(A)
            /\ Cardinality(ChargedIn(A, x.d, x.cycle)) =
                 IF s = "infrastructure" THEN delivery[x.d].count - 1
                                         ELSE delivery[x.d].count
            /\ \A d, n : d # x.d => ChargedIn(A, d, n) = ChargedIn(attempts, d, n)
            /\ \A d, n : \A a \in ChargedIn(attempts, d, n) :
                 a.state # "running" => a \in ChargedIn(A, d, n)
            /\ s # "infrastructure" =>
                 \E a \in ChargedIn(A, x.d, x.cycle) : a.state = s
  <1> DEFINE y == [x EXCEPT !.state = s]
             A == Ended(attempts, x, s)
             C == ChargedIn(attempts, x.d, x.cycle)
             D == ChargedIn(A, x.d, x.cycle)
  <1>1. /\ y.d = x.d /\ y.cycle = x.cycle /\ y.state = s /\ y \notin attempts
    BY EndedFacts
  <1>2. A = (attempts \ {x}) \cup {y}
    BY DEF Ended
  <1>3. IsFiniteSet(A)
    <2> HIDE DEF A, y
    <2>1. IsFiniteSet(attempts)
      BY DEF AInv
    <2>2. IsFiniteSet(attempts \ {x})
      BY <2>1, FS_RemoveElement
    <2>3. IsFiniteSet((attempts \ {x}) \cup {y})
      BY <2>2, FS_AddElement
    <2> QED
      BY <1>2, <2>3
  <1>4. /\ x \in C /\ y \notin C
        /\ IsFiniteSet(C) /\ Cardinality(C) \in Nat
        /\ Cardinality(C) = delivery[x.d].count
    <2>1. C = Charged(x.d) /\ x.d \in Deliveries
      BY RunningIsCharged, ChargedIsIn
    <2>2. x \in C /\ y \notin C
      BY <1>1 DEF ChargedIn
    <2> HIDE DEF C
    <2>3. Cardinality(C) = delivery[x.d].count
      BY <2>1 DEF AInv, AllowanceAccounted
    <2>4. IsFiniteSet(C) /\ Cardinality(C) \in Nat
      BY ChargedFinite DEF AInv, C
    <2> QED
      BY <2>2, <2>3, <2>4
  <1>5. D = IF s = "infrastructure" THEN C \ {x} ELSE (C \ {x}) \cup {y}
    BY <1>1, <1>2 DEF ChargedIn
  <1>6. /\ \A d, n : d # x.d => ChargedIn(A, d, n) = ChargedIn(attempts, d, n)
        /\ \A d, n : \A a \in ChargedIn(attempts, d, n) :
             a.state # "running" => a \in ChargedIn(A, d, n)
        /\ s # "infrastructure" => y \in D
    BY <1>1, <1>2 DEF ChargedIn
  <1> HIDE DEF y, A, C, D
  <1>7. Cardinality(D) = IF s = "infrastructure" THEN Cardinality(C) - 1
                                                 ELSE Cardinality(C)
    <2>1. Cardinality(C \ {x}) = Cardinality(C) - 1
      BY <1>4, FS_RemoveElement
    <2>2. y \notin C \ {x}
      BY <1>4
    <2>3. Cardinality((C \ {x}) \cup {y}) = Cardinality(C)
      BY <1>4, <2>2, SwapKeepsSize
    <2> QED
      BY <1>5, <2>1, <2>3
  <1>8. Cardinality(D) = IF s = "infrastructure" THEN delivery[x.d].count - 1
                                                 ELSE delivery[x.d].count
    BY <1>4, <1>7
  <1>9. s # "infrastructure" => \E a \in D : a.state = s
    BY <1>1, <1>6
  <1> QED
    BY <1>3, <1>6, <1>8, <1>9, Zenon DEF A, D

-----------------------------------------------------------------------------
(* Steps and the account *)

\* A is a history that charges the current cycle of d with k attempts, leaves the
\* other deliveries alone and invents no attempt.
Charges(A, d, k) ==
    /\ IsFiniteSet(A)
    /\ Cardinality(ChargedIn(A, d, delivery[d].cycle)) = k
    /\ \A e, n : e # d => ChargedIn(A, e, n) = ChargedIn(attempts, e, n)
    /\ \A b \in A : \E a \in attempts : /\ b.d = a.d /\ b.cycle = a.cycle
                                       /\ b.number = a.number /\ b.token = a.token
    /\ \A a, b \in A : a.d = b.d /\ a.cycle = b.cycle /\ a.number = b.number => a = b

\* A recorded cause for which cycle n of d may be given up.
Cause(A, d, n) == \E a \in ChargedIn(A, d, n) : a.state \in {"permanent", "contract"}

\* The history as it is charges what the row says.
LEMMA NothingEnds ==
  ASSUME AInv, NEW d \in Deliveries
  PROVE  Charges(attempts, d, delivery[d].count)
  BY ChargedIsIn DEF AInv, AllowanceAccounted, NumbersDistinct, Charges

\* Ending the running attempt charges the same, or one less after an outage.
LEMMA EndedCharges ==
  ASSUME IInv, AInv, NEW x \in attempts, x.state = "running",
         NEW s \in AttemptStates, s # "running"
  PROVE  Charges(Ended(attempts, x, s), x.d,
                 IF s = "infrastructure" THEN delivery[x.d].count - 1
                                         ELSE delivery[x.d].count)
  <1> DEFINE A == Ended(attempts, x, s)
             y == [x EXCEPT !.state = s]
  <1>1. x.cycle = delivery[x.d].cycle
    BY RunningIsCharged
  <1>2. /\ y.d = x.d /\ y.cycle = x.cycle /\ y.number = x.number /\ y.token = x.token
        /\ A = (attempts \ {x}) \cup {y}
    BY EndedFacts DEF Ended
  <1> HIDE DEF y, A
  <1>3. \A b \in A : \E a \in attempts : /\ b.d = a.d /\ b.cycle = a.cycle
                                        /\ b.number = a.number /\ b.token = a.token
    BY <1>2
  <1>4. \A a, b \in A : a.d = b.d /\ a.cycle = b.cycle /\ a.number = b.number => a = b
    BY <1>2 DEF AInv, NumbersDistinct
  <1>5. /\ IsFiniteSet(A)
        /\ Cardinality(ChargedIn(A, x.d, x.cycle)) =
             IF s = "infrastructure" THEN delivery[x.d].count - 1 ELSE delivery[x.d].count
        /\ \A e, n : e # x.d => ChargedIn(A, e, n) = ChargedIn(attempts, e, n)
    BY EndedAccount DEF A
  <1> QED
    BY <1>1, <1>3, <1>4, <1>5 DEF Charges, A

\* A step within a cycle that charges what the row then says.
LEMMA AccountStep ==
  ASSUME IInv, AInv, NEW d \in Deliveries,
         Charges(attempts', d, delivery'[d].count),
         \A e \in Deliveries : e # d => delivery'[e] = delivery[e],
         delivery'[d].cycle = delivery[d].cycle,
         delivery[d].status # "absent", delivery'[d].status # "absent",
         delivery'[d].count <= MaxAttempts,
         delivery'[d].status = "failed" =>
            delivery'[d].count = MaxAttempts \/ Cause(attempts', d, delivery[d].cycle)
  PROVE  AInv'
  <1>1. \A e : Charged(e)' = ChargedIn(attempts', e, delivery'[e].cycle)
    BY DEF Charged, ChargedIn
  <1>2. \A e \in Deliveries : e # d => Charged(e)' = Charged(e)
    BY <1>1, ChargedIsIn DEF Charges
  <1>3. Charged(d)' = ChargedIn(attempts', d, delivery[d].cycle)
    BY <1>1
  <1>4. AllowanceAccounted'
    BY <1>2, <1>3 DEF AllowanceAccounted, AInv, Charges
  <1>5. FailedForCause'
    BY <1>2, <1>3 DEF FailedForCause, AInv, Cause
  <1>6. CyclesReached'
    BY DEF CyclesReached, AInv, Charges, IInv, TypeOK, Attempt
  <1>7. NumbersDistinct' /\ IsFiniteSet(attempts)'
    BY DEF NumbersDistinct, Charges
  <1> QED
    BY <1>4, <1>5, <1>6, <1>7 DEF AInv

\* A row enters its first or its next cycle with an empty account.
LEMMA NewCycleStep ==
  ASSUME IInv, AInv, NEW d \in Deliveries, UNCHANGED attempts,
         \A e \in Deliveries : e # d => delivery'[e] = delivery[e],
         delivery'[d].count = 0, delivery'[d].status = "pending",
         delivery[d].cycle \in Nat, delivery'[d].cycle \in Nat,
         delivery[d].status = "absent" \/ delivery'[d].cycle = delivery[d].cycle + 1
  PROVE  AInv'
  <1>1. \A e : Charged(e)' = ChargedIn(attempts, e, delivery'[e].cycle)
    BY DEF Charged, ChargedIn
  <1>2. \A e \in Deliveries : e # d => Charged(e)' = Charged(e)
    BY <1>1, ChargedIsIn
  <1>3. Charged(d)' = {}
    BY <1>1 DEF ChargedIn, AInv, CyclesReached, IInv, TypeOK, Attempt
  <1>4. AllowanceAccounted'
    <2>1. Cardinality(Charged(d)') = 0
      BY <1>3, FS_EmptySet
    <2>2. 0 <= MaxAttempts
      BY MaxAttemptsAssumption
    <2> QED
      BY <1>2, <2>1, <2>2 DEF AllowanceAccounted, AInv
  <1>5. FailedForCause'
    BY <1>2 DEF FailedForCause, AInv
  <1>6. CyclesReached'
    BY DEF CyclesReached, AInv, IInv, TypeOK, Attempt
  <1>7. NumbersDistinct' /\ IsFiniteSet(attempts)'
    BY DEF NumbersDistinct, AInv
  <1> QED
    BY <1>4, <1>5, <1>6, <1>7 DEF AInv

\* A new attempt of the cycle, numbered and charged.
LEMMA NewAttemptAccount ==
  ASSUME IInv, AInv, NEW d \in Deliveries, NEW A, NEW a,
         Charges(A, d, delivery[d].count), attempts' = A \cup {a},
         a.d = d, a.cycle = delivery[d].cycle, a.token = lastToken + 1,
         a.state # "infrastructure", IsNextNumber(d, a.number),
         \A e \in Deliveries : e # d => delivery'[e] = delivery[e],
         delivery'[d].cycle = delivery[d].cycle,
         delivery'[d].count = delivery[d].count + 1,
         delivery[d].count < MaxAttempts,
         delivery[d].status # "absent", delivery'[d].status # "absent",
         delivery'[d].status = "failed" => a.state = "contract"
  PROVE  AInv'
  <1> DEFINE n == delivery[d].cycle
             C == ChargedIn(A, d, n)
  <1>1. a \notin A
    BY DEF Charges, IInv, TypeOK, TokensDrawn, Attempt
  <1>2. /\ \A e : Charged(e)' = ChargedIn(attempts', e, delivery'[e].cycle)
        /\ \A e \in Deliveries : e # d => Charged(e)' = Charged(e)
    <2>1. \A e : Charged(e)' = ChargedIn(attempts', e, delivery'[e].cycle)
      BY DEF Charged, ChargedIn
    <2>2. ASSUME NEW e \in Deliveries, e # d
          PROVE  Charged(e)' = Charged(e)
      <3> DEFINE m == delivery[e].cycle
      <3>1. ChargedIn(attempts', e, m) = ChargedIn(A, e, m)
        BY <2>2 DEF ChargedIn
      <3>2. ChargedIn(A, e, m) = ChargedIn(attempts, e, m)
        BY <2>2 DEF Charges
      <3> QED
        BY <2>1, <2>2, <3>1, <3>2, ChargedIsIn
    <2> QED
      BY <2>1, <2>2
  <1>3. Charged(d)' = C \cup {a}
    <2>1. Charged(d)' = ChargedIn(attempts', d, n)
      BY <1>2
    <2>2. ChargedIn(attempts', d, n) = C \cup {a}
      BY DEF ChargedIn
    <2> QED
      BY <2>1, <2>2
  <1>4. IsFiniteSet(C) /\ Cardinality(C) = delivery[d].count /\ a \notin C
    <2>1. IsFiniteSet(A) /\ Cardinality(C) = delivery[d].count
      BY DEF Charges
    <2>2. a \notin C
      BY <1>1 DEF ChargedIn
    <2> QED
      BY <2>1, <2>2, ChargedFinite
  <1> HIDE DEF C
  <1>5. Cardinality(Charged(d)') = delivery[d].count + 1
    BY <1>3, <1>4, FS_AddElement
  <1>6. AllowanceAccounted'
    BY <1>2, <1>5, MaxAttemptsAssumption DEF AllowanceAccounted, AInv, IInv, TypeOK, Row
  <1>7. FailedForCause'
    BY <1>2, <1>3 DEF FailedForCause, AInv
  <1>8. CyclesReached'
    BY DEF CyclesReached, AInv, Charges, IInv, TypeOK, Attempt, Row
  <1>9. NumbersDistinct'
    <2>1. \A b \in attempts : b.d = d /\ b.cycle = n => b.number < a.number
      BY DEF IsNextNumber
    <2>2. \A b \in A : b.d = d /\ b.cycle = n => b.number # a.number
      BY <2>1 DEF Charges, IInv, TypeOK, Attempt
    <2> QED
      BY <2>2 DEF NumbersDistinct, Charges
  <1>10. IsFiniteSet(attempts)'
    BY FS_AddElement DEF Charges
  <1> QED
    BY <1>6, <1>7, <1>8, <1>9, <1>10 DEF AInv

-----------------------------------------------------------------------------
(* The running attempt *)

\* Recovery and takeover end the one attempt that runs for a claimed delivery.
LEMMA InterruptedIs ==
  ASSUME IInv, NEW d \in Deliveries, delivery[d].status = "processing"
  PROVE  \E x \in attempts : /\ x.state = "running" /\ x.d = d
                             /\ AttemptsInterrupted(d) = Ended(attempts, x, "worker_interrupted")
  <1>1. PICK x \in attempts : x.d = d /\ x.state = "running"
    BY DEF IInv, RunningAttemptHoldsClaim
  <1>2. \A a \in attempts : a.d = d /\ a.state = "running" <=> a = x
    BY <1>1, RunningIsCharged
  <1>3. AttemptsInterrupted(d) = Ended(attempts, x, "worker_interrupted")
    BY <1>2 DEF AttemptsInterrupted, Ended
  <1> QED
    BY <1>1, <1>3

\* The attempt an owner finishes is the one that runs.
LEMMA FinishedIs ==
  ASSUME IInv, NEW c, c.d \in Deliveries, Owns(c), NEW s
  PROVE  \E x \in attempts : /\ x.state = "running" /\ x.d = c.d
                             /\ AttemptFinished(c, s) = Ended(attempts, x, s)
  <1>1. PICK x \in attempts : x.d = c.d /\ x.token = c.token /\ x.state = "running"
    BY DEF IInv, RunningAttemptHoldsClaim, Owns
  <1>2. \A a \in attempts : a.d = c.d /\ a.token = c.token <=> a = x
    BY <1>1, RunningIsCharged
  <1>3. AttemptFinished(c, s) = Ended(attempts, x, s)
    BY <1>2 DEF AttemptFinished, Ended
  <1> QED
    BY <1>1, <1>3

\* What _start and recover_expired leave of the attempts charges the same.
LEMMA TakeoverCharges ==
  ASSUME IInv, AInv, NEW d \in Deliveries
  PROVE  Charges(IF delivery[d].status = "processing" THEN AttemptsInterrupted(d)
                 ELSE attempts, d, delivery[d].count)
  <1>1. CASE delivery[d].status = "processing"
    <2>1. PICK x \in attempts :
             /\ x.state = "running" /\ x.d = d
             /\ AttemptsInterrupted(d) = Ended(attempts, x, "worker_interrupted")
      BY <1>1, InterruptedIs
    <2>2. "worker_interrupted" \in AttemptStates
      BY DEF AttemptStates
    <2>3. Charges(Ended(attempts, x, "worker_interrupted"), d, delivery[d].count)
      BY <2>1, <2>2, EndedCharges
    <2> QED
      BY <1>1, <2>1, <2>3
  <1>2. CASE delivery[d].status # "processing"
    BY <1>2, NothingEnds
  <1> QED
    BY <1>1, <1>2

\* What an owner leaves of the attempts: an outage is taken back, and any other
\* outcome stays charged and recorded.
LEMMA FinishedCharges ==
  ASSUME IInv, AInv, NEW c, c.d \in Deliveries, Owns(c),
         NEW s \in AttemptStates, s # "running"
  PROVE  /\ Charges(AttemptFinished(c, s), c.d,
                    IF s = "infrastructure" THEN delivery[c.d].count - 1
                                            ELSE delivery[c.d].count)
         /\ s # "infrastructure" =>
              \E a \in ChargedIn(AttemptFinished(c, s), c.d, delivery[c.d].cycle) :
                 a.state = s
  <1>1. PICK x \in attempts : /\ x.state = "running" /\ x.d = c.d
                              /\ AttemptFinished(c, s) = Ended(attempts, x, s)
    BY FinishedIs
  <1>2. x.cycle = delivery[c.d].cycle
    BY <1>1, RunningIsCharged
  <1> QED
    BY <1>1, <1>2, EndedCharges, EndedAccount

-----------------------------------------------------------------------------
(* AInv is inductive *)

\* A step that moves a queued or claimed row within its cycle, and no attempt.
LEMMA QuietAccount ==
  ASSUME IInv, AInv, NEW d \in Deliveries, UNCHANGED attempts,
         \A e \in Deliveries : e # d => delivery'[e] = delivery[e],
         delivery'[d].cycle = delivery[d].cycle,
         delivery'[d].count = delivery[d].count,
         delivery[d].status \in {"pending", "processing"},
         delivery'[d].status = delivery[d].status
  PROVE  AInv'
  <1>1. Charges(attempts', d, delivery'[d].count)
    BY NothingEnds
  <1>2. delivery'[d].count <= MaxAttempts
    BY DEF AInv, AllowanceAccounted
  <1> QED
    BY <1>1, <1>2, AccountStep

\* Steps that touch neither rows nor attempts.
LEMMA SameAccount == ASSUME AInv, UNCHANGED <<delivery, attempts>> PROVE AInv'
  BY DEF AInv, AllowanceAccounted, FailedForCause, Charged, CyclesReached, NumbersDistinct

\* An empty pipeline owes nothing.
LEMMA InitAInv == Init => AInv
  <1> SUFFICES ASSUME Init PROVE AInv
    OBVIOUS
  <1>1. \A d \in Deliveries : /\ delivery[d].count = 0
                              /\ delivery[d].status = "absent"
                              /\ Charged(d) = {}
    BY NewRowFacts DEF Init, Charged, Statuses
  <1>2. Cardinality({}) = 0 /\ IsFiniteSet(attempts) /\ 0 <= MaxAttempts
    BY FS_EmptySet, MaxAttemptsAssumption DEF Init
  <1> QED
    BY <1>1, <1>2 DEF AInv, AllowanceAccounted, FailedForCause, CyclesReached,
                      NumbersDistinct, Init

\* The allowance bounds attempt_count.
LEMMA CountBounded ==
  ASSUME IInv, AInv, NEW d \in Deliveries
  PROVE  delivery[d].count \in Nat /\ MaxAttempts \in Nat /\ delivery[d].count <= MaxAttempts
  <1>1. delivery[d].count \in Nat
    BY DEF IInv, TypeOK, Row
  <1>2. delivery[d].count <= MaxAttempts
    BY DEF AInv, AllowanceAccounted
  <1> QED
    BY <1>1, <1>2, MaxAttemptsAssumption

\* append_event's row starts with an empty account.
LEMMA AppendAInv == ASSUME IInv, AInv, NEW d \in Deliveries, Append(d) PROVE AInv'
  <1> DEFINE r == NewRow("pending", 0)
  <1>1. r.status = "pending" /\ r.count = 0 /\ r.cycle = 0
    BY NewRowFacts DEF Statuses
  <1>2. /\ delivery' = [delivery EXCEPT ![d] = r] /\ UNCHANGED attempts
        /\ delivery[d].status = "absent" /\ delivery[d].cycle \in Nat
    BY DEF Append, IInv, TypeOK, Row
  <1> HIDE DEF r
  <1> QED
    BY <1>1, <1>2, NewCycleStep DEF IInv, TypeOK

\* A replay opens the next cycle, and no attempt belongs to it yet.
LEMMA ReplayAInv == ASSUME IInv, AInv, NEW d \in Deliveries, Replay(d) PROVE AInv'
  <1> DEFINE n == delivery[d].cycle + 1
             r == NewRow("pending", n)
  <1>1. n \in Nat /\ n = delivery[d].cycle + 1 /\ delivery[d].cycle \in Nat
    BY DEF IInv, TypeOK, Row
  <1>2. delivery' = [delivery EXCEPT ![d] = r] /\ UNCHANGED attempts
    BY DEF Replay
  <1> HIDE DEF n
  <1>3. r.status = "pending" /\ r.count = 0 /\ r.cycle = n
    BY <1>1, NewRowFacts DEF Statuses
  <1> HIDE DEF r
  <1> QED
    BY <1>1, <1>2, <1>3, NewCycleStep DEF IInv, TypeOK

\* What the relay and the clock do to a row moves no attempt.
LEMMA RelayAInv ==
  ASSUME IInv, AInv, NEW w, NEW d \in Deliveries,
         \/ ClaimDueDelivery(w, d)
         \/ ResetObservation(d)
         \/ LeaseExpires(d) \/ BackoffElapses(d) \/ PublicationStalls(d)
  PROVE  AInv'
  <1>1. /\ delivery[d] \in Row /\ FreshToken \in Nat /\ UNCHANGED attempts
        /\ delivery[d].status \in {"pending", "processing"}
    BY DEF IInv, TypeOK, FinishedUnclaimed, FreshToken, Row, Statuses, ClaimDueDelivery,
           Claimable, ResetObservation, LeaseExpires, BackoffElapses, PublicationStalls
  <1>2. ASSUME NEW r, delivery' = [delivery EXCEPT ![d] = r],
               r.status = delivery[d].status, r.cycle = delivery[d].cycle,
               r.count = delivery[d].count
        PROVE  AInv'
    BY <1>1, <1>2, QuietAccount DEF IInv, TypeOK
  <1>3. CASE ClaimDueDelivery(w, d)
    BY <1>1, <1>2, <1>3, SetClaimFacts DEF ClaimDueDelivery
  <1>4. CASE ResetObservation(d)
    <2> DEFINE p == [delivery[d] EXCEPT !.pub = "none"]
    <2>1. /\ p \in Row /\ p.status = delivery[d].status /\ p.cycle = delivery[d].cycle
          /\ p.count = delivery[d].count
      BY <1>1 DEF Row
    <2>2. delivery' = [delivery EXCEPT ![d] = ClearClaim(p)]
      BY <1>4 DEF ResetObservation
    <2> HIDE DEF p
    <2> QED BY <1>2, <2>1, <2>2, ClearClaimFacts
  <1>5. CASE LeaseExpires(d)
    <2> DEFINE r == [delivery[d] EXCEPT !.expired = TRUE]
    <2>1. /\ r.status = delivery[d].status /\ r.cycle = delivery[d].cycle
          /\ r.count = delivery[d].count
      BY <1>1 DEF Row
    <2> QED BY <1>2, <1>5, <2>1 DEF LeaseExpires
  <1>6. CASE BackoffElapses(d)
    <2> DEFINE r == [delivery[d] EXCEPT !.due = TRUE]
    <2>1. /\ r.status = delivery[d].status /\ r.cycle = delivery[d].cycle
          /\ r.count = delivery[d].count
      BY <1>1 DEF Row
    <2> QED BY <1>2, <1>6, <2>1 DEF BackoffElapses
  <1>7. CASE PublicationStalls(d)
    <2> DEFINE r == [delivery[d] EXCEPT !.pub = "stale"]
    <2>1. /\ r.status = delivery[d].status /\ r.cycle = delivery[d].cycle
          /\ r.count = delivery[d].count
      BY <1>1 DEF Row
    <2> QED BY <1>2, <1>7, <2>1 DEF PublicationStalls
  <1> QED
    BY <1>3, <1>4, <1>5, <1>6, <1>7

\* An observation clears a relay claim, or finds the row claimed by another.
LEMMA ObservePublicationAInv ==
  ASSUME IInv, AInv, NEW w \in Workers, NEW c \in relay[w], ObservePublication(w, c)
  PROVE  AInv'
  <1> DEFINE p == [delivery[c.d] EXCEPT !.pub = "fresh"]
  <1>1. c.d \in Deliveries /\ delivery[c.d] \in Row
    BY DEF IInv, TypeOK, Claim
  <1>2. /\ p \in Row /\ p.status = delivery[c.d].status
        /\ p.cycle = delivery[c.d].cycle /\ p.count = delivery[c.d].count
    BY <1>1 DEF Row
  <1>3. /\ UNCHANGED attempts
        /\ \/ UNCHANGED delivery
           \/ /\ delivery[c.d].status = "pending"
              /\ delivery' = [delivery EXCEPT ![c.d] = ClearClaim(p)]
    BY DEF ObservePublication
  <1> HIDE DEF p
  <1>4. CASE UNCHANGED delivery
    BY <1>3, <1>4, SameAccount
  <1>5. CASE /\ delivery[c.d].status = "pending"
             /\ delivery' = [delivery EXCEPT ![c.d] = ClearClaim(p)]
    BY <1>1, <1>2, <1>3, <1>5, ClearClaimFacts, QuietAccount DEF IInv, TypeOK
  <1> QED
    BY <1>3, <1>4, <1>5

\* _start gives up a delivery whose allowance is spent, and for no other reason.
LEMMA StartExhaustedAInv ==
  ASSUME IInv, AInv, NEW w \in Workers, NEW d \in Deliveries, StartExhausted(w, d)
  PROVE  AInv'
  <1> DEFINE p == [delivery[d] EXCEPT !.status = "failed"]
             r == ClearClaim(p)
  <1>1. /\ delivery' = [delivery EXCEPT ![d] = r]
        /\ delivery[d].status # "absent" /\ delivery[d].count >= MaxAttempts
        /\ Charges(attempts', d, delivery[d].count)
    BY TakeoverCharges DEF StartExhausted, Startable
  <1>2. /\ p \in Row /\ p.status = "failed" /\ p.cycle = delivery[d].cycle
        /\ p.count = delivery[d].count
    BY DEF IInv, TypeOK, Row, Statuses
  <1> HIDE DEF p
  <1>3. /\ r.status = "failed" /\ r.cycle = delivery[d].cycle
        /\ r.count = delivery[d].count
    BY <1>2, ClearClaimFacts
  <1> HIDE DEF r
  <1>4. delivery[d].count = MaxAttempts
    BY <1>1, CountBounded
  <1>5. \A e \in Deliveries : /\ e # d => delivery'[e] = delivery[e]
                              /\ delivery'[d] = r
    BY <1>1 DEF IInv, TypeOK
  <1>6. delivery'[d].count <= MaxAttempts
    BY <1>3, <1>4, <1>5, MaxAttemptsAssumption
  <1> QED
    BY <1>1, <1>3, <1>4, <1>5, <1>6, AccountStep

\* recover_expired fails a delivery only when its allowance is spent.
LEMMA RecoverExpiredAInv ==
  ASSUME IInv, AInv, NEW d \in Deliveries, RecoverExpired(d) PROVE AInv'
  <1> DEFINE s == IF delivery[d].count >= MaxAttempts THEN "failed" ELSE "pending"
             p == [delivery[d] EXCEPT !.status = s, !.due = TRUE, !.pub = "none"]
             r == ClearClaim(p)
  <1>1. /\ s \in Statuses /\ s # "absent"
        /\ s = "failed" => delivery[d].count >= MaxAttempts
    BY DEF Statuses
  <1>2. /\ delivery' = [delivery EXCEPT ![d] = r]
        /\ delivery[d].status # "absent"
        /\ Charges(attempts', d, delivery[d].count)
    BY TakeoverCharges DEF RecoverExpired
  <1> HIDE DEF s
  <1>3. /\ p \in Row /\ p.status = s /\ p.cycle = delivery[d].cycle
        /\ p.count = delivery[d].count
    BY <1>1, ZenonT(40) DEF Row, IInv, TypeOK
  <1> HIDE DEF p
  <1>4. r.status = s /\ r.cycle = delivery[d].cycle /\ r.count = delivery[d].count
    BY <1>3, ClearClaimFacts
  <1> HIDE DEF r
  <1>5. /\ delivery[d].count <= MaxAttempts
        /\ s = "failed" => delivery[d].count = MaxAttempts
    BY <1>1, CountBounded
  <1>6. \A e \in Deliveries : /\ e # d => delivery'[e] = delivery[e]
                              /\ delivery'[d] = r
    BY <1>2 DEF IInv, TypeOK
  <1> QED
    BY <1>1, <1>2, <1>4, <1>5, <1>6, AccountStep

\* A contract rejection is an attempt of its own, charged, and the cause.
LEMMA RejectContractAInv ==
  ASSUME IInv, AInv, NEW w \in Workers, NEW d \in Deliveries, RejectContract(w, d)
  PROVE  AInv'
  <1> DEFINE n == delivery[d].count + 1
             p == [delivery[d] EXCEPT !.status = "failed", !.count = n]
             r == ClearClaim(p)
             A == IF delivery[d].status = "processing"
                  THEN AttemptsInterrupted(d) ELSE attempts
  <1>1. PICK number \in 1..MaxTokens :
          /\ IsNextNumber(d, number)
          /\ attempts' = A \cup {[d |-> d, token |-> FreshToken,
                                  cycle |-> delivery[d].cycle,
                                  number |-> number, state |-> "contract"]}
    BY DEF RejectContract
  <1> DEFINE a == [d |-> d, token |-> FreshToken, cycle |-> delivery[d].cycle,
                   number |-> number, state |-> "contract"]
  <1>2. /\ attempts' = A \cup {a} /\ a.d = d /\ a.cycle = delivery[d].cycle
        /\ a.token = lastToken + 1 /\ a.state = "contract"
        /\ IsNextNumber(d, a.number)
    BY <1>1 DEF FreshToken
  <1>3. /\ delivery' = [delivery EXCEPT ![d] = r]
        /\ delivery[d].status # "absent" /\ delivery[d].count < MaxAttempts
    BY DEF RejectContract, Startable
  <1>4. Charges(A, d, delivery[d].count)
    BY TakeoverCharges
  <1>5. n \in Nat /\ n = delivery[d].count + 1 /\ delivery[d] \in Row
    BY DEF IInv, TypeOK, Row
  <1> HIDE DEF A, a, n
  <1>6. p \in Row /\ p.status = "failed" /\ p.cycle = delivery[d].cycle /\ p.count = n
    BY <1>5, Zenon DEF Row, Statuses
  <1> HIDE DEF p
  <1>7. r.status = "failed" /\ r.cycle = delivery[d].cycle /\ r.count = n
    BY <1>6, ClearClaimFacts
  <1> HIDE DEF r
  <1>8. \A e \in Deliveries : /\ e # d => delivery'[e] = delivery[e]
                              /\ delivery'[d] = r
    BY <1>3 DEF IInv, TypeOK
  <1>9. /\ a.state # "infrastructure"
        /\ \A e \in Deliveries : e # d => delivery'[e] = delivery[e]
        /\ delivery'[d].cycle = delivery[d].cycle
        /\ delivery'[d].count = delivery[d].count + 1
        /\ delivery'[d].status # "absent"
        /\ delivery'[d].status = "failed" => a.state = "contract"
    BY <1>2, <1>5, <1>7, <1>8
  <1> QED
    BY <1>2, <1>3, <1>4, <1>9, NewAttemptAccount

\* An attempt is charged when it starts.
LEMMA StartAttemptAInv ==
  ASSUME IInv, AInv, NEW w \in Workers, NEW d \in Deliveries, StartAttempt(w, d)
  PROVE  AInv'
  <1> DEFINE n == delivery[d].count + 1
             p == [delivery[d] EXCEPT !.status = "processing", !.count = n]
             r == SetClaim(p, FreshToken)
             A == IF delivery[d].status = "processing"
                  THEN AttemptsInterrupted(d) ELSE attempts
  <1>1. PICK number \in 1..MaxTokens :
          /\ IsNextNumber(d, number)
          /\ attempts' = A \cup {[d |-> d, token |-> FreshToken,
                                  cycle |-> delivery[d].cycle,
                                  number |-> number, state |-> "running"]}
    BY DEF StartAttempt
  <1> DEFINE a == [d |-> d, token |-> FreshToken, cycle |-> delivery[d].cycle,
                   number |-> number, state |-> "running"]
  <1>2. /\ attempts' = A \cup {a} /\ a.d = d /\ a.cycle = delivery[d].cycle
        /\ a.token = lastToken + 1 /\ a.state = "running"
        /\ IsNextNumber(d, a.number)
    BY <1>1 DEF FreshToken
  <1>3. /\ delivery' = [delivery EXCEPT ![d] = r]
        /\ delivery[d].status # "absent" /\ delivery[d].count < MaxAttempts
    BY DEF StartAttempt, Startable
  <1>4. Charges(A, d, delivery[d].count)
    BY TakeoverCharges
  <1>5. /\ n \in Nat /\ n = delivery[d].count + 1 /\ delivery[d] \in Row
        /\ FreshToken \in Nat
    BY DEF IInv, TypeOK, Row, FreshToken
  <1> HIDE DEF A, a, n
  <1>6. /\ p \in Row /\ p.status = "processing" /\ p.cycle = delivery[d].cycle
        /\ p.count = n
    BY <1>5, Zenon DEF Row, Statuses
  <1> HIDE DEF p
  <1>7. r.status = "processing" /\ r.cycle = delivery[d].cycle /\ r.count = n
    BY <1>5, <1>6, SetClaimFacts
  <1> HIDE DEF r
  <1>8. \A e \in Deliveries : /\ e # d => delivery'[e] = delivery[e]
                              /\ delivery'[d] = r
    BY <1>3 DEF IInv, TypeOK
  <1>9. /\ a.state # "infrastructure"
        /\ \A e \in Deliveries : e # d => delivery'[e] = delivery[e]
        /\ delivery'[d].cycle = delivery[d].cycle
        /\ delivery'[d].count = delivery[d].count + 1
        /\ delivery'[d].status # "absent"
        /\ delivery'[d].status = "failed" => a.state = "contract"
    BY <1>2, <1>5, <1>7, <1>8
  <1> QED
    BY <1>2, <1>3, <1>4, <1>9, NewAttemptAccount

\* _finish_failure charges what it records, takes an outage back, and gives a
\* delivery up for a permanent failure or a spent allowance.
LEMMA FinishFailureAInv ==
  ASSUME IInv, AInv, NEW w \in Workers, NEW u \in unsettled[w], FinishFailure(w, u)
  PROVE  AInv'
  <1>1. CASE ~Owns(u)
    BY <1>1, SameAccount DEF FinishFailure
  <1>2. CASE Owns(u)
    <2> DEFINE n == IF u.failure = "infrastructure" THEN delivery[u.d].count - 1
                    ELSE delivery[u.d].count
               s == IF u.failure = "permanent"
                       \/ (u.failure # "infrastructure" /\ n >= MaxAttempts)
                    THEN "failed" ELSE "pending"
               p == [delivery[u.d] EXCEPT !.status = s, !.count = n, !.due = FALSE,
                                          !.pub = "none"]
               r == ClearClaim(p)
    <2>1. /\ u.d \in Deliveries /\ delivery[u.d] \in Row
          /\ u.failure \in AttemptStates /\ u.failure # "running"
      BY DEF IInv, TypeOK, UnsettledClaim, Failures, AttemptStates
    <2>2. n \in Nat /\ n <= MaxAttempts
      BY <1>2, <2>1, CountBounded DEF IInv, ProcessingCharged, Owns
    <2>3. /\ s \in Statuses /\ s # "absent"
          /\ s = "failed" =>
               \/ u.failure = "permanent"
               \/ u.failure # "infrastructure" /\ n = MaxAttempts
      BY <2>2, CountBounded, <2>1 DEF Statuses
    <2>4. /\ delivery' = [delivery EXCEPT ![u.d] = r]
          /\ attempts' = AttemptFinished(u, u.failure)
          /\ delivery[u.d].status # "absent"
      BY <1>2 DEF FinishFailure, RowAfterFailure, Owns
    <2>5. /\ Charges(attempts', u.d, n)
          /\ u.failure # "infrastructure" =>
               \E a \in ChargedIn(attempts', u.d, delivery[u.d].cycle) :
                  a.state = u.failure
      BY <1>2, <2>1, <2>4, FinishedCharges
    <2> HIDE DEF n, s
    <2>6. p \in Row /\ p.status = s /\ p.count = n /\ p.cycle = delivery[u.d].cycle
      BY <2>1, <2>2, <2>3, Zenon DEF Row
    <2> HIDE DEF p
    <2>7. r.status = s /\ r.count = n /\ r.cycle = delivery[u.d].cycle
      BY <2>6, ClearClaimFacts
    <2> HIDE DEF r
    <2>8. /\ \A e \in Deliveries : e # u.d => delivery'[e] = delivery[e]
          /\ delivery'[u.d] = r
      BY <2>1, <2>4 DEF IInv, TypeOK
    <2>9. delivery'[u.d].status = "failed" =>
            delivery'[u.d].count = MaxAttempts \/ Cause(attempts', u.d, delivery[u.d].cycle)
      BY <2>3, <2>5, <2>7, <2>8 DEF Cause
    <2> QED
      BY <2>1, <2>2, <2>3, <2>4, <2>5, <2>7, <2>8, <2>9, AccountStep
  <1> QED
    BY <1>1, <1>2

\* A committed effect ends its attempt and keeps it charged.
LEMMA EffectCommitAInv ==
  ASSUME IInv, AInv, NEW w \in Workers, NEW c \in claims[w], EffectCommit(w, c)
  PROVE  AInv'
  <1> DEFINE p == [delivery[c.d] EXCEPT !.status = "succeeded"]
             r == ClearClaim(p)
  <1>1. c.d \in Deliveries /\ delivery[c.d] \in Row /\ Owns(c)
    BY DEF IInv, TypeOK, Claim, LockHolder, EffectCommit
  <1>2. PICK s \in {"skipped", "succeeded"} : attempts' = AttemptFinished(c, s)
    BY DEF EffectCommit, Outcomes
  <1>3. s \in AttemptStates /\ s # "running" /\ s # "infrastructure"
    BY DEF AttemptStates
  <1>4. Charges(attempts', c.d, delivery[c.d].count)
    BY <1>1, <1>2, <1>3, FinishedCharges
  <1>5. /\ p \in Row /\ p.status = "succeeded" /\ p.count = delivery[c.d].count
        /\ p.cycle = delivery[c.d].cycle
    BY <1>1 DEF Row, Statuses
  <1>6. delivery' = [delivery EXCEPT ![c.d] = r]
    BY DEF EffectCommit
  <1> HIDE DEF p
  <1>7. /\ r.status = "succeeded" /\ r.count = delivery[c.d].count
        /\ r.cycle = delivery[c.d].cycle
    BY <1>5, ClearClaimFacts
  <1> HIDE DEF r
  <1>8. /\ \A e \in Deliveries : e # c.d => delivery'[e] = delivery[e]
        /\ delivery'[c.d] = r
    BY <1>1, <1>6 DEF IInv, TypeOK
  <1>9. delivery[c.d].status # "absent" /\ delivery'[c.d].count <= MaxAttempts
    BY <1>1, <1>7, <1>8, CountBounded DEF Owns
  <1> QED
    BY <1>1, <1>4, <1>7, <1>8, <1>9, AccountStep

\* Every step of the pipeline keeps the account.
LEMMA NextAInv == ASSUME IInv, AInv, [Next]_vars PROVE AInv'
  <1>1. CASE UNCHANGED vars
    BY <1>1, SameAccount DEF vars
  <1>2. ASSUME NEW w \in Workers, RelayStep(w) PROVE AInv'
    <2>1. ASSUME NEW c \in relay[w], AbandonPublication(w, c) PROVE AInv'
      BY <2>1, SameAccount DEF AbandonPublication
    <2> QED
      BY <1>2, <2>1, RelayAInv, ObservePublicationAInv DEF RelayStep
  <1>3. ASSUME NEW w \in Workers, ConsumerStep(w) PROVE AInv'
    <2>1. ASSUME NEW c \in claims[w], EffectBegin(w, c) \/ EffectFail(w, c) PROVE AInv'
      BY <2>1, SameAccount DEF EffectBegin, EffectFail
    <2> QED
      BY <1>3, <2>1, StartExhaustedAInv, RejectContractAInv, StartAttemptAInv,
         EffectCommitAInv, FinishFailureAInv DEF ConsumerStep
  <1>4. ASSUME NEW w \in Workers, Crash(w) PROVE AInv'
    BY <1>4, SameAccount DEF Crash
  <1>5. ASSUME NEW d \in Deliveries, RowStep(d) PROVE AInv'
    <2>1. ASSUME LeaseExpires(d) \/ BackoffElapses(d) \/ PublicationStalls(d)
                 \/ ResetObservation(d)
          PROVE  AInv'
      BY <2>1, RelayAInv
    <2> QED
      BY <1>5, <2>1, AppendAInv, RecoverExpiredAInv, ReplayAInv DEF RowStep
  <1> QED
    BY <1>1, <1>2, <1>3, <1>4, <1>5 DEF Next

-----------------------------------------------------------------------------
(* One failure at a time *)

\* A loop takes a claim only when it has neither claim nor failure, and a failure
\* takes its claim's place.
LEMMA NextOneTask == ASSUME IInv, OneTask, [Next]_vars PROVE OneTask'
  <1> USE DEF IInv, TypeOK, OneTask
  <1>1. CASE UNCHANGED <<claims, unsettled>>
    BY <1>1
  <1>2. ASSUME NEW w \in Workers, RelayStep(w) PROVE OneTask'
    BY <1>1, <1>2 DEF RelayStep, ClaimDueDelivery, ObservePublication, AbandonPublication
  <1>3. ASSUME NEW w \in Workers, NEW d \in Deliveries, StartAttempt(w, d) PROVE OneTask'
    BY <1>3 DEF StartAttempt, Startable
  <1>4. ASSUME NEW w \in Workers, NEW d \in Deliveries,
               StartExhausted(w, d) \/ RejectContract(w, d)
        PROVE  OneTask'
    BY <1>1, <1>4 DEF StartExhausted, RejectContract
  <1>5. ASSUME NEW w \in Workers, NEW c \in claims[w], EffectBegin(w, c) PROVE OneTask'
    BY <1>5 DEF EffectBegin
  <1>6. ASSUME NEW w \in Workers, NEW c \in claims[w],
               EffectCommit(w, c) \/ EffectFail(w, c)
        PROVE  OneTask'
    <2>1. claims' = [claims EXCEPT ![w] = @ \ {c}]
      BY <1>6 DEF EffectCommit, EffectFail
    <2>2. claims'[w] = {}
      BY <2>1 DEF OneClaimPerLoop
    <2>3. \E u : unsettled' = [unsettled EXCEPT ![w] = @ \cup {u}] \/ UNCHANGED unsettled
      BY <1>6 DEF EffectCommit, EffectFail
    <2> QED
      BY <2>1, <2>2, <2>3
  <1>7. ASSUME NEW w \in Workers, NEW u \in unsettled[w], FinishFailure(w, u)
        PROVE  OneTask'
    BY <1>7 DEF FinishFailure
  <1>8. ASSUME NEW w \in Workers, Crash(w) PROVE OneTask'
    BY <1>8 DEF Crash
  <1>9. ASSUME NEW d \in Deliveries, RowStep(d) PROVE OneTask'
    BY <1>1, <1>9 DEF RowStep, Append, ResetObservation, RecoverExpired, Replay,
                      LeaseExpires, BackoffElapses, PublicationStalls
  <1> QED
    BY <1>1, <1>2, <1>3, <1>4, <1>5, <1>6, <1>7, <1>8, <1>9 DEF Next, ConsumerStep, vars

\* At most one claim or failure is what OneUnsettledPerLoop counts.
LEMMA OneTaskCounts == ASSUME IInv, OneTask PROVE OneUnsettledPerLoop
  <1> SUFFICES ASSUME NEW w \in Workers
               PROVE  Cardinality(claims[w]) + Cardinality(unsettled[w]) <= 1
    BY DEF OneUnsettledPerLoop
  <1>1. ASSUME NEW S, \A x, y \in S : x = y
        PROVE  Cardinality(S) \in 0..1 /\ (S = {} => Cardinality(S) = 0)
    <2>1. CASE S = {}
      BY <2>1, FS_EmptySet
    <2>2. ASSUME NEW x \in S PROVE S = {x}
      BY <1>1, <2>2
    <2> QED
      BY <2>1, <2>2, FS_EmptySet, FS_Singleton
  <1>2. /\ Cardinality(claims[w]) \in 0..1
        /\ claims[w] = {} => Cardinality(claims[w]) = 0
    BY <1>1 DEF IInv, OneClaimPerLoop
  <1>3. /\ Cardinality(unsettled[w]) \in 0..1
        /\ unsettled[w] = {} => Cardinality(unsettled[w]) = 0
    BY <1>1 DEF OneTask
  <1> QED
    BY <1>2, <1>3 DEF OneTask

-----------------------------------------------------------------------------
(* Leases *)

\* No row gets a lease without a token.
LEMMA NextLeased == ASSUME IInv, IInv', Leased, [Next]_vars PROVE Leased'
  <1>1. \A d \in Deliveries : /\ delivery[d] \in Row /\ delivery'[d] \in Row
                              /\ delivery[d].expired => delivery[d].token # NoToken
    BY DEF IInv, TypeOK, Leased, DeliveryRow
  <1>2. ASSUME NEW d \in Deliveries, NEW r, delivery' = [delivery EXCEPT ![d] = r],
               delivery'[d].expired => delivery'[d].token # NoToken
        PROVE  Leased'
    <2>1. \A e \in Deliveries : delivery'[e].expired => delivery'[e].token # NoToken
      BY <1>1, <1>2 DEF IInv, TypeOK
    <2> QED
      BY <1>1, <2>1 DEF Leased, DeliveryRow, Row
  <1>3. CASE UNCHANGED delivery
    BY <1>3 DEF Leased
  <1>4. ASSUME NEW d \in Deliveries, NEW p,
               \/ delivery' = [delivery EXCEPT ![d] = ClearClaim(p)]
               \/ delivery' = [delivery EXCEPT ![d] = SetClaim(p, FreshToken)]
        PROVE  Leased'
    <2>1. delivery'[d].expired # TRUE
      <3>1. delivery'[d] \in {ClearClaim(p), SetClaim(p, FreshToken)}
        BY <1>4 DEF IInv, TypeOK
      <3>2. "expired" \in DOMAIN delivery'[d]
        BY <1>1 DEF Row
      <3> QED
        BY <3>1, <3>2 DEF ClearClaim, SetClaim
    <2> QED
      BY <1>2, <1>4, <2>1
  <1>5. ASSUME NEW w \in Workers, RelayStep(w) PROVE Leased'
    <2>1. ASSUME NEW d \in Deliveries, ClaimDueDelivery(w, d) PROVE Leased'
      BY <1>4, <2>1 DEF ClaimDueDelivery
    <2>2. ASSUME NEW c \in relay[w], ObservePublication(w, c) PROVE Leased'
      <3>1. c.d \in Deliveries
        BY DEF IInv, TypeOK, Claim
      <3>2. \/ UNCHANGED delivery
            \/ delivery' = [delivery EXCEPT ![c.d] =
                              ClearClaim([delivery[c.d] EXCEPT !.pub = "fresh"])]
        BY <2>2 DEF ObservePublication
      <3> QED
        BY <1>3, <1>4, <3>1, <3>2
    <2>3. ASSUME NEW c \in relay[w], AbandonPublication(w, c) PROVE Leased'
      BY <1>3, <2>3 DEF AbandonPublication
    <2> QED
      BY <1>5, <2>1, <2>2, <2>3 DEF RelayStep
  <1>6. ASSUME NEW w \in Workers, ConsumerStep(w) PROVE Leased'
    <2>1. /\ \A c \in claims[w] : c.d \in Deliveries
          /\ \A u \in unsettled[w] : u.d \in Deliveries
      BY DEF IInv, TypeOK, Claim, UnsettledClaim
    <2> QED
      BY ZenonT(40), <1>3, <1>4, <1>6, <2>1
      DEF ConsumerStep, StartExhausted, RejectContract, StartAttempt, EffectBegin,
          EffectCommit, EffectFail, FinishFailure, RowAfterFailure
  <1>7. ASSUME NEW w \in Workers, Crash(w) PROVE Leased'
    BY <1>3, <1>7 DEF Crash
  <1>8. ASSUME NEW d \in Deliveries, Append(d) \/ Replay(d) \/ LeaseExpires(d)
                                     \/ BackoffElapses(d) \/ PublicationStalls(d)
        PROVE  Leased'
    <2>1. ASSUME NEW r, delivery' = [delivery EXCEPT ![d] = r],
                 r.expired => r.token # NoToken
          PROVE  Leased'
      BY <1>2, <2>1 DEF IInv, TypeOK
    <2>2. CASE LeaseExpires(d) \/ BackoffElapses(d) \/ PublicationStalls(d)
      BY <1>1, <2>1, <2>2
      DEF LeaseExpires, BackoffElapses, PublicationStalls, Row
    <2>3. CASE Append(d) \/ Replay(d)
      BY <2>1, <2>3 DEF Append, Replay, NewRow
    <2> QED
      BY <1>8, <2>2, <2>3
  <1>9. ASSUME NEW d \in Deliveries, RowStep(d) PROVE Leased'
    BY <1>4, <1>8, <1>9 DEF RowStep, ResetObservation, RecoverExpired
  <1> QED
    BY <1>3, <1>5, <1>6, <1>7, <1>9 DEF Next, vars

-----------------------------------------------------------------------------
(* Theorem *)

\* attempt_count is the number of charged attempts of the cycle and stays within
\* the allowance, an outage is taken back and never fails a delivery, no number
\* or lease breaks the schema, and a loop settles a failure before anything else
\* (_start, _finish_failure, recover_expired, settle_failures).
THEOREM FailuresAreAccounted == Spec => []FailuresAccounted
  <1>1. Init => AInv /\ OneTask /\ Leased
    BY InitAInv, NewRowFacts DEF Init, OneTask, Leased, DeliveryRow, NewRow, Statuses
  <1>2. /\ IInv /\ IInv' /\ AInv /\ OneTask /\ Leased /\ [Next]_vars
        => AInv' /\ OneTask' /\ Leased'
    BY NextAInv, NextOneTask, NextLeased
  <1>3. IInv /\ AInv /\ OneTask /\ Leased => FailuresAccounted
    BY OneTaskCounts
    DEF AInv, NumbersDistinct, Leased, ConstraintsKept, FailuresAccounted
  <1> QED
    BY Invariance, <1>1, <1>2, <1>3, PTL DEF Spec

=============================================================================
