--------------------------- MODULE OperationsProofs ---------------------------
(***************************************************************************)
(* Theorems about running the system: the API process over its connection  *)
(* pool (ApiProcess, DatabasePool), the rehearsal of a release through     *)
(* scripts/local-gateway.py (LocalGateway), and the chain of migrations    *)
(* with its downgrades (Migrations).                                       *)
(***************************************************************************)
EXTENDS ApiProcess, LocalGateway, Migrations, SequenceTheorems, FiniteSetTheorems,
        NaturalsInduction, WellFoundedInduction, TLAPS

(***************************************************************************)
(* The API process.  For every pool, every set of requests and every set   *)
(* of readiness checks: a deadline never takes a connection from a         *)
(* request, and a failed transaction is recorded once (DatabasePool).  The *)
(* middleware, the lifespans and the pipeline only restrict when a request *)
(* or a readiness check moves and record what it does; so the process      *)
(* implements DatabasePool, and what is proved of the pool holds under     *)
(* every lifespan and every request (ApiProcess).  And the lifespans share *)
(* one telemetry pipeline: the inductive invariant says which resources    *)
(* still run and who will stop them, counts the owners and the             *)
(* observations, and lists the adapters in the order of their entry.       *)
(***************************************************************************)
-----------------------------------------------------------------------------
(* The pool *)

(* The connection a task holds is the one Of() chooses. *)
LEMMA OfHolder ==
    ASSUME NEW t \in Tasks, \E s \in Slots : slot[s].holder = t
    PROVE  Of(t) \in Slots /\ slot[Of(t)].holder = t
BY DEF Of

(* A connection that was just made is free and works. *)
LEMMA FreshConnection ==
    /\ Fresh \in Connection /\ Fresh.holder = None
    /\ Fresh.alive /\ ~Fresh.tx
BY DEF Fresh, Connection

(* The event begin: the transaction starts with the sentinel reset. *)
LEMMA BeginEvent ==
    ASSUME NEW c \in Connection
    PROVE  /\ Begin(c) \in Connection
           /\ Begin(c).holder = c.holder /\ Begin(c).alive = c.alive
           /\ Begin(c).info = FALSE /\ Begin(c).failed = FALSE /\ Begin(c).counted = 0
<1> DEFINE c1 == [c EXCEPT !.tx = TRUE]
           c2 == [c1 EXCEPT !.info = FALSE]
           c3 == [c2 EXCEPT !.failed = FALSE]
           c4 == [c3 EXCEPT !.counted = 0]
<1>1. c1 \in Connection
  BY DEF Connection
<1> HIDE DEF c1
<1>2. c2 \in Connection
  BY <1>1 DEF Connection
<1> HIDE DEF c2
<1>3. c3 \in Connection
  BY <1>2 DEF Connection
<1> HIDE DEF c3
<1>4. c4 \in Connection
  BY <1>3 DEF Connection
<1>5. Begin(c) = c4
  BY DEF c1, c2, c3, c4, Begin
<1>6. /\ Begin(c).holder = c.holder /\ Begin(c).alive = c.alive
      /\ Begin(c).info = FALSE /\ Begin(c).failed = FALSE /\ Begin(c).counted = 0
  BY DEF Begin, Connection
<1> QED
  BY <1>4, <1>5, <1>6

(* handle_error: the first failure is counted, and the sentinel is set. *)
LEMMA FailureEvent ==
    ASSUME NEW c \in Connection
    PROVE  /\ Failure(c) \in Connection
           /\ Failure(c).holder = c.holder /\ Failure(c).alive = c.alive
           /\ Failure(c).tx = c.tx
           /\ Failure(c).info = TRUE /\ Failure(c).failed = TRUE
           /\ Failure(c).counted = IF c.info THEN c.counted ELSE c.counted + 1
<1> DEFINE n == IF c.info THEN c.counted ELSE c.counted + 1
           c1 == [c EXCEPT !.failed = TRUE]
           c2 == [c1 EXCEPT !.info = TRUE]
           c3 == [c2 EXCEPT !.counted = n]
<1>0. n \in Int
  BY DEF Connection
<1>1. c1 \in Connection
  BY DEF Connection
<1>5. Failure(c) = c3
  BY DEF Failure, Connection
<1> HIDE DEF n, c1
<1>2. c2 \in Connection
  BY <1>1 DEF Connection
<1> HIDE DEF c2
<1>3. c3 \in Connection
  BY <1>0, <1>2 DEF Connection
<1>6. /\ Failure(c).holder = c.holder /\ Failure(c).alive = c.alive
      /\ Failure(c).tx = c.tx
      /\ Failure(c).info = TRUE /\ Failure(c).failed = TRUE
  BY DEF Failure, Connection
<1>7. Failure(c).counted = IF c.info THEN c.counted ELSE c.counted + 1
  BY DEF Failure, Connection
<1> QED
  BY <1>3, <1>5, <1>6, <1>7

(* The event rollback resets the sentinel and leaves the rest. *)
LEMMA RollbackEventFields ==
    ASSUME NEW c \in Connection
    PROVE  /\ RollbackEvent(c) \in Connection
           /\ RollbackEvent(c).holder = c.holder /\ RollbackEvent(c).alive = c.alive
<1>1. RollbackEvent(c) \in Connection
  BY DEF RollbackEvent, Connection
<1>2. RollbackEvent(c).holder = c.holder /\ RollbackEvent(c).alive = c.alive
  BY DEF RollbackEvent, Connection
<1> QED
  BY <1>1, <1>2

(* A returned connection is free and has no transaction. *)
LEMMA ReturnedConnection ==
    ASSUME NEW c \in Connection
    PROVE  Returned(c) \in Connection /\ Returned(c).holder = None /\ ~Returned(c).tx
<1>1. CASE c.alive
  <2> DEFINE c1 == [c EXCEPT !.tx = FALSE]
             c2 == [c1 EXCEPT !.failed = FALSE]
             c3 == [c2 EXCEPT !.counted = 0]
             c4 == [c3 EXCEPT !.holder = None]
  <2>1. c1 \in Connection
    BY DEF Connection
  <2> HIDE DEF c1
  <2>2. c2 \in Connection
    BY <2>1 DEF Connection
  <2> HIDE DEF c2
  <2>3. c3 \in Connection
    BY <2>2 DEF Connection
  <2> HIDE DEF c3
  <2>4. c4 \in Connection
    BY <2>3 DEF Connection
  <2>5. Returned(c) = c4
    BY <1>1 DEF c1, c2, c3, c4, Returned, Closed
  <2>6. Returned(c).holder = None /\ ~Returned(c).tx
    BY <1>1 DEF Returned, Closed, Connection
  <2> QED
    BY <2>4, <2>5, <2>6
<1>2. CASE ~c.alive
  <2>1. Returned(c) = [Fresh EXCEPT !.alive = FALSE]
    BY <1>2 DEF Returned
  <2>2. Returned(c) \in Connection
    BY <2>1, FreshConnection DEF Connection
  <2>3. Returned(c).holder = None /\ ~Returned(c).tx
    BY <2>1 DEF Fresh
  <2> QED
    BY <2>2, <2>3
<1> QED
  BY <1>1, <1>2

(* A connection that is lent works and belongs to the task it is lent to. *)
LEMMA LentConnection ==
    ASSUME NEW c \in Connection, NEW t \in Tasks
    PROVE  /\ LentTo(t, c) \in Connection /\ LentTo(t, c).holder = t
           /\ LentTo(t, c).alive /\ (LentTo(t, c).tx => c.tx)
<1> DEFINE d == LentTo(t, c)
<1> USE DEF LentTo
<1>1. CASE c.alive
  <2>1. d = [c EXCEPT !.holder = t]
    BY <1>1
  <2> QED
    BY <1>1, <2>1 DEF Connection
<1>2. CASE ~c.alive
  <2>1. d = [Fresh EXCEPT !.holder = t]
    BY <1>2
  <2>2. d \in Connection
    BY <2>1, FreshConnection DEF Connection
  <2>3. d.holder = t /\ d.alive /\ ~d.tx
    BY <2>1 DEF Fresh
  <2> QED
    BY <2>2, <2>3
<1> QED
  BY <1>1, <1>2

(* One connection is replaced. *)
LEMMA SlotReplaced ==
    ASSUME slot \in [Slots -> Connection], NEW x \in Slots, NEW d \in Connection,
           slot' = [slot EXCEPT ![x] = d]
    PROVE  /\ slot' \in [Slots -> Connection]
           /\ slot'[x] = d
           /\ \A s \in Slots : s # x => slot'[s] = slot[s]
OBVIOUS

(* The invariant holds initially. *)
LEMMA PoolInit == Init => PoolInv
<1> SUFFICES ASSUME Init PROVE PoolInv
  OBVIOUS
<1> USE PoolAssumption, FreshConnection DEF Init
<1>1. PoolValues
  BY DEF PoolValues
<1>2. HoldersAreBusy
  BY DEF HoldersAreBusy, Tasks
<1>3. DriverIsHeld /\ SentinelTrue /\ BorrowersKeepConnection
  BY DEF DriverIsHeld, SentinelTrue, BorrowersKeepConnection, Tasks
<1> QED
  BY <1>1, <1>2, <1>3 DEF PoolInv

(***************************************************************************)
(* Every step keeps the invariant.                                         *)
(***************************************************************************)

(* A step that moves a task between places of the same kind and lends,     *)
(* returns and remembers nothing.                                          *)
LEMMA MoveKeepsInv ==
    ASSUME PoolInv, NEW t \in Tasks, NEW to,
           UNCHANGED <<slot, driver>>, pc' = [pc EXCEPT ![t] = to],
           \/ pc[t] \in {"idle", "asking"} /\ to \in {"idle", "asking"}
           \/ t \in Probes /\ pc[t] \in {"asking", "returned"} /\ to = "done"
           \/ t \in Probes /\ pc[t] \in {"leased", "driven"} /\ to = "closing"
    PROVE  PoolInv'
<1> USE PoolAssumption DEF Tasks
<1>1. PoolValues'
  BY DEF PoolInv, PoolValues
<1>2. HoldersAreBusy'
  BY DEF PoolInv, PoolValues, HoldersAreBusy
<1>3. DriverIsHeld'
  BY DEF PoolInv, PoolValues, DriverIsHeld, LeaseOpen
<1>4. SentinelTrue'
  BY DEF PoolInv, PoolValues, HoldersAreBusy, SentinelTrue, Broken
<1>5. BorrowersKeepConnection'
  BY DEF PoolInv, BorrowersKeepConnection
<1> QED
  BY <1>1, <1>2, <1>3, <1>4, <1>5 DEF PoolInv

(* A task that works has a connection. *)
LEMMA WorkerHolds ==
    ASSUME PoolInv, NEW t \in Tasks,
           \/ t \in Borrowers /\ pc[t] \in {"busy", "rejected", "broken"}
           \/ t \in Probes /\ pc[t] \in {"leased", "driven", "closing", "abandoned"}
    PROVE  /\ Of(t) \in Slots /\ slot[Of(t)].holder = t /\ slot[Of(t)] \in Connection
           /\ \A s \in Slots : slot[s].holder = t => s = Of(t)
<1>1. \E s \in Slots : slot[s].holder = t
  BY DEF PoolInv, HoldersAreBusy
<1>2. Of(t) \in Slots /\ slot[Of(t)].holder = t
  BY <1>1, OfHolder
<1>3. t # None
  BY PoolAssumption
<1> QED
  BY <1>2, <1>3 DEF PoolInv, PoolValues, HoldersAreBusy

(* A request's transaction fails in place: its connection stays alive and  *)
(* stays its own, and unless the rollback itself failed the failure is     *)
(* recorded once.                                                          *)
LEMMA FailureKeepsInv ==
    ASSUME PoolInv, NEW b \in Borrowers, NEW c \in Connection, NEW to,
           pc[b] = "busy", pc' = [pc EXCEPT ![b] = to], to \in {"busy", "rejected", "broken"},
           c.holder = slot[Of(b)].holder, c.alive = slot[Of(b)].alive,
           to = "broken" \/ c = slot[Of(b)],
           slot' = [slot EXCEPT ![Of(b)] = Failure(c)], UNCHANGED driver
    PROVE  PoolInv'
<1> DEFINE x == Of(b)
           d == Failure(c)
<1> USE PoolAssumption DEF Tasks
<1>1. x \in Slots /\ slot[x].holder = b /\ \A s \in Slots : slot[s].holder = b => s = x
  BY WorkerHolds
<1>2. /\ d \in Connection /\ d.holder = b /\ d.alive = slot[x].alive
      /\ d.tx = c.tx /\ d.info = TRUE /\ d.failed = TRUE
      /\ d.counted = IF c.info THEN c.counted ELSE c.counted + 1
  BY <1>1, FailureEvent
<1>3. PoolInv /\ slot' = [slot EXCEPT ![x] = d]
  OBVIOUS
<1> HIDE DEF x, d
<1>4. /\ slot' \in [Slots -> Connection] /\ slot'[x] = d
      /\ \A s \in Slots : s # x => slot'[s] = slot[s]
  BY ZenonT(40), <1>1, <1>2, <1>3, SlotReplaced DEF PoolInv, PoolValues
<1>5. \A s \in Slots : slot'[s].holder = slot[s].holder /\ slot'[s].alive = slot[s].alive
  BY <1>1, <1>2, <1>4
<1>6. PoolValues'
  BY <1>4 DEF PoolInv, PoolValues
<1>7. HoldersAreBusy'
  BY <1>5 DEF PoolInv, PoolValues, HoldersAreBusy
<1>8. DriverIsHeld'
  BY <1>5 DEF PoolInv, PoolValues, DriverIsHeld, LeaseOpen
<1>9. SentinelTrue'
  <2> SUFFICES ASSUME NEW s \in Slots, slot'[s].tx
               PROVE  /\ slot'[s].holder # None
                      /\ ~Broken(s)' => /\ slot'[s].info = slot'[s].failed
                                        /\ slot'[s].counted = IF slot'[s].failed THEN 1 ELSE 0
    BY DEF SentinelTrue
  <2>1. CASE s # x
    BY <1>1, <1>4, <2>1 DEF PoolInv, PoolValues, SentinelTrue, Broken
  <2>2. CASE s = x
    <3>1. slot'[s].holder # None
      BY <1>2, <1>4, <2>2
    <3>2. CASE to = "broken"
      BY <1>2, <1>4, <2>2, <3>1, <3>2 DEF PoolInv, PoolValues, Broken
    <3>3. CASE to # "broken"
      <4>1. c = slot[x] /\ slot[x].tx /\ ~Broken(x)
        BY <1>1, <1>2, <1>4, <2>2, <3>3 DEF x, Broken
      <4>2. slot[x].info = slot[x].failed /\ slot[x].counted = IF slot[x].failed THEN 1 ELSE 0
        <5>1. SentinelTrue
          BY DEF PoolInv
        <5> QED
          BY <1>1, <4>1, <5>1 DEF SentinelTrue
      <4>3. d.counted = 1
        BY <1>2, <4>1, <4>2
      <4> QED
        BY <1>2, <1>4, <2>2, <3>1, <4>3
    <3> QED
      BY <3>2, <3>3
  <2> QED
    BY <2>1, <2>2
<1>10. BorrowersKeepConnection'
  BY <1>5 DEF PoolInv, BorrowersKeepConnection
<1> QED
  BY <1>6, <1>7, <1>8, <1>9, <1>10 DEF PoolInv

(* A free connection is lent: it works, has no transaction or a new one,   *)
(* and the probe that gets it remembers none.                              *)
LEMMA LendKeepsInv ==
    ASSUME PoolInv, NEW t \in Tasks, NEW x \in Slots, NEW d \in Connection, NEW to,
           pc[t] = "asking", pc' = [pc EXCEPT ![t] = to],
           to = IF t \in Borrowers THEN "busy" ELSE "leased",
           slot[x].holder = None, d.holder = t, d.alive,
           d.tx => d.info = FALSE /\ d.failed = FALSE /\ d.counted = 0,
           slot' = [slot EXCEPT ![x] = d], UNCHANGED driver
    PROVE  PoolInv'
<1> USE PoolAssumption DEF Tasks
<1>1. /\ slot' \in [Slots -> Connection] /\ slot'[x] = d
      /\ \A s \in Slots : s # x => slot'[s] = slot[s]
  BY SlotReplaced DEF PoolInv, PoolValues
<1>2. \A s \in Slots : slot[s].holder # t
  BY DEF PoolInv, HoldersAreBusy
<1>3. PoolValues'
  BY <1>1 DEF PoolInv, PoolValues
<1>4. HoldersAreBusy'
  BY <1>1, <1>2 DEF PoolInv, PoolValues, HoldersAreBusy
<1>5. DriverIsHeld'
  BY <1>1 DEF PoolInv, PoolValues, DriverIsHeld, LeaseOpen
<1>6. SentinelTrue'
  BY <1>1, <1>2 DEF PoolInv, PoolValues, SentinelTrue, Broken
<1>7. BorrowersKeepConnection'
  BY <1>1 DEF PoolInv, BorrowersKeepConnection
<1> QED
  BY <1>3, <1>4, <1>5, <1>6, <1>7 DEF PoolInv

(* A connection is returned by the task that held it. *)
LEMMA ReturnKeepsInv ==
    ASSUME PoolInv, NEW t \in Tasks, NEW c \in Connection, NEW to,
           \/ t \in Borrowers /\ pc[t] \in {"busy", "rejected", "broken"} /\ to = "idle"
           \/ t \in Probes /\ pc[t] \in {"closing", "abandoned"} /\ to \in {"returned", "done"},
           pc' = [pc EXCEPT ![t] = to],
           slot' = [slot EXCEPT ![Of(t)] = Returned(c)], UNCHANGED driver
    PROVE  PoolInv'
<1> DEFINE x == Of(t)
           d == Returned(c)
<1> USE PoolAssumption DEF Tasks
<1>1. x \in Slots /\ slot[x].holder = t /\ \A s \in Slots : slot[s].holder = t => s = x
  BY WorkerHolds
<1>2. d \in Connection /\ d.holder = None /\ ~d.tx
  BY ReturnedConnection
<1>3. PoolInv /\ slot' = [slot EXCEPT ![x] = d]
  OBVIOUS
<1> HIDE DEF x, d
<1>4. /\ slot' \in [Slots -> Connection] /\ slot'[x] = d
      /\ \A s \in Slots : s # x => slot'[s] = slot[s]
  BY <1>1, <1>2, <1>3, SlotReplaced DEF PoolInv, PoolValues
<1>5. PoolValues'
  BY <1>4 DEF PoolInv, PoolValues
<1>6. HoldersAreBusy'
  BY <1>1, <1>2, <1>4 DEF PoolInv, PoolValues, HoldersAreBusy
<1>7. DriverIsHeld'
  BY <1>1, <1>2, <1>4 DEF PoolInv, PoolValues, DriverIsHeld, LeaseOpen
<1>8. SentinelTrue'
  BY <1>1, <1>2, <1>4 DEF PoolInv, PoolValues, SentinelTrue, Broken
<1>9. BorrowersKeepConnection'
  BY <1>2, <1>4 DEF PoolInv, BorrowersKeepConnection
<1> QED
  BY <1>5, <1>6, <1>7, <1>8, <1>9 DEF PoolInv

(* A request's step. *)
LEMMA BorrowerKeepsInv ==
    ASSUME PoolInv, NEW b \in Borrowers, BorrowerStep(b)
    PROVE  PoolInv'
<1> USE DEF Goto
<1>0. b \in Tasks
  BY DEF Tasks
<1>1. CASE Ask(b)
  BY <1>0, <1>1, MoveKeepsInv DEF Ask
<1>2. CASE Borrow(b)
  <2>1. CASE Goto(b, "asking", "idle") /\ UNCHANGED <<slot, driver>>
    BY <1>0, <2>1, MoveKeepsInv
  <2>2. ASSUME Goto(b, "asking", "busy"), UNCHANGED driver,
               NEW x \in Slots, slot[x].holder = None,
               slot' = [slot EXCEPT ![x] = Begin(LentTo(b, @))]
        PROVE  PoolInv'
    <3> DEFINE c == LentTo(b, slot[x])
    <3>1. slot[x] \in Connection
      BY DEF PoolInv, PoolValues
    <3>2. c \in Connection /\ c.holder = b /\ c.alive
      BY <1>0, <3>1, LentConnection
    <3>3. slot' = [slot EXCEPT ![x] = Begin(c)]
      BY <2>2
    <3> HIDE DEF c
    <3>4. /\ Begin(c) \in Connection /\ Begin(c).holder = b /\ Begin(c).alive
          /\ Begin(c).info = FALSE /\ Begin(c).failed = FALSE /\ Begin(c).counted = 0
      BY <3>2, BeginEvent
    <3> QED
      BY <1>0, <2>2, <3>3, <3>4, LendKeepsInv
  <2> QED
    BY <1>2, <2>1, <2>2 DEF Borrow, Usable
<1>3. CASE StatementFails(b)
  <2>1. pc' = [pc EXCEPT ![b] = "busy"]
    BY <1>0, <1>3 DEF StatementFails, PoolInv, PoolValues
  <2>2. slot[Of(b)] \in Connection
    BY <1>0, <1>3, WorkerHolds DEF StatementFails
  <2> QED
    BY <1>3, <2>1, <2>2, FailureKeepsInv DEF StatementFails
<1>4. CASE Commit(b)
  <2>1. slot[Of(b)] \in Connection
    BY <1>0, <1>4, WorkerHolds DEF Commit
  <2> QED
    BY <1>0, <1>4, <2>1, ReturnKeepsInv DEF Commit, CommitEvent
<1>5. CASE CommitFails(b)
  <2>1. slot[Of(b)] \in Connection
    BY <1>0, <1>5, WorkerHolds DEF CommitFails
  <2> QED
    BY <1>5, <2>1, FailureKeepsInv DEF CommitFails, CommitEvent
<1>6. CASE Rollback(b)
  <2>1. RollbackEvent(slot[Of(b)]) \in Connection
    BY <1>0, <1>6, WorkerHolds, RollbackEventFields DEF Rollback
  <2> QED
    BY <1>0, <1>6, <2>1, ReturnKeepsInv DEF Rollback
<1>7. CASE RollbackFails(b)
  <2> DEFINE c == RollbackEvent(slot[Of(b)])
  <2>1. /\ c \in Connection
        /\ c.holder = slot[Of(b)].holder /\ c.alive = slot[Of(b)].alive
    BY <1>0, <1>7, WorkerHolds, RollbackEventFields DEF RollbackFails
  <2>2. /\ pc[b] = "busy" /\ pc' = [pc EXCEPT ![b] = "broken"] /\ UNCHANGED driver
        /\ slot' = [slot EXCEPT ![Of(b)] = Failure(c)]
    BY <1>7 DEF RollbackFails
  <2> HIDE DEF c
  <2> QED
    BY <2>1, <2>2, FailureKeepsInv
<1>8. CASE Discard(b)
  <2>1. slot[Of(b)] \in Connection
    BY <1>0, <1>8, WorkerHolds DEF Discard
  <2> QED
    BY <1>0, <1>8, <2>1, ReturnKeepsInv DEF Discard
<1> QED
  BY <1>1, <1>2, <1>3, <1>4, <1>5, <1>6, <1>7, <1>8 DEF BorrowerStep

(* A probe works on the connection it holds: the event keeps the holder,   *)
(* and what the probe remembers is that connection.                        *)
LEMMA ProbeEventKeepsInv ==
    ASSUME PoolInv, NEW p \in Probes, NEW d \in Connection, NEW to,
           \/ pc[p] = "leased" /\ to = "driven"
           \/ pc[p] = "driven" /\ to = "closing",
           pc' = [pc EXCEPT ![p] = to], d.holder = p,
           d.tx => /\ d.info = d.failed
                   /\ d.counted = IF d.failed THEN 1 ELSE 0,
           slot' = [slot EXCEPT ![Of(p)] = d],
           driver' = driver \/ driver' = [driver EXCEPT ![p] = Of(p)]
    PROVE  PoolInv'
<1> DEFINE x == Of(p)
<1> USE PoolAssumption DEF Tasks
<1>1. x \in Slots /\ slot[x].holder = p /\ \A s \in Slots : slot[s].holder = p => s = x
  BY WorkerHolds
<1>2. /\ slot' = [slot EXCEPT ![x] = d]
      /\ driver' = driver \/ driver' = [driver EXCEPT ![p] = x]
  OBVIOUS
<1> HIDE DEF x
<1>3. /\ slot' \in [Slots -> Connection] /\ slot'[x] = d
      /\ \A s \in Slots : s # x => slot'[s] = slot[s]
  BY <1>1, <1>2, SlotReplaced DEF PoolInv, PoolValues
<1>4. \A s \in Slots : slot'[s].holder = slot[s].holder
  BY <1>1, <1>3
<1>5. PoolValues'
  BY <1>1, <1>2, <1>3 DEF PoolInv, PoolValues
<1>6. HoldersAreBusy'
  BY <1>4 DEF PoolInv, PoolValues, HoldersAreBusy
<1>7. DriverIsHeld'
  BY <1>1, <1>2, <1>4 DEF PoolInv, PoolValues, DriverIsHeld, LeaseOpen
<1>8. SentinelTrue'
  BY <1>1, <1>3 DEF PoolInv, PoolValues, SentinelTrue, Broken
<1>9. BorrowersKeepConnection'
  BY <1>1, <1>3 DEF PoolInv, BorrowersKeepConnection
<1> QED
  BY <1>5, <1>6, <1>7, <1>8, <1>9 DEF PoolInv

(* A step of the readiness check's task. *)
LEMMA ProbeKeepsInv ==
    ASSUME PoolInv, NEW p \in Probes, ProbeStep(p)
    PROVE  PoolInv'
<1> USE DEF Goto
<1>0. p \in Tasks /\ p \notin Borrowers
  BY PoolAssumption DEF Tasks
<1>1. CASE Lease(p)
  <2>1. PICK x \in Slots : slot[x].holder = None /\ slot' = [slot EXCEPT ![x] = LentTo(p, @)]
    BY <1>1 DEF Lease, Lend, Usable
  <2>2. slot[x] \in Connection /\ ~slot[x].tx
    BY <2>1 DEF PoolInv, PoolValues, SentinelTrue
  <2> DEFINE d == LentTo(p, slot[x])
  <2>3. d \in Connection /\ d.holder = p /\ d.alive /\ ~d.tx
    BY <1>0, <2>2, LentConnection
  <2>4. slot' = [slot EXCEPT ![x] = d]
    BY <2>1
  <2> HIDE DEF d
  <2> QED
    BY <1>0, <1>1, <2>1, <2>3, <2>4, LendKeepsInv DEF Lease
<1>2. CASE LeaseRefused(p)
  BY <1>0, <1>2, MoveKeepsInv DEF LeaseRefused
<1>3. CASE Drive(p)
  <2>1. slot[Of(p)] \in Connection /\ slot[Of(p)].holder = p
    BY <1>0, <1>3, WorkerHolds DEF Drive
  <2>2. /\ Begin(slot[Of(p)]) \in Connection /\ Begin(slot[Of(p)]).holder = p
        /\ Begin(slot[Of(p)]).info = FALSE /\ Begin(slot[Of(p)]).failed = FALSE
        /\ Begin(slot[Of(p)]).counted = 0
    BY <2>1, BeginEvent
  <2> QED
    BY <1>3, <2>2, ProbeEventKeepsInv DEF Drive
<1>4. CASE Select(p)
  BY <1>0, <1>4, MoveKeepsInv DEF Select
<1>5. CASE Interrupt(p)
  <2>1. CASE pc[p] = "leased"
    BY <1>0, <1>5, <2>1, MoveKeepsInv DEF Interrupt
  <2>2. CASE pc[p] = "driven"
    <3> DEFINE c == slot[Of(p)]
    <3>1. Of(p) \in Slots /\ c \in Connection /\ c.holder = p
      BY <1>0, <2>2, WorkerHolds
    <3>2. ~Broken(Of(p))
      BY <1>0, <3>1 DEF Broken
    <3>3. c.tx => c.info = c.failed /\ c.counted = IF c.failed THEN 1 ELSE 0
      <4>1. SentinelTrue
        BY DEF PoolInv
      <4> QED
        BY <3>1, <3>2, <4>1 DEF SentinelTrue
    <3>4. slot' = [slot EXCEPT ![Of(p)] = Failure(c)]
      BY <1>5, <2>2 DEF Interrupt
    <3> HIDE DEF c
    <3>5. /\ Failure(c) \in Connection /\ Failure(c).holder = p
          /\ Failure(c).tx => /\ Failure(c).info = Failure(c).failed
                              /\ Failure(c).counted = IF Failure(c).failed THEN 1 ELSE 0
      <4>1. /\ Failure(c) \in Connection /\ Failure(c).holder = p /\ Failure(c).tx = c.tx
            /\ Failure(c).info = TRUE /\ Failure(c).failed = TRUE
            /\ Failure(c).counted = IF c.info THEN c.counted ELSE c.counted + 1
        BY <3>1, FailureEvent
      <4>2. ASSUME c.tx PROVE Failure(c).counted = 1
        BY <3>3, <4>1, <4>2
      <4> QED
        BY <4>1, <4>2
    <3> QED
      BY <1>5, <2>2, <3>4, <3>5, ProbeEventKeepsInv DEF Interrupt
  <2> QED
    BY <1>5, <2>1, <2>2 DEF Interrupt
<1>6. CASE Close(p)
  <2>1. RollbackEvent(slot[Of(p)]) \in Connection
    BY <1>0, <1>6, WorkerHolds, RollbackEventFields DEF Close
  <2>2. PICK to \in {"returned", "done"} : pc' = [pc EXCEPT ![p] = to]
    BY <1>6 DEF Close
  <2> QED
    BY <1>0, <1>6, <2>1, <2>2, ReturnKeepsInv DEF Close
<1>7. CASE Resume(p)
  BY <1>0, <1>7, MoveKeepsInv DEF Resume
<1> QED
  BY <1>1, <1>2, <1>3, <1>4, <1>5, <1>6, <1>7 DEF ProbeStep

(* The deadline: what is terminated is the connection the probe still      *)
(* holds, never one that went back to the pool.                            *)
LEMMA TimeoutKeepsInv ==
    ASSUME PoolInv, NEW p \in Probes, Timeout(p)
    PROVE  PoolInv'
<1> USE PoolAssumption DEF Tasks
<1>1. \A s \in Slots : s \in Terminates(p) => slot[s].holder = p
  BY DEF Terminates, PoolInv, DriverIsHeld
<1>2. \A s \in Slots : [slot[s] EXCEPT !.alive = FALSE] \in Connection
  BY ZenonT(40) DEF PoolInv, PoolValues, Connection
<1>3. slot' \in [Slots -> Connection]
  BY <1>2 DEF Timeout, PoolInv, PoolValues
<1>4. \A s \in Slots : s \notin Terminates(p) => slot'[s] = slot[s]
  BY DEF Timeout
<1>5. \A s \in Slots : s \in Terminates(p) => slot'[s] = [slot[s] EXCEPT !.alive = FALSE]
  BY DEF Timeout
<1>6. \A s \in Slots : /\ slot'[s].holder = slot[s].holder /\ slot'[s].tx = slot[s].tx
                       /\ slot'[s].info = slot[s].info /\ slot'[s].failed = slot[s].failed
                       /\ slot'[s].counted = slot[s].counted
  <2> TAKE s \in Slots
  <2>1. CASE s \notin Terminates(p)
    BY <1>4, <2>1
  <2>2. CASE s \in Terminates(p)
    <3>1. slot[s] \in Connection /\ slot'[s] = [slot[s] EXCEPT !.alive = FALSE]
      BY <1>5, <2>2 DEF PoolInv, PoolValues
    <3> QED
      BY <3>1 DEF Connection
  <2> QED
    BY <2>1, <2>2
<1>7. /\ UNCHANGED driver
      /\ pc' = [pc EXCEPT ![p] = IF pc[p] = "closing" THEN "abandoned" ELSE pc[p]]
  BY DEF Timeout, PoolInv, PoolValues
<1>8. PoolValues'
  BY <1>3, <1>7 DEF PoolInv, PoolValues
<1>9. HoldersAreBusy'
  BY <1>6, <1>7 DEF PoolInv, PoolValues, HoldersAreBusy
<1>10. DriverIsHeld'
  BY <1>6, <1>7 DEF PoolInv, PoolValues, DriverIsHeld, LeaseOpen
<1>11. SentinelTrue'
  BY <1>6, <1>7 DEF PoolInv, PoolValues, SentinelTrue, Broken
<1>12. BorrowersKeepConnection'
  BY <1>1, <1>4, <1>6 DEF PoolInv, BorrowersKeepConnection
<1> QED
  BY <1>8, <1>9, <1>10, <1>11, <1>12 DEF PoolInv

(* The next check starts with nothing remembered. *)
LEMMA AgainKeepsInv ==
    ASSUME PoolInv, NEW p \in Probes, Again(p)
    PROVE  PoolInv'
<1> USE PoolAssumption DEF Tasks, Again, Goto
<1>1. PoolValues'
  BY DEF PoolInv, PoolValues
<1>2. HoldersAreBusy'
  BY DEF PoolInv, PoolValues, HoldersAreBusy
<1>3. DriverIsHeld'
  BY DEF PoolInv, PoolValues, DriverIsHeld, LeaseOpen
<1>4. SentinelTrue'
  BY DEF PoolInv, PoolValues, SentinelTrue, Broken
<1>5. BorrowersKeepConnection'
  BY DEF PoolInv, BorrowersKeepConnection
<1> QED
  BY <1>1, <1>2, <1>3, <1>4, <1>5 DEF PoolInv

(* A step that changes neither a connection nor where a task is. *)
LEMMA StutterKeepsInv == PoolInv /\ UNCHANGED <<slot, pc, driver>> => PoolInv'
BY DEF PoolInv, PoolValues, HoldersAreBusy, DriverIsHeld, LeaseOpen, SentinelTrue, Broken,
       BorrowersKeepConnection

(* The inductive invariant of the pool: what the two theorems below rest   *)
(* on, for any number of connections, requests and readiness checks.       *)
THEOREM PoolInvariance == Spec => []PoolInv
<1>1. Init => PoolInv
  BY PoolInit
<1>2. PoolInv /\ [Next]_vars => PoolInv'
  <2> SUFFICES ASSUME PoolInv, [Next]_vars PROVE PoolInv'
    OBVIOUS
  <2>1. CASE Suspend
    BY <2>1, StutterKeepsInv DEF Suspend
  <2>2. ASSUME NEW b \in Borrowers, BorrowerStep(b) PROVE PoolInv'
    BY <2>2, BorrowerKeepsInv
  <2>3. ASSUME NEW p \in Probes, Check(p) PROVE PoolInv'
    BY <2>3, MoveKeepsInv DEF Check, Goto, Tasks
  <2>4. ASSUME NEW p \in Probes, ProbeStep(p) PROVE PoolInv'
    BY <2>4, ProbeKeepsInv
  <2>5. ASSUME NEW p \in Probes, Timeout(p) PROVE PoolInv'
    BY <2>5, TimeoutKeepsInv
  <2>6. ASSUME NEW p \in Probes, Answer(p) PROVE PoolInv'
    BY <2>6, StutterKeepsInv DEF Answer
  <2>7. ASSUME NEW p \in Probes, Again(p) PROVE PoolInv'
    BY <2>7, AgainKeepsInv
  <2>8. CASE UNCHANGED vars
    BY <2>8, StutterKeepsInv DEF vars
  <2> QED
    BY <2>1, <2>2, <2>3, <2>4, <2>5, <2>6, <2>7, <2>8 DEF Next
<1> QED
  BY <1>1, <1>2, PTL DEF Spec

(* The deadline of database_ready never terminates a connection a request  *)
(* works on, whatever the number of connections, requests and checks.      *)
THEOREM BorrowersKeep == Spec => []BorrowersKeepConnection
<1>1. PoolInv => BorrowersKeepConnection
  BY DEF PoolInv
<1> QED
  BY <1>1, PoolInvariance, PTL

(* instrument_engine() records a failed transaction once and a successful  *)
(* one never, on every connection and across all of its borrowers.         *)
THEOREM CountedOnce == Spec => []FailuresCountedOnce
<1>1. PoolInv => SentinelTrue
  BY DEF PoolInv
<1>2. SentinelTrue => FailuresCountedOnce
  BY DEF SentinelTrue, FailuresCountedOnce
<1> QED
  BY <1>1, <1>2, PoolInvariance, PTL

-----------------------------------------------------------------------------
(* The process *)

\* A step of the process is a step of the pool, or leaves the pool alone.
LEMMA ApiStepIsPoolStep == ApiNext => [Next]_vars
  <1> SUFFICES ASSUME ApiNext PROVE [Next]_vars
    OBVIOUS
  <1>1. CASE PipelineStep
    BY <1>1 DEF PipelineStep
  <1>2. CASE DatabaseStep
    BY <1>2 DEF DatabaseStep, Next
  <1>3. ASSUME NEW b \in Borrowers, RequestStep(b) PROVE Next
    BY <1>3 DEF RequestStep, Next
  <1>4. ASSUME NEW p \in Probes, ReadyStep(p) PROVE Next
    BY <1>4 DEF ReadyStep, Next
  <1>5. ASSUME NEW t \in Tasks, Arrives(t) \/ Leaves(t) PROVE UNCHANGED vars
    BY <1>5 DEF Arrives, Leaves
  <1> QED
    BY <1>1, <1>2, <1>3, <1>4, <1>5 DEF ApiNext

\* However lifespans start, fail and close around it, and whichever pipeline
\* records it, the pool of the process behaves as DatabasePool.
THEOREM ProcessImplementsPool == ApiSpec => Spec
  <1>1. ApiInit => Init
    BY DEF ApiInit
  <1>2. [ApiNext]_apiVars => [Next]_vars
    BY ApiStepIsPoolStep DEF apiVars
  <1> QED
    BY <1>1, <1>2, PTL DEF ApiSpec, Spec

\* In the whole process too, no deadline of a readiness check terminates a
\* connection that was lent to a request (app/db/readiness.py).
THEOREM ProcessBorrowersKeep == ApiSpec => []BorrowersKeepConnection
  BY ProcessImplementsPool, BorrowersKeep, PTL

\* In the whole process too, a failed transaction is recorded once and a
\* successful one never (app/db/telemetry.py, instrument_engine).
THEOREM ProcessCountedOnce == ApiSpec => []FailuresCountedOnce
  BY ProcessImplementsPool, CountedOnce, PTL

-----------------------------------------------------------------------------
(* How often a transaction was recorded, and how many tasks wait *)

Asking == {t \in Tasks : pc[t] = "asking"}

\* Only a rollback that fails itself is recorded a second time.
CountedSound ==
    \A s \in Slots :
        /\ slot[s].counted \in 0 .. 2
        /\ ~Broken(s) => slot[s].counted <= 1 /\ (slot[s].counted = 1 => slot[s].info)

PoolCounts ==
    /\ suspended \in BOOLEAN
    /\ acquiring = Cardinality(Asking)
    /\ CountedSound

LEMMA AskingFinite == IsFiniteSet(Asking) /\ Cardinality(Asking) \in Nat
  <1>1. Asking \subseteq Tasks
    BY DEF Asking
  <1> QED
    BY <1>1, ProcessAssumption, FS_Subset, FS_CardinalityType

\* A task that moves elsewhere does not change who waits for a connection.
LEMMA AskingSame ==
  ASSUME PoolCounts, PoolValues, NEW t \in Tasks, NEW to, pc' = [pc EXCEPT ![t] = to],
         pc[t] # "asking", to # "asking", UNCHANGED acquiring
  PROVE  acquiring' = Cardinality(Asking)'
  <1>1. Asking' = Asking
    BY DEF Asking, PoolValues
  <1> QED
    BY <1>1 DEF PoolCounts

LEMMA AskingMore ==
  ASSUME PoolCounts, PoolValues, NEW t \in Tasks, pc' = [pc EXCEPT ![t] = "asking"],
         pc[t] # "asking", acquiring' = acquiring + 1
  PROVE  acquiring' = Cardinality(Asking)'
  <1>1. Asking' = Asking \cup {t} /\ t \notin Asking
    BY DEF Asking, PoolValues
  <1>2. Cardinality(Asking \cup {t}) = Cardinality(Asking) + 1
    BY <1>1, AskingFinite, FS_AddElement
  <1> QED
    BY <1>1, <1>2 DEF PoolCounts

LEMMA AskingLess ==
  ASSUME PoolCounts, PoolValues, NEW t \in Tasks, NEW to, pc' = [pc EXCEPT ![t] = to],
         pc[t] = "asking", to # "asking", acquiring' = acquiring - 1
  PROVE  acquiring' = Cardinality(Asking)'
  <1>1. Asking' = Asking \ {t} /\ t \in Asking
    BY DEF Asking, PoolValues
  <1>2. Cardinality(Asking \ {t}) = Cardinality(Asking) - 1
    BY <1>1, AskingFinite, FS_RemoveElement
  <1> QED
    BY <1>1, <1>2 DEF PoolCounts

\* No connection changes.
LEMMA CountedStays ==
  ASSUME PoolInv, CountedSound, UNCHANGED slot, NEW t \in Tasks, NEW to,
         pc' = [pc EXCEPT ![t] = to], pc[t] # "broken" \/ to = "broken"
  PROVE  CountedSound'
  <1> SUFFICES ASSUME NEW s \in Slots
               PROVE  /\ slot[s].counted \in 0 .. 2
                      /\ ~Broken(s)' => slot[s].counted <= 1
                                        /\ (slot[s].counted = 1 => slot[s].info)
    BY DEF CountedSound
  <1>1. Broken(s) => Broken(s)'
    <2> SUFFICES ASSUME Broken(s) PROVE Broken(s)'
      OBVIOUS
    <2>1. slot[s].holder \in Borrowers /\ pc[slot[s].holder] = "broken"
      BY DEF Broken
    <2>2. slot[s].holder \in Tasks
      BY <2>1 DEF Tasks
    <2>3. pc'[slot[s].holder] = "broken"
      BY <2>1, <2>2 DEF PoolInv, PoolValues
    <2> QED
      BY <2>1, <2>3 DEF Broken
  <1> QED
    BY <1>1 DEF CountedSound

\* One connection changes, and the task that has it moves.
LEMMA CountedReplaced ==
  ASSUME PoolInv, CountedSound, NEW x \in Slots, NEW d \in Connection,
         slot' = [slot EXCEPT ![x] = d], NEW t \in Tasks, NEW to,
         pc' = [pc EXCEPT ![t] = to],
         pc[t] # "broken" \/ to = "broken" \/ slot[x].holder = t,
         d.counted \in 0 .. 2,
         \/ d.counted <= 1 /\ (d.counted = 1 => d.info)
         \/ d.holder = t /\ t \in Borrowers /\ to = "broken"
  PROVE  CountedSound'
  <1>1. slot'[x] = d /\ \A s \in Slots : s # x => slot'[s] = slot[s]
    BY DEF PoolInv, PoolValues
  <1> SUFFICES ASSUME NEW s \in Slots
               PROVE  /\ slot'[s].counted \in 0 .. 2
                      /\ ~Broken(s)' => slot'[s].counted <= 1
                                        /\ (slot'[s].counted = 1 => slot'[s].info)
    BY DEF CountedSound
  <1>2. CASE s = x
    <2>1. CASE d.holder = t /\ t \in Borrowers /\ to = "broken"
      <3>1. pc'[t] = "broken"
        BY <2>1 DEF PoolInv, PoolValues
      <3>2. Broken(s)'
        BY <1>1, <1>2, <2>1, <3>1 DEF Broken
      <3> QED
        BY <1>1, <1>2, <3>2
    <2>2. CASE d.counted <= 1 /\ (d.counted = 1 => d.info)
      BY <1>1, <1>2, <2>2
    <2> QED
      BY <2>1, <2>2
  <1>3. CASE s # x
    <2>1. Broken(s) => Broken(s)'
      <3> SUFFICES ASSUME Broken(s) PROVE Broken(s)'
        OBVIOUS
      <3>1. slot[s].holder \in Borrowers /\ pc[slot[s].holder] = "broken"
        BY DEF Broken
      <3>2. slot[s].holder \in Tasks /\ slot[s].holder # None
        BY <3>1, PoolAssumption DEF Tasks
      <3>3. slot[x].holder # slot[s].holder
        BY <1>3, <3>2 DEF PoolInv, HoldersAreBusy
      <3>4. pc'[slot[s].holder] = "broken"
        BY <3>1, <3>2, <3>3 DEF PoolInv, PoolValues
      <3> QED
        BY <1>1, <1>3, <3>1, <3>4 DEF Broken
    <2> QED
      BY <1>1, <1>3, <2>1 DEF CountedSound
  <1> QED
    BY <1>2, <1>3

\* What the events make of the record of a connection.
LEMMA CountedByEvents ==
  ASSUME NEW c \in Connection
  PROVE  /\ Begin(c).counted = 0
         /\ Failure(c).counted = (IF c.info THEN c.counted ELSE c.counted + 1)
         /\ Failure(c).info
         /\ RollbackEvent(c).counted = c.counted
         /\ CommitEvent(c) = c
         /\ Returned(c).counted = 0
  <1>1. RollbackEvent(c).counted = c.counted
    BY DEF RollbackEvent, Connection
  <1>2. Returned(c).counted = 0
    <2>1. CASE c.alive
      BY <2>1 DEF Returned, Closed, Connection
    <2>2. CASE ~c.alive
      BY <2>2 DEF Returned, Fresh
    <2> QED
      BY <2>1, <2>2
  <1> QED
    BY <1>1, <1>2, BeginEvent, FailureEvent DEF CommitEvent

LEMMA FailureCounts ==
  ASSUME NEW c \in Connection, c.counted \in 0 .. 1, c.counted = 1 => c.info
  PROVE  \E d \in Connection : d = Failure(c) /\ d.counted \in 0 .. 1 /\ d.info
  <1>1. PICK d : d = Failure(c)
    OBVIOUS
  <1>2. d \in Connection /\ d.info /\ d.counted = IF c.info THEN c.counted ELSE c.counted + 1
    BY <1>1, FailureEvent, CountedByEvents
  <1>3. d.counted \in 0 .. 1
    BY <1>2
  <1> QED
    BY <1>1, <1>2, <1>3

LEMMA ReturnedCounts ==
  ASSUME NEW c \in Connection
  PROVE  \E d \in Connection : d = Returned(c) /\ d.counted \in 0 .. 1 /\ (d.counted = 1 => d.info)
  <1>1. PICK d : d = Returned(c)
    OBVIOUS
  <1>2. d \in Connection /\ d.counted = 0
    BY <1>1, ReturnedConnection, CountedByEvents
  <1> QED
    BY <1>1, <1>2

LEMMA BorrowerCounts ==
  ASSUME PoolInv, PoolCounts, NEW b \in Borrowers, BorrowerStep(b)
  PROVE  PoolCounts'
  <1> USE DEF Goto
  <1>1. b \in Tasks /\ PoolValues /\ CountedSound
    BY DEF Tasks, PoolInv, PoolCounts
  <1>2. suspended' \in BOOLEAN
    BY DEF BorrowerStep, Ask, Borrow, StatementFails, Commit, CommitFails, Rollback,
           RollbackFails, Discard, PoolCounts
  <1>3. CASE Ask(b)
    <2>1. pc[b] = "idle" /\ pc' = [pc EXCEPT ![b] = "asking"]
          /\ acquiring' = acquiring + 1 /\ UNCHANGED slot
      BY <1>3 DEF Ask
    <2> QED
      BY <1>1, <1>2, <2>1, AskingMore, CountedStays DEF PoolCounts
  <1>4. CASE Borrow(b)
    <2>1. ASSUME pc[b] = "asking", pc' = [pc EXCEPT ![b] = "idle"], acquiring' = acquiring - 1,
                 UNCHANGED slot
          PROVE  PoolCounts'
      BY <1>1, <1>2, <2>1, AskingLess, CountedStays DEF PoolCounts
    <2>2. ASSUME pc[b] = "asking", pc' = [pc EXCEPT ![b] = "busy"], acquiring' = acquiring - 1,
                 NEW s \in Slots, slot' = [slot EXCEPT ![s] = Begin(LentTo(b, @))]
          PROVE  PoolCounts'
      <3>1. slot[s] \in Connection
        BY <1>1 DEF PoolValues
      <3>2. PICK d : d = Begin(LentTo(b, slot[s]))
        OBVIOUS
      <3>3. d \in Connection /\ d.counted = 0
        BY <1>1, <3>1, <3>2, LentConnection, BeginEvent
      <3>4. slot' = [slot EXCEPT ![s] = d]
        BY <2>2, <3>2
      <3>5. CountedSound'
        <4>1. d.counted \in 0 .. 2 /\ d.counted <= 1 /\ (d.counted = 1 => d.info)
          BY <3>3
        <4>2. pc[b] # "broken"
          BY <2>2
        <4> QED
          BY <1>1, <2>2, <3>3, <3>4, <4>1, <4>2, CountedReplaced
      <3>6. acquiring' = Cardinality(Asking)'
        BY <1>1, <2>2, AskingLess
      <3> QED
        BY <1>2, <3>5, <3>6 DEF PoolCounts
    <2> QED
      BY <1>4, <2>1, <2>2 DEF Borrow, Refused
  <1>5. ASSUME pc[b] \in {"busy", "rejected", "broken"}
        PROVE  /\ Of(b) \in Slots /\ slot[Of(b)] \in Connection /\ slot[Of(b)].holder = b
               /\ slot[Of(b)].counted \in 0 .. 2
               /\ pc[b] # "broken" => slot[Of(b)].counted <= 1
                                      /\ (slot[Of(b)].counted = 1 => slot[Of(b)].info)
    <2>1. Of(b) \in Slots /\ slot[Of(b)] \in Connection /\ slot[Of(b)].holder = b
      BY <1>1, <1>5, WorkerHolds
    <2>2. pc[b] # "broken" => ~Broken(Of(b))
      BY <2>1 DEF Broken
    <2> QED
      BY <1>1, <2>1, <2>2 DEF CountedSound
  <1>6. ASSUME pc[b] \in {"busy", "rejected", "broken"},  NEW d \in Connection, slot' = [slot EXCEPT ![Of(b)] = d],
               NEW to, to # "asking", pc' = [pc EXCEPT ![b] = to], UNCHANGED acquiring,
               d.counted \in 0 .. 2,
               \/ d.counted <= 1 /\ (d.counted = 1 => d.info)
               \/ d.holder = b /\ to = "broken"
        PROVE  PoolCounts'
    <2>1. PICK x \in Slots : x = Of(b) /\ slot[x].holder = b
      BY <1>5, <1>6
    <2>2. slot' = [slot EXCEPT ![x] = d]
      BY <1>6, <2>1
    <2>3. CountedSound'
      BY <1>1, <1>6, <2>1, <2>2, CountedReplaced
    <2>4. acquiring' = Cardinality(Asking)'
      BY <1>1, <1>6, AskingSame
    <2> QED
      BY <1>2, <2>3, <2>4 DEF PoolCounts
  <1>13. ASSUME pc[b] \in {"busy", "rejected", "broken"}, NEW d \in Connection,
                slot' = [slot EXCEPT ![Of(b)] = d],
                NEW to, to # "asking", pc' = [pc EXCEPT ![b] = to], UNCHANGED acquiring,
                d.counted \in 0 .. 1, d.counted = 1 => d.info
         PROVE  PoolCounts'
    <2>1. d.counted \in 0 .. 2 /\ d.counted <= 1
      BY <1>13
    <2> QED
      BY <1>6, <1>13, <2>1
  <1>7. CASE StatementFails(b)
    <2>1. PICK c : c = slot[Of(b)]
      OBVIOUS
    <2>2. pc[b] = "busy" /\ slot' = [slot EXCEPT ![Of(b)] = Failure(c)]
          /\ UNCHANGED <<pc, acquiring>>
      BY <1>7, <2>1 DEF StatementFails
    <2>3. c \in Connection /\ c.counted \in 0 .. 1 /\ (c.counted = 1 => c.info)
      BY <1>5, <2>1, <2>2
    <2>4. PICK d \in Connection : d = Failure(c) /\ d.counted \in 0 .. 1 /\ d.info
      BY <2>3, FailureCounts
    <2>5. pc' = [pc EXCEPT ![b] = "busy"]
      BY <1>1, <2>2 DEF PoolValues
    <2> QED
      BY <1>13, <2>2, <2>4, <2>5
  <1>8. CASE Commit(b)
    <2>1. PICK c : c = slot[Of(b)]
      OBVIOUS
    <2>2. pc[b] = "busy" /\ slot' = [slot EXCEPT ![Of(b)] = Returned(c)]
          /\ pc' = [pc EXCEPT ![b] = "idle"] /\ UNCHANGED acquiring
      BY <1>8, <2>1 DEF Commit, CommitEvent
    <2>3. PICK d \in Connection : /\ d = Returned(c) /\ d.counted \in 0 .. 1
                                  /\ d.counted = 1 => d.info
      BY <1>5, <2>1, <2>2, ReturnedCounts
    <2> QED
      BY <1>13, <2>2, <2>3
  <1>9. CASE CommitFails(b)
    <2>1. PICK c : c = slot[Of(b)]
      OBVIOUS
    <2>2. pc[b] = "busy" /\ slot' = [slot EXCEPT ![Of(b)] = Failure(c)]
          /\ pc' = [pc EXCEPT ![b] = "rejected"] /\ UNCHANGED acquiring
      BY <1>9, <2>1 DEF CommitFails, CommitEvent
    <2>3. c \in Connection /\ c.counted \in 0 .. 1 /\ (c.counted = 1 => c.info)
      BY <1>5, <2>1, <2>2
    <2>4. PICK d \in Connection : d = Failure(c) /\ d.counted \in 0 .. 1 /\ d.info
      BY <2>3, FailureCounts
    <2> QED
      BY <1>13, <2>2, <2>4
  <1>10. CASE Rollback(b)
    <2>1. PICK c : c = RollbackEvent(slot[Of(b)])
      OBVIOUS
    <2>2. pc[b] = "busy" /\ slot' = [slot EXCEPT ![Of(b)] = Returned(c)]
          /\ pc' = [pc EXCEPT ![b] = "idle"] /\ UNCHANGED acquiring
      BY <1>10, <2>1 DEF Rollback
    <2>3. c \in Connection
      BY <1>5, <2>1, <2>2, RollbackEventFields
    <2>4. PICK d \in Connection : /\ d = Returned(c) /\ d.counted \in 0 .. 1
                                  /\ d.counted = 1 => d.info
      BY <2>3, ReturnedCounts
    <2> QED
      BY <1>13, <2>2, <2>4
  <1>11. CASE RollbackFails(b)
    <2>1. PICK c : c = RollbackEvent(slot[Of(b)])
      OBVIOUS
    <2>2. pc[b] = "busy" /\ slot' = [slot EXCEPT ![Of(b)] = Failure(c)]
          /\ pc' = [pc EXCEPT ![b] = "broken"] /\ UNCHANGED acquiring
      BY <1>11, <2>1 DEF RollbackFails
    <2>3. PICK e : e = slot[Of(b)]
      OBVIOUS
    <2>4. e \in Connection /\ e.counted \in 0 .. 1 /\ e.holder = b
      BY <1>5, <2>2, <2>3
    <2>5. c \in Connection /\ c.counted = e.counted /\ c.holder = b
      BY <2>1, <2>3, <2>4, RollbackEventFields, CountedByEvents
    <2>6. PICK d : d = Failure(c)
      OBVIOUS
    <2>7. /\ d \in Connection /\ d.holder = b
          /\ d.counted = IF c.info THEN c.counted ELSE c.counted + 1
      BY <2>5, <2>6, FailureEvent
    <2>8. d.counted \in 0 .. 2
      BY <2>4, <2>5, <2>7
    <2> QED
      BY <1>6, <2>2, <2>6, <2>7, <2>8
  <1>12. CASE Discard(b)
    <2>1. PICK c : c = slot[Of(b)]
      OBVIOUS
    <2>2. pc[b] \in {"rejected", "broken"} /\ slot' = [slot EXCEPT ![Of(b)] = Returned(c)]
          /\ pc' = [pc EXCEPT ![b] = "idle"] /\ UNCHANGED acquiring
      BY <1>12, <2>1 DEF Discard
    <2>3. PICK d \in Connection : /\ d = Returned(c) /\ d.counted \in 0 .. 1
                                  /\ d.counted = 1 => d.info
      BY <1>5, <2>1, <2>2, ReturnedCounts
    <2> QED
      BY <1>13, <2>2, <2>3
  <1> QED
    BY <1>3, <1>4, <1>7, <1>8, <1>9, <1>10, <1>11, <1>12 DEF BorrowerStep

LEMMA ProbeCounts ==
  ASSUME PoolInv, PoolCounts, NEW p \in Probes, Check(p) \/ ProbeStep(p) \/ Answer(p) \/ Again(p)
  PROVE  PoolCounts'
  <1> USE DEF Goto
  <1>1. p \in Tasks /\ p \notin Borrowers /\ PoolValues /\ CountedSound
    BY PoolAssumption DEF Tasks, PoolInv, PoolCounts
  <1>2. suspended' \in BOOLEAN
    BY DEF Check, ProbeStep, Lease, LeaseRefused, Drive, Select, Interrupt, Close, Resume,
           Answer, Again, PoolCounts
  <1>3. p \in Tasks /\ pc[p] # "broken"
    <2>1. CASE pc[p] = "broken"
      BY <2>1 DEF Check, ProbeStep, Lease, LeaseRefused, Drive, Select, Interrupt, Close, Resume,
                  Answer, Again
    <2> QED
      BY <1>1, <2>1
  <1>4. ASSUME pc[p] \in {"leased", "driven", "closing", "abandoned"}
        PROVE  /\ Of(p) \in Slots /\ slot[Of(p)] \in Connection /\ slot[Of(p)].holder = p
               /\ slot[Of(p)].counted \in 0 .. 1
               /\ slot[Of(p)].counted = 1 => slot[Of(p)].info
    <2>1. Of(p) \in Slots /\ slot[Of(p)] \in Connection /\ slot[Of(p)].holder = p
      BY <1>1, <1>4, WorkerHolds
    <2>2. ~Broken(Of(p))
      BY <1>1, <2>1 DEF Broken
    <2> QED
      BY <1>1, <2>1, <2>2 DEF CountedSound
  <1>5. ASSUME NEW x \in Slots, NEW d \in Connection, slot' = [slot EXCEPT ![x] = d],
               NEW to, to # "asking", pc' = [pc EXCEPT ![p] = to],
               IF pc[p] = "asking" THEN acquiring' = acquiring - 1 ELSE UNCHANGED acquiring,
               d.counted \in 0 .. 1, d.counted = 1 => d.info
        PROVE  PoolCounts'
    <2>1. CountedSound'
      <3>1. d.counted \in 0 .. 2 /\ d.counted <= 1
        BY <1>5
      <3> QED
        BY <1>1, <1>3, <1>5, <3>1, CountedReplaced
    <2>2. acquiring' = Cardinality(Asking)'
      BY <1>1, <1>5, AskingSame, AskingLess
    <2> QED
      BY <1>2, <2>1, <2>2 DEF PoolCounts
  <1>6. ASSUME NEW to, to # "asking", pc' = [pc EXCEPT ![p] = to], UNCHANGED slot,
               IF pc[p] = "asking" THEN acquiring' = acquiring - 1 ELSE UNCHANGED acquiring
        PROVE  PoolCounts'
    <2>1. CountedSound'
      BY <1>1, <1>3, <1>6, CountedStays
    <2>2. acquiring' = Cardinality(Asking)'
      BY <1>1, <1>6, AskingSame, AskingLess
    <2> QED
      BY <1>2, <2>1, <2>2 DEF PoolCounts
  <1>7. CASE Check(p)
    <2>1. pc[p] = "idle" /\ pc' = [pc EXCEPT ![p] = "asking"]
          /\ acquiring' = acquiring + 1 /\ UNCHANGED slot
      BY <1>7 DEF Check
    <2> QED
      BY <1>1, <1>2, <2>1, AskingMore, CountedStays DEF PoolCounts
  <1>8. CASE Lease(p)
    <2>1. PICK s \in Slots : /\ slot' = [slot EXCEPT ![s] = LentTo(p, slot[s])]
                             /\ acquiring' = acquiring - 1 /\ slot[s].holder = None
      BY <1>8 DEF Lease, Lend, Usable
    <2>2. pc[p] = "asking" /\ pc' = [pc EXCEPT ![p] = "leased"]
      BY <1>8 DEF Lease
    <2>3. slot[s] \in Connection /\ slot[s].counted \in 0 .. 2
          /\ (~Broken(s) => slot[s].counted <= 1 /\ (slot[s].counted = 1 => slot[s].info))
      BY <1>1 DEF PoolValues, CountedSound
    <2>4. ~Broken(s)
      BY <2>1, PoolAssumption DEF Broken, Tasks
    <2>5. PICK d : d = LentTo(p, slot[s])
      OBVIOUS
    <2>6. d \in Connection
      BY <1>1, <2>3, <2>5, LentConnection
    <2>7. d.counted \in 0 .. 1 /\ (d.counted = 1 => d.info)
      BY <2>3, <2>4, <2>5 DEF LentTo, Fresh, Connection
    <2> QED
      BY <1>5, <2>1, <2>2, <2>5, <2>6, <2>7
  <1>9. CASE LeaseRefused(p)
    <2>1. pc[p] = "asking" /\ pc' = [pc EXCEPT ![p] = "done"] /\ acquiring' = acquiring - 1
          /\ UNCHANGED slot
      BY <1>9 DEF LeaseRefused, Refused
    <2> QED
      BY <1>6, <2>1
  <1>10. CASE Drive(p)
    <2>1. PICK d : d = Begin(slot[Of(p)])
      OBVIOUS
    <2>2. pc[p] = "leased" /\ slot' = [slot EXCEPT ![Of(p)] = d]
          /\ pc' = [pc EXCEPT ![p] = "driven"] /\ UNCHANGED acquiring
      BY <1>10, <2>1 DEF Drive
    <2>3. d \in Connection /\ d.counted = 0 /\ Of(p) \in Slots
      BY <1>4, <2>1, <2>2, BeginEvent
    <2>4. d.counted \in 0 .. 1 /\ (d.counted = 1 => d.info)
      BY <2>3
    <2> QED
      BY <1>5, <2>2, <2>3, <2>4
  <1>11. CASE Select(p) \/ Resume(p)
    <2>1. /\ pc[p] # "asking" /\ pc' \in {[pc EXCEPT ![p] = "closing"], [pc EXCEPT ![p] = "done"]}
          /\ UNCHANGED <<slot, acquiring>>
      BY <1>11 DEF Select, Resume
    <2> QED
      BY <1>6, <2>1
  <1>12. CASE Interrupt(p)
    <2>1. /\ pc[p] \in {"leased", "driven"} /\ pc' = [pc EXCEPT ![p] = "closing"]
          /\ UNCHANGED acquiring
          /\ UNCHANGED slot \/ slot' = [slot EXCEPT ![Of(p)] = Failure(slot[Of(p)])]
      BY <1>12 DEF Interrupt
    <2>2. CASE UNCHANGED slot
      BY <1>6, <2>1, <2>2
    <2>3. CASE slot' = [slot EXCEPT ![Of(p)] = Failure(slot[Of(p)])]
      <3>1. PICK c : c = slot[Of(p)]
        OBVIOUS
      <3>2. c \in Connection /\ c.counted \in 0 .. 1 /\ (c.counted = 1 => c.info)
            /\ Of(p) \in Slots
        BY <1>4, <2>1, <3>1
      <3>3. PICK d \in Connection : d = Failure(c) /\ d.counted \in 0 .. 1 /\ d.info
        BY <3>2, FailureCounts
      <3>4. slot' = [slot EXCEPT ![Of(p)] = d]
        BY <2>3, <3>1, <3>3
      <3> QED
        BY <1>5, <2>1, <3>2, <3>3, <3>4
    <2> QED
      BY <2>1, <2>2, <2>3
  <1>13. CASE Close(p)
    <2>1. PICK c, to : c = RollbackEvent(slot[Of(p)])
                       /\ to = IF pc[p] = "closing" THEN "returned" ELSE "done"
      OBVIOUS
    <2>2. /\ pc[p] \in {"closing", "abandoned"}
          /\ slot' = [slot EXCEPT ![Of(p)] = Returned(c)]
          /\ pc' = [pc EXCEPT ![p] = to]
          /\ UNCHANGED acquiring
      BY <1>13, <2>1 DEF Close
    <2>3. c \in Connection /\ Of(p) \in Slots
      BY <1>4, <2>1, <2>2, RollbackEventFields
    <2>4. PICK d \in Connection : /\ d = Returned(c) /\ d.counted \in 0 .. 1
                                  /\ d.counted = 1 => d.info
      BY <2>3, ReturnedCounts
    <2>5. to # "asking" /\ pc[p] # "asking"
      BY <2>1, <2>2
    <2> QED
      BY <1>5, <2>2, <2>3, <2>4, <2>5
  <1>14. CASE Answer(p)
    <2>1. UNCHANGED <<slot, pc, acquiring, suspended>>
      BY <1>14 DEF Answer
    <2> QED
      BY <2>1 DEF PoolCounts, CountedSound, Broken, Asking
  <1>15. CASE Again(p)
    <2>1. pc[p] = "done" /\ pc' = [pc EXCEPT ![p] = "idle"] /\ UNCHANGED <<slot, acquiring>>
      BY <1>15 DEF Again
    <2> QED
      BY <1>6, <2>1
  <1> QED
    BY <1>7, <1>8, <1>9, <1>10, <1>11, <1>12, <1>13, <1>14, <1>15 DEF ProbeStep

LEMMA TimeoutCounts ==
  ASSUME PoolInv, PoolCounts, NEW p \in Probes, Timeout(p)
  PROVE  PoolCounts'
  <1>1. /\ slot' = [s \in Slots |-> IF s \in Terminates(p) THEN [slot[s] EXCEPT !.alive = FALSE]
                                    ELSE slot[s]]
        /\ pc' = IF pc[p] = "closing" THEN [pc EXCEPT ![p] = "abandoned"] ELSE pc
        /\ UNCHANGED <<suspended, acquiring>>
    BY DEF Timeout
  <1>2. PoolValues /\ p \in Tasks /\ p \notin Borrowers
    BY PoolAssumption DEF PoolInv, Tasks
  <1>3. Asking' = Asking
    BY <1>1, <1>2 DEF Asking, PoolValues
  <1>4. CountedSound'
    <2> SUFFICES ASSUME NEW s \in Slots
                 PROVE  /\ slot'[s].counted \in 0 .. 2
                        /\ ~Broken(s)' => slot'[s].counted <= 1
                                          /\ (slot'[s].counted = 1 => slot'[s].info)
      BY DEF CountedSound
    <2>1. slot[s] \in Connection
      BY <1>2 DEF PoolValues
    <2>2. slot'[s] = slot[s] \/ slot'[s] = [slot[s] EXCEPT !.alive = FALSE]
      BY <1>1
    <2>3. /\ slot'[s].counted = slot[s].counted /\ slot'[s].info = slot[s].info
          /\ slot'[s].holder = slot[s].holder
      BY <2>1, <2>2 DEF Connection
    <2>4. Broken(s) => Broken(s)'
      <3> SUFFICES ASSUME Broken(s) PROVE Broken(s)'
        OBVIOUS
      <3>1. slot[s].holder \in Borrowers /\ pc[slot[s].holder] = "broken"
        BY DEF Broken
      <3>2. pc'[slot[s].holder] = "broken"
        BY <1>1, <1>2, <3>1 DEF PoolValues, Tasks
      <3> QED
        BY <2>3, <3>1, <3>2 DEF Broken
    <2> QED
      BY <2>3, <2>4 DEF PoolCounts, CountedSound
  <1> QED
    BY <1>1, <1>3, <1>4 DEF PoolCounts

LEMMA PoolCountsInvariant == Spec => []PoolCounts
  <1>1. Init => PoolCounts
    <2> SUFFICES ASSUME Init PROVE PoolCounts
      OBVIOUS
    <2>1. Asking = {}
      BY DEF Init, Asking
    <2>2. \A s \in Slots : slot[s].counted = 0
      BY DEF Init, Fresh
    <2>3. acquiring = Cardinality(Asking) /\ suspended \in BOOLEAN
      BY <2>1, FS_EmptySet DEF Init
    <2> QED
      BY <2>2, <2>3 DEF PoolCounts, CountedSound
  <1>2. PoolInv /\ PoolCounts /\ [Next]_vars => PoolCounts'
    <2> SUFFICES ASSUME PoolInv, PoolCounts, [Next]_vars PROVE PoolCounts'
      OBVIOUS
    <2>1. ASSUME UNCHANGED <<slot, pc, acquiring>>, suspended' \in BOOLEAN PROVE PoolCounts'
      BY <2>1 DEF PoolCounts, CountedSound, Broken, Asking
    <2>2. CASE Suspend
      BY <2>1, <2>2 DEF Suspend
    <2>3. CASE UNCHANGED vars
      BY <2>1, <2>3 DEF vars, PoolCounts
    <2> QED
      BY <2>2, <2>3, BorrowerCounts, ProbeCounts, TimeoutCounts DEF Next
  <1> QED
    BY <1>1, <1>2, PoolInvariance, PTL DEF Spec

LEMMA PoolTypes == ASSUME PoolInv, PoolCounts PROVE PoolTypeOK
  <1>1. ASSUME NEW t \in Tasks PROVE Cardinality(Held(t)) <= 1
    <2>1. \A r, s \in Held(t) : r = s
      BY PoolAssumption DEF Held, PoolInv, HoldersAreBusy
    <2>2. CASE Held(t) = {}
      BY <2>2, FS_EmptySet
    <2>3. CASE Held(t) # {}
      <3>1. PICK s : s \in Held(t)
        BY <2>3
      <3>2. Held(t) = {s}
        BY <2>1, <3>1
      <3> QED
        BY <3>2, FS_Singleton
    <2> QED
      BY <2>2, <2>3
  <1>2. \A s \in Slots : slot[s].holder \in Tasks \cup {None}
    BY DEF PoolInv, PoolValues, Connection
  <1> QED
    BY <1>1, <1>2 DEF PoolTypeOK, PoolCounts, CountedSound, Asking

-----------------------------------------------------------------------------
(* What the construction of a pipeline leaves to be taken down *)

LEMMA ConstructionSteps ==
  /\ T!Construction[1] = T!Step({"traces"}, "traces", {})
  /\ T!Construction[2] = T!Step({"traceExporter"}, "traceExporter", {})
  /\ T!Construction[3] = T!Step({"traceProcessor"}, "traceProcessor", {"traceExporter"})
  /\ T!Construction[4] = T!Step({}, "traces", {"traceProcessor"})
  /\ T!Construction[5] = T!Step({"logs"}, "logs", {})
  /\ T!Construction[6] = T!Step({"logExporter"}, "logExporter", {})
  /\ T!Construction[7] = T!Step({"logProcessor"}, "logProcessor", {"logExporter"})
  /\ T!Construction[8] = T!Step({}, "logs", {"logProcessor"})
  /\ T!Construction[9] = T!Step({"metricExporter"}, "metricExporter", {})
  /\ T!Construction[10] = T!Step({"reader"}, "reader", {"metricExporter"})
  /\ T!Construction[11] = T!Step({"metrics"}, "metrics", {"reader"})
  /\ T!Construction[12] = T!Step({}, "metrics", {})
  /\ DOMAIN T!Construction = 1 .. 12 /\ Len(T!Construction) = 12
  BY DEF T!Construction

\* A resource is adopted by one that was made before, and what adopts in turn is a provider.
LEMMA Adoptions ==
  /\ \A i \in 1 .. 12 : T!Construction[i].adopts # {} =>
        \E j \in 1 .. i : T!Construction[i].parent \in T!Construction[j].makes
  /\ \A i, j \in 1 .. 12 : T!Construction[i].adopts # {} /\
        T!Construction[i].parent \in T!Construction[j].adopts =>
        T!Construction[j].parent \in T!Providers
  <1> DEFINE C == T!Construction
  <1>1. /\ C[1].makes = {"traces"} /\ C[1].adopts = {}
        /\ C[2].adopts = {} /\ C[5].adopts = {} /\ C[6].adopts = {}
        /\ C[9].adopts = {} /\ C[12].adopts = {}
        /\ C[3].makes = {"traceProcessor"} /\ C[3].parent = "traceProcessor"
        /\ C[3].adopts = {"traceExporter"}
        /\ C[4].parent = "traces" /\ C[4].adopts = {"traceProcessor"}
        /\ C[5].makes = {"logs"}
        /\ C[7].makes = {"logProcessor"} /\ C[7].parent = "logProcessor"
        /\ C[7].adopts = {"logExporter"}
        /\ C[8].parent = "logs" /\ C[8].adopts = {"logProcessor"}
        /\ C[10].makes = {"reader"} /\ C[10].parent = "reader"
        /\ C[10].adopts = {"metricExporter"}
        /\ C[11].makes = {"metrics"} /\ C[11].parent = "metrics" /\ C[11].adopts = {"reader"}
    BY ConstructionSteps DEF T!Step
  <1> HIDE DEF C
  <1>2. \A i \in 1 .. 12 : C[i].adopts # {} => i \in {3, 4, 7, 8, 10, 11}
    BY <1>1
  <1>3. \A i \in 1 .. 12 : C[i].adopts # {} => \E j \in 1 .. i : C[i].parent \in C[j].makes
    <2>1. ASSUME NEW i \in 1 .. 12, C[i].adopts # {} PROVE \E j \in 1 .. i : C[i].parent \in C[j].makes
      <3>1. i \in {3, 4, 7, 8, 10, 11}
        BY <1>2, <2>1
      <3>2. CASE i \in {3, 7, 10, 11}
        BY <1>1, <3>2
      <3>3. CASE i = 4
        <4>1. 1 \in 1 .. i /\ C[i].parent \in C[1].makes
          BY <1>1, <3>3
        <4> QED
          BY <4>1
      <3>4. CASE i = 8
        <4>1. 5 \in 1 .. i /\ C[i].parent \in C[5].makes
          BY <1>1, <3>4
        <4> QED
          BY <4>1
      <3> QED
        BY <3>1, <3>2, <3>3, <3>4
    <2> QED
      BY <2>1
  <1>4. ASSUME NEW i \in 1 .. 12, NEW j \in 1 .. 12, C[i].adopts # {}, C[i].parent \in C[j].adopts
        PROVE  C[j].parent \in T!Providers
    <2>1. i \in {3, 4, 7, 8, 10, 11} /\ j \in {3, 4, 7, 8, 10, 11}
      BY <1>2, <1>4
    <2>2. C[i].parent \in {"traceProcessor", "traces", "logProcessor", "logs", "reader", "metrics"}
      BY <1>1, <2>1
    <2>3. j \in {4, 8, 11}
      BY <1>1, <1>4, <2>1, <2>2
    <2> QED
      BY <1>1, <2>3 DEF T!Providers
  <1> QED
    BY <1>3, <1>4 DEF C

\* Whatever step the construction reached, shutdown() visits every resource that was made,
\* or one that takes it down.
LEMMA VisitedCoverMade ==
  ASSUME NEW k \in 0 .. 12
  PROVE  /\ T!Made(k) \subseteq UNION {T!Below(k, r) : r \in T!Visited(k)}
         /\ T!Made(k) \subseteq T!Resources /\ T!Visited(k) \subseteq T!Resources
  <1> DEFINE C == T!Construction
  <1>1. T!Made(k) = UNION {C[i].makes : i \in 1 .. k}
        /\ T!Adopted(k) = UNION {C[i].adopts : i \in 1 .. k}
    BY DEF T!Made, T!Adopted
  <1>2. \A i \in 1 .. k : i \in 1 .. 12
    OBVIOUS
  <1>3. \A q, cs : \A i \in 1 .. k : C[i].parent \in cs /\ q \in C[i].adopts => q \in T!Children(k, cs)
    BY DEF T!Children
  <1>4. ASSUME NEW r \in T!Made(k) PROVE r \in T!Visited(k) \/ \E i \in 1 .. k : r \in C[i].adopts
    BY <1>1 DEF T!Visited, T!Pending
  <1>5. ASSUME NEW r \in T!Made(k)
        PROVE  \E v \in T!Visited(k) : r \in T!Below(k, v)
    <2>1. CASE r \in T!Visited(k)
      <3>1. r \in T!Below(k, r)
        BY DEF T!Below
      <3> QED
        BY <2>1, <3>1
    <2>2. ASSUME NEW i \in 1 .. k, r \in C[i].adopts PROVE \E v \in T!Visited(k) : r \in T!Below(k, v)
      <3>1. PICK q : q = C[i].parent
        OBVIOUS
      <3>2. \E j \in 1 .. i : q \in C[j].makes
        BY <1>2, <2>2, <3>1, Adoptions
      <3>3. q \in T!Made(k)
        BY <1>1, <3>2
      <3>4. r \in T!Children(k, {q})
        BY <1>3, <2>2, <3>1
      <3>5. CASE q \in T!Visited(k)
        BY <3>4, <3>5 DEF T!Below
      <3>6. ASSUME NEW j \in 1 .. k, q \in C[j].adopts
            PROVE  \E v \in T!Visited(k) : r \in T!Below(k, v)
        <4>1. PICK p : p = C[j].parent
          OBVIOUS
        <4>2. p \in T!Providers
          BY <1>2, <2>2, <3>1, <3>6, <4>1, Adoptions
        <4>3. \E m \in 1 .. j : p \in C[m].makes
          BY <1>2, <3>6, <4>1, Adoptions
        <4>4. p \in T!Made(k)
          BY <1>1, <4>3
        <4>5. p \in T!Visited(k)
          BY <4>2, <4>4 DEF T!Visited
        <4>6. q \in T!Children(k, {p})
          BY <1>3, <3>6, <4>1
        <4>7. r \in T!Children(k, T!Children(k, {p}))
          BY <1>3, <2>2, <3>1, <4>6
        <4> QED
          BY <4>5, <4>7 DEF T!Below
      <3> QED
        BY <1>4, <3>3, <3>5, <3>6
    <2> QED
      BY <1>4, <2>1, <2>2
  <1>6. T!Made(k) \subseteq T!Resources
    BY <1>2, ConstructionSteps DEF T!Made, T!Resources
  <1>7. T!Visited(k) \subseteq T!Made(k)
    BY DEF T!Visited, T!Pending
  <1> QED
    BY <1>5, <1>6, <1>7

-----------------------------------------------------------------------------
(* The inductive invariant of the pipeline, the adapters and the observations *)

Places == {"new", "acquired", "running", "closing", "unregistered", "waiting", "ended"}

Entered == {l \in Lifespans : place[l] # "new"}

Holders == {l \in Lifespans : held[l] # None}

\* Every lifespan builds one pipeline at most.
PipeValues ==
    /\ runtime \in T!Runtimes \cup {None} /\ retiring \in T!Runtimes \cup {None}
    /\ live \in [T!Runtimes -> SUBSET T!Resources]
    /\ place \in [Lifespans -> Places]
    /\ held \in [Lifespans -> T!Runtimes \cup {None}]
    /\ open \in [Lifespans -> BOOLEAN]
    /\ runtimes \in Nat /\ runtimes <= Cardinality(Entered)

Shutdown == [steps : 0 .. 12, left : SUBSET T!Resources, complete : BOOLEAN]

\* Either the current pipeline is complete, or the thread that takes the last one down has
\* still to visit whatever is above its running resources, unless a cleanup failed.
CycleSound ==
    /\ retired \in BOOLEAN /\ (retired <=> retiring = None)
    /\ runtime # None => retired /\ live[runtime] = T!Resources
    /\ \A r \in T!Runtimes : live[r] # {} => r \in {runtime, retiring}
    /\ thread # None =>
         /\ ~retired /\ thread \in Shutdown
         /\ thread.complete =>
              live[retiring] \subseteq UNION {T!Below(thread.steps, r) : r \in thread.left}

OwnersSound ==
    /\ owners = Cardinality(Holders)
    /\ \A l \in Lifespans : held[l] # None => held[l] = runtime /\ place[l] # "new"

\* The registered adapters are those of the lifespans between the two ends.
AdaptersSound ==
    /\ redisLifespans \in Seq(Lifespans)
    /\ \A i, j \in DOMAIN redisLifespans : redisLifespans[i] = redisLifespans[j] => i = j
    /\ \A l \in Lifespans : place[l] \in {"running", "closing"}
                              <=> \E i \in DOMAIN redisLifespans : redisLifespans[i] = l
    /\ redis = T!Newest(redisLifespans)
    /\ \A l \in Lifespans : place[l] \in {"acquired", "running"} => open[l]

Observation == [in : Lifespans, runtime : T!Runtimes \cup {None}, progress : T!Progress]

CountedUnder(r) == {q \in Tasks : req[q] # None /\ req[q].runtime = r /\ req[q].progress = "counted"}
SpansUnder(r) == {q \in Tasks : req[q] # None /\ req[q].runtime = r /\ req[q].progress # "nothing"}

ObservationsSound ==
    /\ \A q \in Tasks : req[q] # None /\ req[q].runtime = None => req[q].progress = "nothing"
    /\ req \in [Tasks -> Observation \cup {None}]
    /\ inflight \in [T!Runtimes -> Int] /\ spans \in [T!Runtimes -> Int]
    /\ \A r \in T!Runtimes : /\ inflight[r] = Cardinality(CountedUnder(r))
                             /\ spans[r] = Cardinality(SpansUnder(r))

PipeInv == PipeValues /\ CycleSound /\ OwnersSound /\ AdaptersSound /\ ObservationsSound

LEMMA RuntimesAre ==
  /\ Cardinality(Lifespans) \in Nat
  /\ T!Runtimes = 1 .. Cardinality(Lifespans) /\ None \notin T!Runtimes
  <1>1. IsFiniteSet(Lifespans) /\ None \notin T!Runtimes
    BY ProcessAssumption
  <1>2. Cardinality(Lifespans) \in Nat
    BY <1>1, FS_CardinalityType
  <1>3. T!Runtimes = 1 .. Cardinality(Lifespans)
    BY DEF T!Runtimes, T!Cardinality, Cardinality
  <1> QED
    BY <1>1, <1>2, <1>3

LEMMA CycleStays ==
  ASSUME CycleSound, UNCHANGED <<runtime, retiring, retired, thread, live>>
  PROVE  CycleSound'
  BY DEF CycleSound

LEMMA OwnersStay ==
  ASSUME OwnersSound, UNCHANGED <<owners, held, runtime>>,
         \A l \in Lifespans : place[l] # "new" => place'[l] # "new"
  PROVE  OwnersSound'
  <1>1. Holders' = Holders
    BY DEF Holders
  <1> QED
    BY <1>1 DEF OwnersSound

LEMMA ObservationsStay ==
  ASSUME ObservationsSound, UNCHANGED <<req, inflight, spans>>
  PROVE  ObservationsSound'
  BY DEF ObservationsSound, CountedUnder, SpansUnder

LEMMA PipeStays ==
  ASSUME PipeInv, UNCHANGED telemetry
  PROVE  PipeInv'
  <1>1. UNCHANGED <<runtime, owners, retiring, retired, thread, runtimes, live, place, held,
                    open, redisLifespans, redis, req, inflight, spans>>
    BY DEF telemetry
  <1>2. PipeValues'
    BY <1>1 DEF PipeInv, PipeValues, Entered
  <1>3. AdaptersSound'
    BY <1>1 DEF PipeInv, AdaptersSound, T!Newest
  <1> QED
    BY <1>1, <1>2, <1>3, CycleStays, OwnersStay, ObservationsStay DEF PipeInv

\* A lifespan that was entered goes on, and what it builds or holds is left alone.
LEMMA ValuesStay ==
  ASSUME PipeInv, UNCHANGED <<runtime, retiring, live, runtimes>>, NEW l \in Lifespans,
         NEW to \in Places \ {"new"}, place' = [place EXCEPT ![l] = to], place[l] # "new",
         held' \in [Lifespans -> T!Runtimes \cup {None}],
         open' \in [Lifespans -> BOOLEAN]
  PROVE  PipeValues' /\ \A m \in Lifespans : place[m] # "new" => place'[m] # "new"
  <1>1. place \in [Lifespans -> Places]
    BY DEF PipeInv, PipeValues
  <1>2. place' \in [Lifespans -> Places] /\ \A m \in Lifespans : place[m] # "new" <=> place'[m] # "new"
    BY <1>1
  <1>3. Entered' = Entered
    BY <1>2 DEF Entered
  <1> QED
    BY <1>2, <1>3 DEF PipeInv, PipeValues

\* A lifespan moves and keeps its adapter where it is.
LEMMA AdaptersStay ==
  ASSUME AdaptersSound, PipeValues, UNCHANGED <<redisLifespans, redis>>,
         NEW l \in Lifespans, NEW to, place' = [place EXCEPT ![l] = to],
         place[l] \in {"running", "closing"} <=> to \in {"running", "closing"},
         \A m \in Lifespans : m # l => open'[m] = open[m],
         to \in {"acquired", "running"} => open'[l]
  PROVE  AdaptersSound'
  <1>1. place'[l] = to /\ \A m \in Lifespans : m # l => place'[m] = place[m]
    BY DEF PipeValues
  <1>2. T!Newest(redisLifespans)' = T!Newest(redisLifespans)
    BY DEF T!Newest
  <1>3. \A m \in Lifespans : place'[m] \in {"running", "closing"}
                              <=> \E i \in DOMAIN redisLifespans : redisLifespans[i] = m
    BY <1>1 DEF AdaptersSound
  <1>4. \A m \in Lifespans : place'[m] \in {"acquired", "running"} => open'[m]
    BY <1>1 DEF AdaptersSound
  <1> QED
    BY <1>2, <1>3, <1>4 DEF AdaptersSound

-----------------------------------------------------------------------------
(* Lifespans *)

LEMMA EnteredFinite == IsFiniteSet(Entered) /\ IsFiniteSet(Holders)
  <1>1. Entered \subseteq Lifespans /\ Holders \subseteq Lifespans
    BY DEF Entered, Holders
  <1> QED
    BY <1>1, ProcessAssumption, FS_Subset

\* The next pipeline of a lifespan that was not entered has a number.
LEMMA FreshRuntime ==
  ASSUME PipeInv, NEW l \in Lifespans, place[l] = "new"
  PROVE  T!Fresh \in T!Runtimes /\ T!Fresh = runtimes + 1
  <1>1. Cardinality(Entered) + 1 <= Cardinality(Lifespans)
    <2>1. Entered \cup {l} \subseteq Lifespans /\ l \notin Entered
      BY DEF Entered
    <2>2. Cardinality(Entered \cup {l}) = Cardinality(Entered) + 1
      BY <2>1, EnteredFinite, FS_AddElement
    <2> QED
      BY <2>1, <2>2, ProcessAssumption, FS_Subset
  <1>2. Cardinality(Entered) \in Nat
    BY EnteredFinite, FS_CardinalityType
  <1>3. runtimes \in Nat /\ runtimes <= Cardinality(Entered)
    BY DEF PipeInv, PipeValues
  <1> QED
    BY <1>1, <1>2, <1>3, RuntimesAre DEF T!Fresh

\* The shutdown of what k steps built, if its thread starts.
LEMMA ThreadStarts ==
  ASSUME NEW k \in 0 .. 12, NEW vs, vs = T!Visited(k), NEW th,
         th \in {None, [steps |-> k, left |-> vs, complete |-> TRUE]}
  PROVE  th # None => th.steps = k /\ th.left = vs /\ th \in Shutdown
  <1>1. vs \subseteq T!Resources
    BY VisitedCoverMade
  <1>2. [steps |-> k, left |-> vs, complete |-> TRUE] \in Shutdown
    BY <1>1 DEF Shutdown
  <1>3. ASSUME th # None PROVE th.steps = k /\ th.left = vs /\ th \in Shutdown
    <2>1. th = [steps |-> k, left |-> vs, complete |-> TRUE]
      BY <1>3
    <2>2. th \in Shutdown
      BY <1>2, <2>1, Zenon
    <2>3. th.steps = k /\ th.left = vs
      BY <2>1
    <2> QED
      BY <2>2, <2>3
  <1> QED
    BY <1>3

LEMMA AcquireStep ==
  ASSUME PipeInv, NEW l \in Lifespans, T!Acquire(l)
  PROVE  PipeInv'
  <1>1. /\ place[l] = "new" /\ place' = [place EXCEPT ![l] = "acquired"]
        /\ open' = [open EXCEPT ![l] = TRUE]
        /\ UNCHANGED <<redisLifespans, redis, req, inflight, spans>>
    BY DEF T!Acquire, T!Goto, T!reqVars
  <1>2. /\ place \in [Lifespans -> Places] /\ held \in [Lifespans -> T!Runtimes \cup {None}]
        /\ open \in [Lifespans -> BOOLEAN] /\ live \in [T!Runtimes -> SUBSET T!Resources]
        /\ runtime \in T!Runtimes \cup {None} /\ retiring \in T!Runtimes \cup {None}
    BY DEF PipeInv, PipeValues
  <1>3. /\ place' \in [Lifespans -> Places] /\ open' \in [Lifespans -> BOOLEAN]
        /\ place'[l] = "acquired" /\ \A m \in Lifespans : m # l => place'[m] = place[m]
    BY <1>1, <1>2 DEF Places
  <1>4. Entered' = Entered \cup {l} /\ l \notin Entered
    BY <1>1, <1>3 DEF Entered
  <1>5. Cardinality(Entered)' = Cardinality(Entered) + 1 /\ Cardinality(Entered) \in Nat
    BY <1>4, EnteredFinite, FS_AddElement, FS_CardinalityType
  <1>6. runtimes \in Nat /\ runtimes <= Cardinality(Entered)
    BY DEF PipeInv, PipeValues
  <1>7. AdaptersSound' /\ ObservationsSound'
    <2>1. "acquired" \notin {"running", "closing"} /\ place[l] \notin {"running", "closing"}
      BY <1>1
    <2>2. open'[l] /\ \A m \in Lifespans : m # l => open'[m] = open[m]
      BY <1>1, <1>2
    <2> QED
      BY <1>1, <2>1, <2>2, AdaptersStay, ObservationsStay DEF PipeInv
  <1>8. held[l] = None
    BY <1>1 DEF PipeInv, OwnersSound
  <1>9. CASE UNCHANGED <<runtime, owners, retiring, retired, thread, runtimes, live, held>>
    <2>1. PipeValues'
      BY <1>2, <1>3, <1>5, <1>6, <1>9 DEF PipeValues
    <2>2. OwnersSound'
      BY <1>3, <1>9, OwnersStay DEF PipeInv
    <2> QED
      BY <1>7, <1>9, <2>1, <2>2, CycleStays DEF PipeInv
  <1>10. ASSUME NEW r \in T!Runtimes, owners' = owners + 1, held' = [held EXCEPT ![l] = r],
                runtime' = r, \A m \in Lifespans : held[m] # None => held[m] = r
         PROVE  OwnersSound' /\ held' \in [Lifespans -> T!Runtimes \cup {None}]
    <2>1. r # None
      BY RuntimesAre
    <2>2. /\ held'[l] = r /\ \A m \in Lifespans : m # l => held'[m] = held[m]
          /\ held' \in [Lifespans -> T!Runtimes \cup {None}]
      BY <1>2, <1>10
    <2>3. Holders' = Holders \cup {l} /\ l \notin Holders
      BY <1>8, <2>1, <2>2 DEF Holders
    <2>4. Cardinality(Holders)' = Cardinality(Holders) + 1
      BY <2>3, EnteredFinite, FS_AddElement
    <2>5. owners' = Cardinality(Holders)'
      BY <1>10, <2>4 DEF PipeInv, OwnersSound
    <2>6. \A m \in Lifespans : held'[m] # None => held'[m] = runtime' /\ place'[m] # "new"
      BY <1>3, <1>10, <2>2 DEF PipeInv, OwnersSound
    <2> QED
      BY <2>2, <2>5, <2>6 DEF OwnersSound
  <1>11. CASE /\ T!Available /\ runtime # None /\ owners' = owners + 1
              /\ held' = [held EXCEPT ![l] = runtime]
              /\ UNCHANGED <<runtime, retiring, retired, thread, runtimes, live>>
    <2>1. runtime \in T!Runtimes /\ \A m \in Lifespans : held[m] # None => held[m] = runtime
      BY <1>2, <1>11 DEF PipeInv, OwnersSound
    <2>2. OwnersSound' /\ held' \in [Lifespans -> T!Runtimes \cup {None}]
      BY <1>10, <1>11, <2>1
    <2>3. PipeValues'
      BY <1>2, <1>3, <1>5, <1>6, <1>11, <2>2 DEF PipeValues
    <2> QED
      BY <1>7, <1>11, <2>2, <2>3, CycleStays DEF PipeInv
  <1>12. PICK f : f = T!Fresh
    OBVIOUS
  <1>13. f \in T!Runtimes /\ f = runtimes + 1 /\ f # None
    BY <1>1, <1>12, FreshRuntime, RuntimesAre
  <1>14. ASSUME runtime = None, retired
         PROVE  /\ retiring = None /\ thread = None
                /\ \A r \in T!Runtimes : live[r] = {}
                /\ \A m \in Lifespans : held[m] = None
    BY <1>14, RuntimesAre DEF PipeInv, CycleSound, OwnersSound
  <1>15. ASSUME NEW k \in 0 .. 12, live' = [live EXCEPT ![f] = T!Made(k)]
         PROVE  /\ live' \in [T!Runtimes -> SUBSET T!Resources] /\ live'[f] = T!Made(k)
                /\ \A r \in T!Runtimes : r # f => live'[r] = live[r]
    BY <1>2, <1>13, <1>15, VisitedCoverMade
  <1>16. CASE /\ T!Available /\ runtime = None /\ T!Construct(T!Fresh, Len(T!Construction))
              /\ runtime' = T!Fresh /\ owners' = owners + 1
              /\ held' = [held EXCEPT ![l] = T!Fresh]
              /\ UNCHANGED <<retiring, retired, thread>>
    <2>1. /\ retired /\ runtime = None /\ runtimes' = f /\ live' = [live EXCEPT ![f] = T!Made(12)]
          /\ runtime' = f /\ owners' = owners + 1 /\ held' = [held EXCEPT ![l] = f]
          /\ UNCHANGED <<retiring, retired, thread>>
      BY <1>12, <1>16, ConstructionSteps DEF T!Available, T!Construct
    <2>2. /\ retiring = None /\ thread = None
          /\ \A r \in T!Runtimes : live[r] = {}
          /\ \A m \in Lifespans : held[m] # None => held[m] = f
      BY <1>14, <2>1
    <2>3. /\ live' \in [T!Runtimes -> SUBSET T!Resources] /\ live'[f] = T!Made(12)
          /\ \A r \in T!Runtimes : r # f => live'[r] = live[r]
      BY <1>15, <2>1
    <2>4. T!Made(12) = T!Resources
      BY ConstructionSteps DEF T!Resources
    <2>5. OwnersSound' /\ held' \in [Lifespans -> T!Runtimes \cup {None}]
      BY <1>10, <1>13, <2>1, <2>2
    <2>6. PipeValues'
      BY <1>2, <1>3, <1>5, <1>6, <1>13, <2>1, <2>3, <2>5 DEF PipeValues
    <2>7. CycleSound'
      BY <1>13, <2>1, <2>2, <2>3, <2>4 DEF PipeInv, CycleSound
    <2> QED
      BY <1>7, <2>5, <2>6, <2>7 DEF PipeInv
  <1>17. ASSUME T!Available, runtime = None, NEW k \in FailsAfter \ {Len(T!Construction)},
                T!Construct(T!Fresh, k), T!Retire(T!Fresh, k), UNCHANGED <<runtime, owners, held>>
         PROVE  PipeInv'
    <2>1. k \in 0 .. 12
      BY ProcessAssumption, ConstructionSteps
    <2>2. PICK vs : vs = T!Visited(k)
      OBVIOUS
    <2>3. /\ retired /\ runtime = None /\ runtimes' = f /\ live' = [live EXCEPT ![f] = T!Made(k)]
          /\ retiring' = f /\ retired' = FALSE
          /\ thread' \in {None, [steps |-> k, left |-> vs, complete |-> TRUE]}
      BY <1>12, <1>17, <2>2 DEF T!Available, T!Construct, T!Retire
    <2>4. \A r \in T!Runtimes : live[r] = {}
      BY <1>14, <2>3
    <2>5. /\ live' \in [T!Runtimes -> SUBSET T!Resources] /\ live'[f] = T!Made(k)
          /\ \A r \in T!Runtimes : r # f => live'[r] = live[r]
      BY <1>15, <2>1, <2>3
    <2>6. T!Made(k) \subseteq UNION {T!Below(k, r) : r \in vs}
      BY <2>1, <2>2, VisitedCoverMade
    <2>7. thread' # None => thread'.steps = k /\ thread'.left = vs /\ thread' \in Shutdown
      BY <2>1, <2>2, <2>3, ThreadStarts
    <2>8. PipeValues'
      BY <1>2, <1>3, <1>5, <1>6, <1>13, <1>17, <2>3, <2>5 DEF PipeValues
    <2>9. OwnersSound'
      BY <1>3, <1>17, OwnersStay DEF PipeInv
    <2>10. CycleSound'
      <3>1. runtime' = None /\ retiring' = f /\ retired' = FALSE /\ f # None
        BY <1>13, <1>17, <2>3
      <3>2. \A r \in T!Runtimes : live'[r] # {} => r \in {runtime', retiring'}
        BY <2>4, <2>5, <3>1
      <3>3. ASSUME thread' # None
            PROVE  live'[retiring'] \subseteq UNION {T!Below(thread'.steps, r) : r \in thread'.left}
        BY <2>5, <2>6, <2>7, <3>1, <3>3
      <3> QED
        BY <2>7, <3>1, <3>2, <3>3 DEF CycleSound
    <2> QED
      BY <1>7, <2>8, <2>9, <2>10 DEF PipeInv
  <1> QED
    BY <1>9, <1>11, <1>16, <1>17 DEF T!Acquire, T!cycleVars


\* The module's operators on sets and sequences, as the library defines them.
LEMMA TelemetryOperators ==
  /\ \A S : T!Cardinality(S) = Cardinality(S)
  /\ \A s, e : T!Append(s, e) = Append(s, e)
  /\ \A s, i : T!RemoveAt(s, i) = SubSeq(s, 1, i - 1) \o SubSeq(s, i + 1, Len(s))
  /\ \A s : T!Last(s) = s[Len(s)]
  /\ \A S : T!Max(S) = CHOOSE x \in S : \A y \in S : x >= y
  <1>1. \A S : T!Cardinality(S) = Cardinality(S)
    BY DEF T!Cardinality, Cardinality
  <1>2. \A s, e : T!Append(s, e) = Append(s, e)
    OBVIOUS
  <1>3. \A s, i : T!RemoveAt(s, i) = SubSeq(s, 1, i - 1) \o SubSeq(s, i + 1, Len(s))
    BY DEF T!RemoveAt
  <1>4. \A s : T!Last(s) = s[Len(s)]
    BY DEF T!Last
  <1>5. \A S : T!Max(S) = CHOOSE x \in S : \A y \in S : x >= y
    BY DEF T!Max
  <1> QED
    BY <1>1, <1>2, <1>3, <1>4, <1>5

\* One position of a sequence is left out and the others keep their order.
LEMMA LeftOut ==
  ASSUME NEW S, NEW s \in Seq(S), NEW i \in DOMAIN s
  PROVE  \E t \in Seq(S) : /\ t = SubSeq(s, 1, i - 1) \o SubSeq(s, i + 1, Len(s))
                          /\ DOMAIN t = 1 .. Len(s) - 1
                          /\ \A j \in 1 .. Len(s) - 1 : t[j] = s[IF j < i THEN j ELSE j + 1]
  <1>1. PICK n \in Nat : n = Len(s)
    OBVIOUS
  <1>2. i \in 1 .. n /\ \A j \in 1 .. n : s[j] \in S
    BY <1>1
  <1>3. PICK u \in Seq(S) : /\ u = SubSeq(s, 1, i - 1)
                            /\ Len(u) = i - 1 /\ \A j \in 1 .. i - 1 : u[j] = s[j]
    <2>1. \A j \in 1 .. i - 1 : s[j] \in S
      BY <1>2
    <2>2. 1 \in Int /\ i - 1 \in Int
      BY <1>2
    <2>3. PICK u : u = SubSeq(s, 1, i - 1)
      OBVIOUS
    <2>4. /\ u \in Seq(S)
          /\ Len(u) = IF 1 <= i - 1 THEN (i - 1) - 1 + 1 ELSE 0
          /\ \A j \in 1 .. (i - 1) - 1 + 1 : u[j] = s[1 + j - 1]
      BY <2>1, <2>2, <2>3, SubSeqProperties
    <2>5. Len(u) = i - 1
      BY <1>2, <2>4
    <2>6. ASSUME NEW j \in 1 .. i - 1 PROVE u[j] = s[j]
      <3>1. j \in 1 .. (i - 1) - 1 + 1 /\ 1 + j - 1 = j
        BY <1>2
      <3> QED
        BY <2>4, <3>1
    <2> QED
      BY <2>3, <2>4, <2>5, <2>6
  <1>4. PICK v \in Seq(S) : /\ v = SubSeq(s, i + 1, n)
                            /\ Len(v) = n - i /\ \A j \in 1 .. n - i : v[j] = s[i + j]
    <2>1. \A j \in i + 1 .. n : s[j] \in S
      BY <1>2
    <2>2. i + 1 \in Int /\ n \in Int
      BY <1>2
    <2>3. PICK v : v = SubSeq(s, i + 1, n)
      OBVIOUS
    <2>4. /\ v \in Seq(S)
          /\ Len(v) = IF i + 1 <= n THEN n - (i + 1) + 1 ELSE 0
          /\ \A j \in 1 .. n - (i + 1) + 1 : v[j] = s[(i + 1) + j - 1]
      BY <2>1, <2>2, <2>3, SubSeqProperties
    <2>5. Len(v) = n - i
      BY <1>2, <2>4
    <2>6. ASSUME NEW j \in 1 .. n - i PROVE v[j] = s[i + j]
      <3>1. j \in 1 .. n - (i + 1) + 1 /\ (i + 1) + j - 1 = i + j
        BY <1>2
      <3> QED
        BY <2>4, <3>1
    <2> QED
      BY <2>3, <2>4, <2>5, <2>6
  <1>5. PICK t : t = u \o v
    OBVIOUS
  <1>6. /\ t \in Seq(S) /\ Len(t) = Len(u) + Len(v)
        /\ \A j \in 1 .. Len(u) + Len(v) : t[j] = IF j <= Len(u) THEN u[j] ELSE v[j - Len(u)]
    BY <1>5, ConcatProperties
  <1>7. Len(t) = n - 1 /\ Len(u) + Len(v) = n - 1
    <2>1. Len(u) = i - 1 /\ Len(v) = n - i /\ Len(t) = Len(u) + Len(v)
      BY <1>3, <1>4, <1>6
    <2>2. (i - 1) + (n - i) = n - 1
      BY <1>2
    <2> QED
      BY <2>1, <2>2
  <1>8. ASSUME NEW j \in 1 .. n - 1 PROVE t[j] = s[IF j < i THEN j ELSE j + 1]
    <2>1. t[j] = IF j <= i - 1 THEN u[j] ELSE v[j - (i - 1)]
      BY <1>3, <1>6, <1>7
    <2>2. CASE j < i
      <3>1. j \in 1 .. i - 1
        BY <1>2, <2>2
      <3> QED
        BY <1>3, <2>1, <2>2, <3>1
    <2>3. CASE ~(j < i)
      <3>1. ~(j <= i - 1)
        BY <1>2, <2>3
      <3>2. j - (i - 1) \in 1 .. n - i
        BY <1>2, <2>3
      <3>3. i + (j - (i - 1)) = j + 1
        BY <1>2
      <3>4. v[j - (i - 1)] = s[j + 1]
        BY <1>4, <3>2, <3>3
      <3> QED
        BY <2>1, <2>3, <3>1, <3>4
    <2> QED
      BY <2>2, <2>3
  <1>9. DOMAIN t = 1 .. n - 1
    BY <1>6, <1>7
  <1> QED
    BY <1>1, <1>3, <1>4, <1>5, <1>6, <1>8, <1>9

LEMMA RegisterStep ==
  ASSUME PipeInv, NEW l \in Lifespans, T!Register(l)
  PROVE  PipeInv'
  <1>1. /\ place[l] = "acquired" /\ place' = [place EXCEPT ![l] = "running"]
        /\ redisLifespans' = Append(redisLifespans, l) /\ redis' = l
        /\ UNCHANGED <<runtime, owners, retiring, retired, thread, runtimes, live, held, open,
                       req, inflight, spans>>
    BY TelemetryOperators DEF T!Register, T!Goto, T!cycleVars, T!reqVars
  <1>2. PipeValues' /\ \A m \in Lifespans : place[m] # "new" => place'[m] # "new"
    <2>1. "running" \in Places \ {"new"}
      BY DEF Places
    <2>2. held' \in [Lifespans -> T!Runtimes \cup {None}] /\ open' \in [Lifespans -> BOOLEAN]
      BY <1>1 DEF PipeInv, PipeValues
    <2> QED
      BY <1>1, <2>1, <2>2, ValuesStay
  <1>3. CycleSound' /\ OwnersSound' /\ ObservationsSound'
    BY <1>1, <1>2, CycleStays, OwnersStay, ObservationsStay DEF PipeInv
  <1>4. PICK s \in Seq(Lifespans) : s = redisLifespans
    BY DEF PipeInv, AdaptersSound
  <1>5. PICK t : t = redisLifespans'
    OBVIOUS
  <1>6. /\ t \in Seq(Lifespans) /\ Len(t) = Len(s) + 1 /\ t[Len(s) + 1] = l
        /\ \A i \in 1 .. Len(s) : t[i] = s[i]
    BY <1>1, <1>4, <1>5, AppendProperties
  <1>7. DOMAIN s = 1 .. Len(s) /\ DOMAIN t = 1 .. Len(s) + 1 /\ Len(s) \in Nat
    BY <1>6
  <1>8. /\ \A i \in 1 .. Len(s) : s[i] # l
        /\ \A i, j \in 1 .. Len(s) : s[i] = s[j] => i = j
        /\ \A m \in Lifespans : place[m] \in {"running", "closing"}
                                  <=> \E i \in 1 .. Len(s) : s[i] = m
    BY <1>1, <1>4, <1>7 DEF PipeInv, AdaptersSound
  <1>9. place'[l] = "running" /\ \A m \in Lifespans : m # l => place'[m] = place[m]
    BY <1>1 DEF PipeInv, PipeValues
  <1>10. \A i, j \in DOMAIN t : t[i] = t[j] => i = j
    BY <1>6, <1>7, <1>8
  <1>11. \A m \in Lifespans : place'[m] \in {"running", "closing"}
                               <=> \E i \in DOMAIN t : t[i] = m
    <2>1. ASSUME NEW m \in Lifespans, m # l
          PROVE  place'[m] \in {"running", "closing"} <=> \E i \in DOMAIN t : t[i] = m
      <3>1. (\E i \in 1 .. Len(s) : s[i] = m) <=> \E i \in DOMAIN t : t[i] = m
        BY <1>6, <1>7, <2>1
      <3> QED
        BY <1>8, <1>9, <2>1, <3>1
    <2>2. place'[l] \in {"running", "closing"} /\ \E i \in DOMAIN t : t[i] = l
      BY <1>6, <1>7, <1>9
    <2> QED
      BY <2>1, <2>2
  <1>12. T!Newest(redisLifespans)' = l
    <2>1. t # <<>>
      BY <1>6, <1>7
    <2>2. T!Newest(t) = l
      BY <1>6, <2>1, TelemetryOperators DEF T!Newest
    <2> QED
      BY <1>5, <2>2 DEF T!Newest
  <1>13. \A m \in Lifespans : place'[m] \in {"acquired", "running"} => open'[m]
    BY <1>1, <1>9 DEF PipeInv, AdaptersSound
  <1>14. redis' = T!Newest(redisLifespans)'
    BY <1>1, <1>12
  <1>15. AdaptersSound'
    BY <1>5, <1>6, <1>10, <1>11, <1>13, <1>14 DEF AdaptersSound
  <1> QED
    BY <1>2, <1>3, <1>15 DEF PipeInv

LEMMA CloseStep ==
  ASSUME PipeInv, NEW l \in Lifespans, T!Close(l)
  PROVE  PipeInv'
  <1>1. /\ place[l] = "running" /\ place' = [place EXCEPT ![l] = "closing"]
        /\ open' = [open EXCEPT ![l] = FALSE]
        /\ UNCHANGED <<runtime, owners, retiring, retired, thread, runtimes, live, held,
                       redisLifespans, redis, req, inflight, spans>>
    BY DEF T!Close, T!Goto, T!cycleVars, T!reqVars
  <1>2. open \in [Lifespans -> BOOLEAN] /\ held \in [Lifespans -> T!Runtimes \cup {None}]
    BY DEF PipeInv, PipeValues
  <1>3. PipeValues' /\ \A m \in Lifespans : place[m] # "new" => place'[m] # "new"
    <2>1. "closing" \in Places \ {"new"}
      BY DEF Places
    <2>2. held' \in [Lifespans -> T!Runtimes \cup {None}] /\ open' \in [Lifespans -> BOOLEAN]
      BY <1>1, <1>2
    <2> QED
      BY <1>1, <2>1, <2>2, ValuesStay
  <1>4. CycleSound' /\ OwnersSound' /\ ObservationsSound'
    BY <1>1, <1>3, CycleStays, OwnersStay, ObservationsStay DEF PipeInv
  <1>5. AdaptersSound'
    <2>1. place[l] \in {"running", "closing"} <=> "closing" \in {"running", "closing"}
      BY <1>1
    <2>2. "closing" \in {"acquired", "running"} => open'[l]
      OBVIOUS
    <2>3. \A m \in Lifespans : m # l => open'[m] = open[m]
      BY <1>1, <1>2
    <2> QED
      BY <1>1, <2>1, <2>2, <2>3, AdaptersStay DEF PipeInv
  <1> QED
    BY <1>3, <1>4, <1>5 DEF PipeInv

LEMMA UnregisterStep ==
  ASSUME PipeInv, NEW l \in Lifespans, T!Unregister(l)
  PROVE  PipeInv'
  <1>1. /\ place[l] = "closing" /\ place' = [place EXCEPT ![l] = "unregistered"]
        /\ redis' = T!Newest(redisLifespans')
        /\ UNCHANGED <<runtime, owners, retiring, retired, thread, runtimes, live, held, open,
                       req, inflight, spans>>
    BY DEF T!Unregister, T!Goto, T!cycleVars, T!reqVars
  <1>2. PipeValues' /\ \A m \in Lifespans : place[m] # "new" => place'[m] # "new"
    <2>1. "unregistered" \in Places \ {"new"}
      BY DEF Places
    <2>2. held' \in [Lifespans -> T!Runtimes \cup {None}] /\ open' \in [Lifespans -> BOOLEAN]
      BY <1>1 DEF PipeInv, PipeValues
    <2> QED
      BY <1>1, <2>1, <2>2, ValuesStay
  <1>3. CycleSound' /\ OwnersSound' /\ ObservationsSound'
    BY <1>1, <1>2, CycleStays, OwnersStay, ObservationsStay DEF PipeInv
  <1>4. PICK s \in Seq(Lifespans) : s = redisLifespans
    BY DEF PipeInv, AdaptersSound
  <1>5. PICK t : t = redisLifespans'
    OBVIOUS
  <1>6. PICK i \in DOMAIN s : s[i] = l /\ t = SubSeq(s, 1, i - 1) \o SubSeq(s, i + 1, Len(s))
    BY <1>4, <1>5, TelemetryOperators DEF T!Unregister
  <1>7. /\ t \in Seq(Lifespans) /\ DOMAIN t = 1 .. Len(s) - 1
        /\ \A j \in 1 .. Len(s) - 1 : t[j] = s[IF j < i THEN j ELSE j + 1]
    BY <1>6, LeftOut
  <1>8. i \in 1 .. Len(s) /\ Len(s) \in Nat /\ DOMAIN s = 1 .. Len(s)
    OBVIOUS
  <1>9. /\ \A j, k \in 1 .. Len(s) : s[j] = s[k] => j = k
        /\ \A m \in Lifespans : place[m] \in {"running", "closing"}
                                  <=> \E j \in 1 .. Len(s) : s[j] = m
    BY <1>4, <1>8 DEF PipeInv, AdaptersSound
  <1>10. place'[l] = "unregistered" /\ \A m \in Lifespans : m # l => place'[m] = place[m]
    BY <1>1 DEF PipeInv, PipeValues
  <1>11. ASSUME NEW j \in DOMAIN t, NEW k \in DOMAIN t, t[j] = t[k] PROVE j = k
    <2>1. j \in 1 .. Len(s) - 1 /\ k \in 1 .. Len(s) - 1
      BY <1>7
    <2>2. PICK a : a = IF j < i THEN j ELSE j + 1
      OBVIOUS
    <2>3. PICK b : b = IF k < i THEN k ELSE k + 1
      OBVIOUS
    <2>4. a \in 1 .. Len(s) /\ b \in 1 .. Len(s)
      BY <1>8, <2>1, <2>2, <2>3
    <2>5. s[a] = s[b]
      BY <1>7, <1>11, <2>1, <2>2, <2>3
    <2>6. a = b
      BY <1>9, <2>4, <2>5
    <2> QED
      BY <1>8, <2>1, <2>2, <2>3, <2>6
  <1>12. ASSUME NEW m \in Lifespans
         PROVE  place'[m] \in {"running", "closing"} <=> \E j \in DOMAIN t : t[j] = m
    <2>1. ASSUME NEW j \in DOMAIN t PROVE t[j] # l /\ \E k \in 1 .. Len(s) : s[k] = t[j]
      <3>1. PICK k : k = IF j < i THEN j ELSE j + 1
        OBVIOUS
      <3>2. j \in 1 .. Len(s) - 1 /\ k \in 1 .. Len(s) /\ k # i
        BY <1>7, <1>8, <3>1
      <3>3. t[j] = s[k]
        BY <1>7, <3>1, <3>2
      <3> QED
        BY <1>6, <1>8, <1>9, <3>2, <3>3
    <2>2. ASSUME m # l, NEW k \in 1 .. Len(s), s[k] = m PROVE \E j \in DOMAIN t : t[j] = m
      <3>1. k # i
        BY <1>6, <2>2
      <3>2. PICK j : j = IF k < i THEN k ELSE k - 1
        OBVIOUS
      <3>3. j \in 1 .. Len(s) - 1 /\ (IF j < i THEN j ELSE j + 1) = k
        BY <1>8, <3>1, <3>2
      <3>4. t[j] = s[k] /\ j \in DOMAIN t
        BY <1>7, <3>3
      <3> QED
        BY <2>2, <3>4
    <2>3. CASE m = l
      BY <1>10, <2>1, <2>3
    <2>4. CASE m # l
      BY <1>9, <1>10, <2>1, <2>2, <2>4
    <2> QED
      BY <2>3, <2>4
  <1>13. redis' = T!Newest(redisLifespans)'
    BY <1>1 DEF T!Newest
  <1>14. \A m \in Lifespans : place'[m] \in {"acquired", "running"} => open'[m]
    BY <1>1, <1>10 DEF PipeInv, AdaptersSound
  <1> QED
    BY <1>2, <1>3, <1>5, <1>7, <1>11, <1>12, <1>13, <1>14 DEF PipeInv, AdaptersSound

LEMMA ReleaseStep ==
  ASSUME PipeInv, NEW l \in Lifespans, T!Release(l)
  PROVE  PipeInv'
  <1>1. /\ place[l] = "unregistered" /\ place' = [place EXCEPT ![l] = "waiting"]
        /\ held' = [held EXCEPT ![l] = None]
        /\ UNCHANGED <<open, redisLifespans, redis, req, inflight, spans>>
    BY DEF T!Release, T!Goto, T!reqVars
  <1>2. /\ place \in [Lifespans -> Places] /\ held \in [Lifespans -> T!Runtimes \cup {None}]
        /\ open \in [Lifespans -> BOOLEAN]
    BY DEF PipeInv, PipeValues
  <1>3. /\ held' \in [Lifespans -> T!Runtimes \cup {None}] /\ held'[l] = None
        /\ \A m \in Lifespans : m # l => held'[m] = held[m]
    BY <1>1, <1>2
  <1>4. /\ place' \in [Lifespans -> Places]
        /\ \A m \in Lifespans : place[m] # "new" <=> place'[m] # "new"
    BY <1>1, <1>2 DEF Places
  <1>5. AdaptersSound' /\ ObservationsSound'
    <2>1. place[l] \in {"running", "closing"} <=> "waiting" \in {"running", "closing"}
      BY <1>1
    <2>2. "waiting" \in {"acquired", "running"} => open'[l]
      OBVIOUS
    <2> QED
      BY <1>1, <2>1, <2>2, AdaptersStay, ObservationsStay DEF PipeInv
  <1>6. ASSUME UNCHANGED <<retiring, live, runtimes>>, runtime' \in T!Runtimes \cup {None}
        PROVE  PipeValues'
    <2>1. Entered' = Entered
      BY <1>4 DEF Entered
    <2> QED
      BY <1>1, <1>2, <1>3, <1>4, <1>6, <2>1 DEF PipeInv, PipeValues
  <1>7. CASE /\ held[l] = None \/ held[l] # runtime
             /\ UNCHANGED <<runtime, owners, retiring, retired, thread, runtimes, live>>
    <2>1. held[l] = None
      BY <1>7 DEF PipeInv, OwnersSound
    <2>2. held' = held
      BY <1>1, <1>2, <2>1
    <2>3. PipeValues'
      BY <1>2, <1>6, <1>7 DEF PipeInv, PipeValues
    <2>4. CycleSound' /\ OwnersSound'
      BY <1>4, <1>7, <2>2, CycleStays, OwnersStay DEF PipeInv
    <2> QED
      BY <1>5, <2>3, <2>4 DEF PipeInv
  <1>8. ASSUME held[l] # None, owners' = owners - 1
        PROVE  /\ Holders' = Holders \ {l} /\ l \in Holders /\ owners = Cardinality(Holders)
               /\ owners' = Cardinality(Holders)'
    <2>1. Holders' = Holders \ {l} /\ l \in Holders
      BY <1>3, <1>8 DEF Holders
    <2>2. Cardinality(Holders)' = Cardinality(Holders) - 1
      BY <2>1, EnteredFinite, FS_RemoveElement
    <2> QED
      BY <1>8, <2>1, <2>2 DEF PipeInv, OwnersSound
  <1>9. CASE /\ held[l] # None /\ held[l] = runtime /\ owners' = owners - 1
             /\ UNCHANGED <<runtime, retiring, retired, thread, runtimes, live>>
    <2>1. OwnersSound'
      BY <1>3, <1>4, <1>8, <1>9 DEF PipeInv, OwnersSound
    <2>2. PipeValues'
      BY <1>6, <1>9 DEF PipeInv, PipeValues
    <2>3. CycleSound'
      BY <1>9, CycleStays DEF PipeInv
    <2> QED
      BY <1>5, <2>1, <2>2, <2>3 DEF PipeInv
  <1>10. CASE /\ held[l] # None /\ held[l] = runtime /\ T!LastOwner(l)
              /\ owners' = owners - 1 /\ runtime' = None
              /\ T!Retire(runtime, Len(T!Construction))
              /\ UNCHANGED <<runtimes, live>>
    <2>1. PICK vs : vs = T!Visited(12)
      OBVIOUS
    <2>2. /\ retiring' = runtime /\ retired' = FALSE
          /\ thread' \in {None, [steps |-> 12, left |-> vs, complete |-> TRUE]}
      BY <1>10, <2>1, ConstructionSteps DEF T!Retire
    <2>3. Cardinality(Holders) = 1 /\ Holders' = Holders \ {l} /\ l \in Holders
          /\ owners' = Cardinality(Holders)'
      BY <1>8, <1>10 DEF T!LastOwner
    <2>4. Holders' = {}
      <3>1. Cardinality(Holders \ {l}) = 0
        <4>1. Cardinality(Holders \ {l}) = Cardinality(Holders) - 1
          BY <2>3, EnteredFinite, FS_RemoveElement
        <4> QED
          BY <2>3, <4>1
      <3>2. IsFiniteSet(Holders \ {l})
        BY EnteredFinite, FS_Subset
      <3> QED
        BY <2>3, <3>1, <3>2, FS_EmptySet
    <2>5. OwnersSound'
      BY <2>3, <2>4 DEF OwnersSound, Holders
    <2>6. /\ runtime # None /\ runtime \in T!Runtimes /\ retired /\ retiring = None
          /\ live[runtime] = T!Resources
          /\ \A r \in T!Runtimes : live[r] # {} => r = runtime
      BY <1>10, RuntimesAre DEF PipeInv, PipeValues, CycleSound
    <2>7. PipeValues'
      BY <1>1, <1>2, <1>3, <1>4, <1>10, <2>2, <2>6 DEF PipeInv, PipeValues, Entered
    <2>8. T!Resources = T!Made(12)
      BY ConstructionSteps DEF T!Resources
    <2>9. live[runtime] \subseteq UNION {T!Below(12, r) : r \in vs}
      BY <2>1, <2>6, <2>8, VisitedCoverMade
    <2>10. thread' # None => thread'.steps = 12 /\ thread'.left = vs /\ thread' \in Shutdown
      <3>1. 12 \in 0 .. 12
        OBVIOUS
      <3> QED
        BY <2>1, <2>2, <3>1, ThreadStarts
    <2>11. CycleSound'
      <3>1. runtime' = None /\ retiring' = runtime /\ retired' = FALSE /\ live' = live
        BY <1>10, <2>2
      <3>2. \A r \in T!Runtimes : live'[r] # {} => r \in {runtime', retiring'}
        BY <2>6, <3>1
      <3>3. ASSUME thread' # None
            PROVE  live'[retiring'] \subseteq UNION {T!Below(thread'.steps, r) : r \in thread'.left}
        BY <2>9, <2>10, <3>1, <3>3
      <3> QED
        BY <2>6, <2>10, <3>1, <3>2, <3>3 DEF CycleSound
    <2> QED
      BY <1>5, <2>5, <2>7, <2>11 DEF PipeInv
  <1> QED
    BY <1>7, <1>9, <1>10 DEF T!Release, T!cycleVars

LEMMA WaitStep ==
  ASSUME PipeInv, NEW l \in Lifespans, T!Wait(l)
  PROVE  PipeInv'
  <1>1. /\ place[l] = "waiting" /\ place' = [place EXCEPT ![l] = "ended"]
        /\ UNCHANGED <<runtime, owners, retiring, retired, thread, runtimes, live, held, open,
                       redisLifespans, redis, req, inflight, spans>>
    BY DEF T!Wait, T!Goto, T!cycleVars, T!reqVars
  <1>2. PipeValues' /\ \A m \in Lifespans : place[m] # "new" => place'[m] # "new"
    <2>1. "ended" \in Places \ {"new"}
      BY DEF Places
    <2>2. held' \in [Lifespans -> T!Runtimes \cup {None}] /\ open' \in [Lifespans -> BOOLEAN]
      BY <1>1 DEF PipeInv, PipeValues
    <2> QED
      BY <1>1, <2>1, <2>2, ValuesStay
  <1>3. AdaptersSound'
    <2>1. place[l] \in {"running", "closing"} <=> "ended" \in {"running", "closing"}
      BY <1>1
    <2>2. "ended" \in {"acquired", "running"} => open'[l]
      OBVIOUS
    <2> QED
      BY <1>1, <2>1, <2>2, AdaptersStay DEF PipeInv
  <1> QED
    BY <1>1, <1>2, <1>3, CycleStays, OwnersStay, ObservationsStay DEF PipeInv

-----------------------------------------------------------------------------
(* The shutdown thread *)

\* Nothing but the retiring pipeline changes.
LEMMA ThreadStays ==
  ASSUME PipeInv, UNCHANGED <<runtime, owners, runtimes, place, held, open,
                              redisLifespans, redis, req, inflight, spans>>,
         retiring' \in T!Runtimes \cup {None}, live' \in [T!Runtimes -> SUBSET T!Resources]
  PROVE  PipeValues' /\ OwnersSound' /\ AdaptersSound' /\ ObservationsSound'
  <1>1. PipeValues'
    BY DEF PipeInv, PipeValues, Entered
  <1>2. AdaptersSound'
    BY DEF PipeInv, AdaptersSound, T!Newest
  <1> QED
    BY <1>1, <1>2, OwnersStay, ObservationsStay DEF PipeInv

LEMMA ShutdownResourceStep ==
  ASSUME PipeInv, T!ShutdownResource
  PROVE  PipeInv'
  <1>1. /\ thread # None
        /\ UNCHANGED <<runtime, owners, retiring, retired, runtimes, place, held, open,
                       redisLifespans, redis, req, inflight, spans>>
    BY DEF T!ShutdownResource, T!spanVars, T!reqVars
  <1>2. /\ ~retired /\ retiring # None /\ runtime = None /\ thread \in Shutdown
        /\ \A r \in T!Runtimes : live[r] # {} => r \in {runtime, retiring}
        /\ thread.complete =>
              live[retiring] \subseteq UNION {T!Below(thread.steps, r) : r \in thread.left}
    BY <1>1 DEF PipeInv, CycleSound
  <1>3. live \in [T!Runtimes -> SUBSET T!Resources] /\ retiring \in T!Runtimes
    BY <1>2 DEF PipeInv, PipeValues
  <1>4. PICK k, left, complete : /\ k = thread.steps /\ left = thread.left
                                 /\ complete = thread.complete
    OBVIOUS
  <1>5. PICK r \in left :
          \/ /\ live' = [live EXCEPT ![retiring] = @ \ T!Below(k, r)]
             /\ thread' = [thread EXCEPT !.left = @ \ {r}]
          \/ /\ thread' = [thread EXCEPT !.left = @ \ {r}, !.complete = FALSE]
             /\ live' = live
    BY <1>4 DEF T!ShutdownResource
  <1>6. k \in 0 .. 12 /\ left \subseteq T!Resources /\ complete \in BOOLEAN
    BY <1>2, <1>4 DEF Shutdown
  <1>7. CASE /\ live' = [live EXCEPT ![retiring] = @ \ T!Below(k, r)]
             /\ thread' = [thread EXCEPT !.left = @ \ {r}]
    <2>1. PICK under : under = T!Below(k, r)
      OBVIOUS
    <2>2. /\ live' \in [T!Runtimes -> SUBSET T!Resources]
          /\ live'[retiring] = live[retiring] \ under
          /\ \A x \in T!Runtimes : live'[x] # {} => live[x] # {}
      BY <1>3, <1>7, <2>1
    <2>3. thread' \in Shutdown /\ thread'.steps = k /\ thread'.left = left \ {r}
          /\ thread'.complete = complete
      BY <1>2, <1>4, <1>6, <1>7 DEF Shutdown
    <2>4. ASSUME complete, NEW x \in live'[retiring]
          PROVE  x \in UNION {T!Below(k, v) : v \in left \ {r}}
      <3>1. x \in live[retiring] /\ x \notin T!Below(k, r)
        BY <2>1, <2>2, <2>4
      <3>2. PICK v \in left : x \in T!Below(k, v)
        BY <1>2, <1>4, <2>4, <3>1
      <3>3. v \in left \ {r}
        BY <3>1, <3>2
      <3> QED
        BY <3>2, <3>3
    <2>5. CycleSound'
      <3>1. \A x \in T!Runtimes : live'[x] # {} => x \in {runtime', retiring'}
        BY <1>1, <1>2, <2>2
      <3>2. thread'.complete =>
              live'[retiring'] \subseteq UNION {T!Below(thread'.steps, v) : v \in thread'.left}
        BY <1>1, <2>3, <2>4
      <3>3. runtime' = None /\ ~retired' /\ retired' \in BOOLEAN /\ retiring' # None
        BY <1>1, <1>2 DEF PipeInv, CycleSound
      <3> QED
        BY <2>3, <3>1, <3>2, <3>3 DEF CycleSound
    <2> QED
      BY <1>1, <1>3, <2>2, <2>5, ThreadStays DEF PipeInv
  <1>8. CASE /\ thread' = [thread EXCEPT !.left = @ \ {r}, !.complete = FALSE]
             /\ live' = live
    <2>1. thread' \in Shutdown /\ thread'.complete = FALSE
      BY <1>2, <1>4, <1>6, <1>8 DEF Shutdown
    <2>2. CycleSound'
      BY <1>1, <1>2, <1>8, <2>1 DEF PipeInv, CycleSound
    <2> QED
      BY <1>1, <1>3, <1>8, <2>2, ThreadStays DEF PipeInv
  <1> QED
    BY <1>5, <1>7, <1>8

LEMMA StopEndsStep ==
  ASSUME PipeInv, T!StopEnds
  PROVE  PipeInv'
  <1>1. /\ thread # None /\ thread.left = {} /\ thread' = None
        /\ IF thread.complete THEN retiring' = None /\ retired' = TRUE
           ELSE UNCHANGED <<retiring, retired>>
        /\ UNCHANGED <<runtime, owners, runtimes, live, place, held, open,
                       redisLifespans, redis, req, inflight, spans>>
    BY DEF T!StopEnds, T!Stopped, T!spanVars, T!reqVars
  <1>2. /\ ~retired /\ retiring # None /\ runtime = None
        /\ \A r \in T!Runtimes : live[r] # {} => r \in {runtime, retiring}
        /\ thread.complete => live[retiring] = {}
    <2>1. thread.complete =>
              live[retiring] \subseteq UNION {T!Below(thread.steps, r) : r \in thread.left}
      BY <1>1 DEF PipeInv, CycleSound
    <2>2. thread.complete => live[retiring] = {}
      BY <1>1, <2>1
    <2> QED
      BY <1>1, <2>2 DEF PipeInv, CycleSound
  <1>3. live \in [T!Runtimes -> SUBSET T!Resources] /\ retiring \in T!Runtimes
    BY <1>2 DEF PipeInv, PipeValues
  <1>4. CASE thread.complete
    <2>1. retiring' = None /\ retired' = TRUE /\ runtime' = None /\ thread' = None /\ live' = live
      BY <1>1, <1>2, <1>4
    <2>2. \A r \in T!Runtimes : live[r] = {}
      BY <1>2, <1>4, RuntimesAre
    <2>3. CycleSound'
      BY <2>1, <2>2 DEF CycleSound
    <2> QED
      BY <1>1, <1>3, <2>1, <2>3, ThreadStays DEF PipeInv
  <1>5. CASE ~thread.complete
    <2>1. UNCHANGED <<retiring, retired, runtime, live>> /\ thread' = None
      BY <1>1, <1>5
    <2>2. CycleSound'
      BY <2>1 DEF PipeInv, CycleSound
    <2> QED
      BY <1>1, <1>3, <2>1, <2>2, ThreadStays DEF PipeInv
  <1> QED
    BY <1>4, <1>5

-----------------------------------------------------------------------------
(* Observed requests *)

LEMMA UnderFinite ==
  ASSUME NEW r
  PROVE  IsFiniteSet(CountedUnder(r)) /\ IsFiniteSet(SpansUnder(r))
  <1>1. CountedUnder(r) \subseteq Tasks /\ SpansUnder(r) \subseteq Tasks
    BY DEF CountedUnder, SpansUnder
  <1> QED
    BY <1>1, ProcessAssumption, FS_Subset

LEMMA ObserveStep ==
  ASSUME PipeInv, NEW q \in Tasks, NEW l \in Lifespans, NEW p \in T!Progress, T!Observe(q, l, p)
  PROVE  PipeInv'
  <1>1. /\ req[q] = None
        /\ p \in IF runtime = None THEN {"nothing"} ELSE BreaksAt \cup {"counted"}
        /\ req' = [req EXCEPT ![q] = [in |-> l, runtime |-> runtime, progress |-> p]]
        /\ spans' = IF p = "nothing" THEN spans ELSE [spans EXCEPT ![runtime] = @ + 1]
        /\ inflight' = IF p # "counted" THEN inflight ELSE [inflight EXCEPT ![runtime] = @ + 1]
        /\ UNCHANGED <<runtime, owners, retiring, retired, thread, runtimes, live, place, held,
                       open, redisLifespans, redis>>
    BY DEF T!Observe, T!cycleVars, T!spanVars
  <1>2. PICK o : o = [in |-> l, runtime |-> runtime, progress |-> p]
    OBVIOUS
  <1>3. runtime \in T!Runtimes \cup {None} /\ (p # "nothing" => runtime \in T!Runtimes)
    BY <1>1 DEF PipeInv, PipeValues
  <1>4. o \in Observation /\ o.runtime = runtime /\ o.progress = p
    BY <1>2, <1>3 DEF Observation
  <1>5. o # None
    BY <1>4, ProcessAssumption DEF Observation
  <1>6. /\ req \in [Tasks -> Observation \cup {None}]
        /\ inflight \in [T!Runtimes -> Int] /\ spans \in [T!Runtimes -> Int]
        /\ \A t \in Tasks : req[t] # None /\ req[t].runtime = None => req[t].progress = "nothing"
        /\ \A r \in T!Runtimes : /\ inflight[r] = Cardinality(CountedUnder(r))
                                 /\ spans[r] = Cardinality(SpansUnder(r))
    BY DEF PipeInv, ObservationsSound
  <1>7. /\ req' \in [Tasks -> Observation \cup {None}] /\ req'[q] = o
        /\ \A t \in Tasks : t # q => req'[t] = req[t]
    BY <1>1, <1>2, <1>4, <1>6
  <1>8. \A t \in Tasks : req'[t] # None /\ req'[t].runtime = None => req'[t].progress = "nothing"
    BY <1>3, <1>4, <1>6, <1>7, RuntimesAre
  <1>9. ASSUME NEW r \in T!Runtimes
        PROVE  /\ CountedUnder(r)' = IF p = "counted" /\ r = runtime THEN CountedUnder(r) \cup {q}
                                     ELSE CountedUnder(r)
               /\ SpansUnder(r)' = IF p # "nothing" /\ r = runtime THEN SpansUnder(r) \cup {q}
                                   ELSE SpansUnder(r)
               /\ q \notin CountedUnder(r) /\ q \notin SpansUnder(r)
    <2>1. q \notin CountedUnder(r) /\ q \notin SpansUnder(r)
      BY <1>1 DEF CountedUnder, SpansUnder
    <2>2. \A t : t \in CountedUnder(r)' <=> t \in Tasks /\ req'[t] # None /\ req'[t].runtime = r
                                             /\ req'[t].progress = "counted"
      BY DEF CountedUnder
    <2>3. \A t : t \in SpansUnder(r)' <=> t \in Tasks /\ req'[t] # None /\ req'[t].runtime = r
                                           /\ req'[t].progress # "nothing"
      BY DEF SpansUnder
    <2>4. \A t : t # q => /\ t \in CountedUnder(r)' <=> t \in CountedUnder(r)
                          /\ t \in SpansUnder(r)' <=> t \in SpansUnder(r)
      BY <1>7, <2>2, <2>3 DEF CountedUnder, SpansUnder
    <2>5. /\ q \in CountedUnder(r)' <=> p = "counted" /\ r = runtime
          /\ q \in SpansUnder(r)' <=> p # "nothing" /\ r = runtime
      BY <1>4, <1>5, <1>7, <2>2, <2>3
    <2>6. CountedUnder(r)' = IF p = "counted" /\ r = runtime THEN CountedUnder(r) \cup {q}
                             ELSE CountedUnder(r)
      BY <2>1, <2>4, <2>5
    <2>7. SpansUnder(r)' = IF p # "nothing" /\ r = runtime THEN SpansUnder(r) \cup {q}
                           ELSE SpansUnder(r)
      BY <2>1, <2>4, <2>5
    <2> QED
      BY <2>1, <2>6, <2>7
  <1>10. inflight' \in [T!Runtimes -> Int] /\ spans' \in [T!Runtimes -> Int]
    <2>1. ASSUME NEW f \in [T!Runtimes -> Int], NEW r \in T!Runtimes
          PROVE  [f EXCEPT ![r] = @ + 1] \in [T!Runtimes -> Int]
      OBVIOUS
    <2>2. inflight' \in [T!Runtimes -> Int]
      BY <1>1, <1>3, <1>6, <2>1
    <2>3. spans' \in [T!Runtimes -> Int]
      BY <1>1, <1>3, <1>6, <2>1
    <2> QED
      BY <2>2, <2>3
  <1>11. ASSUME NEW r \in T!Runtimes
         PROVE  inflight'[r] = Cardinality(CountedUnder(r))' /\ spans'[r] = Cardinality(SpansUnder(r))'
    <2>1. inflight'[r] = IF p = "counted" /\ r = runtime THEN inflight[r] + 1 ELSE inflight[r]
      BY <1>1, <1>3, <1>6
    <2>2. spans'[r] = IF p # "nothing" /\ r = runtime THEN spans[r] + 1 ELSE spans[r]
      BY <1>1, <1>3, <1>6
    <2>3. Cardinality(CountedUnder(r) \cup {q}) = Cardinality(CountedUnder(r)) + 1
          /\ Cardinality(SpansUnder(r) \cup {q}) = Cardinality(SpansUnder(r)) + 1
      BY <1>9, UnderFinite, FS_AddElement
    <2>4. inflight'[r] = Cardinality(CountedUnder(r))'
      BY <1>6, <1>9, <2>1, <2>3
    <2>5. spans'[r] = Cardinality(SpansUnder(r))'
      BY <1>6, <1>9, <2>2, <2>3
    <2> QED
      BY <2>4, <2>5
  <1>12. ObservationsSound'
    BY <1>7, <1>8, <1>10, <1>11 DEF ObservationsSound
  <1>13. PipeValues' /\ AdaptersSound'
    BY <1>1 DEF PipeInv, PipeValues, Entered, AdaptersSound, T!Newest
  <1> QED
    BY <1>1, <1>12, <1>13, CycleStays, OwnersStay DEF PipeInv

LEMMA FinishStep ==
  ASSUME PipeInv, NEW q \in Tasks, T!Finish(q)
  PROVE  PipeInv'
  <1>1. PICK o : o = req[q]
    OBVIOUS
  <1>2. /\ o # None /\ req' = [req EXCEPT ![q] = None]
        /\ inflight' = IF o.progress # "counted" \/ o.runtime = None THEN inflight
                       ELSE [inflight EXCEPT ![o.runtime] = @ - 1]
        /\ spans' = IF o.progress = "nothing" THEN spans ELSE [spans EXCEPT ![o.runtime] = @ - 1]
        /\ UNCHANGED <<runtime, owners, retiring, retired, thread, runtimes, live, place, held,
                       open, redisLifespans, redis>>
    BY <1>1 DEF T!Finish, T!ObservedBy, T!cycleVars, T!spanVars
  <1>3. /\ req \in [Tasks -> Observation \cup {None}]
        /\ inflight \in [T!Runtimes -> Int] /\ spans \in [T!Runtimes -> Int]
        /\ \A t \in Tasks : req[t] # None /\ req[t].runtime = None => req[t].progress = "nothing"
        /\ \A r \in T!Runtimes : /\ inflight[r] = Cardinality(CountedUnder(r))
                                 /\ spans[r] = Cardinality(SpansUnder(r))
    BY DEF PipeInv, ObservationsSound
  <1>4. /\ o.runtime \in T!Runtimes \cup {None}
        /\ o.progress # "nothing" => o.runtime \in T!Runtimes /\ o.runtime # None
    <2>1. o \in Observation
      BY <1>1, <1>2, <1>3
    <2>2. o.runtime \in T!Runtimes \cup {None}
      BY <2>1 DEF Observation
    <2> QED
      BY <1>1, <1>2, <1>3, <2>2
  <1>5. /\ req' \in [Tasks -> Observation \cup {None}] /\ req'[q] = None
        /\ \A t \in Tasks : t # q => req'[t] = req[t]
    BY <1>2, <1>3
  <1>6. \A t \in Tasks : req'[t] # None /\ req'[t].runtime = None => req'[t].progress = "nothing"
    BY <1>3, <1>5
  <1>7. ASSUME NEW r \in T!Runtimes
        PROVE  /\ CountedUnder(r)' = CountedUnder(r) \ {q}
               /\ SpansUnder(r)' = SpansUnder(r) \ {q}
               /\ q \in CountedUnder(r) <=> o.progress = "counted" /\ r = o.runtime
               /\ q \in SpansUnder(r) <=> o.progress # "nothing" /\ r = o.runtime
    <2>1. \A t : t \in CountedUnder(r)' <=> t \in Tasks /\ req'[t] # None /\ req'[t].runtime = r
                                             /\ req'[t].progress = "counted"
      BY DEF CountedUnder
    <2>2. \A t : t \in SpansUnder(r)' <=> t \in Tasks /\ req'[t] # None /\ req'[t].runtime = r
                                           /\ req'[t].progress # "nothing"
      BY DEF SpansUnder
    <2>3. q \notin CountedUnder(r)' /\ q \notin SpansUnder(r)'
      BY <1>5, <2>1, <2>2
    <2>4. \A t : t # q => /\ t \in CountedUnder(r)' <=> t \in CountedUnder(r)
                          /\ t \in SpansUnder(r)' <=> t \in SpansUnder(r)
      BY <1>5, <2>1, <2>2 DEF CountedUnder, SpansUnder
    <2>5. CountedUnder(r)' = CountedUnder(r) \ {q}
      BY <2>3, <2>4
    <2>6. SpansUnder(r)' = SpansUnder(r) \ {q}
      BY <2>3, <2>4
    <2>7. /\ q \in CountedUnder(r) <=> o.progress = "counted" /\ r = o.runtime
          /\ q \in SpansUnder(r) <=> o.progress # "nothing" /\ r = o.runtime
      BY <1>1, <1>2 DEF CountedUnder, SpansUnder
    <2> QED
      BY <2>5, <2>6, <2>7
  <1>8. inflight' \in [T!Runtimes -> Int] /\ spans' \in [T!Runtimes -> Int]
    <2>1. ASSUME NEW f \in [T!Runtimes -> Int], NEW r \in T!Runtimes
          PROVE  [f EXCEPT ![r] = @ - 1] \in [T!Runtimes -> Int]
      OBVIOUS
    <2>2. inflight' \in [T!Runtimes -> Int]
      BY <1>2, <1>3, <1>4, <2>1
    <2>3. spans' \in [T!Runtimes -> Int]
      BY <1>2, <1>3, <1>4, <2>1
    <2> QED
      BY <2>2, <2>3
  <1>9. ASSUME NEW r \in T!Runtimes
        PROVE  inflight'[r] = Cardinality(CountedUnder(r))' /\ spans'[r] = Cardinality(SpansUnder(r))'
    <2>1. inflight'[r] = IF q \in CountedUnder(r) THEN inflight[r] - 1 ELSE inflight[r]
      BY <1>2, <1>3, <1>4, <1>7
    <2>2. spans'[r] = IF q \in SpansUnder(r) THEN spans[r] - 1 ELSE spans[r]
      BY <1>2, <1>3, <1>4, <1>7
    <2>3. Cardinality(CountedUnder(r) \ {q})
            = IF q \in CountedUnder(r) THEN Cardinality(CountedUnder(r)) - 1
              ELSE Cardinality(CountedUnder(r))
      BY UnderFinite, FS_RemoveElement
    <2>4. Cardinality(SpansUnder(r) \ {q})
            = IF q \in SpansUnder(r) THEN Cardinality(SpansUnder(r)) - 1
              ELSE Cardinality(SpansUnder(r))
      BY UnderFinite, FS_RemoveElement
    <2>5. inflight'[r] = Cardinality(CountedUnder(r))'
      BY <1>3, <1>7, <2>1, <2>3
    <2>6. spans'[r] = Cardinality(SpansUnder(r))'
      BY <1>3, <1>7, <2>2, <2>4
    <2> QED
      BY <2>5, <2>6
  <1>10. ObservationsSound'
    BY <1>5, <1>6, <1>8, <1>9 DEF ObservationsSound
  <1>11. PipeValues' /\ AdaptersSound'
    BY <1>2 DEF PipeInv, PipeValues, Entered, AdaptersSound, T!Newest
  <1> QED
    BY <1>2, <1>10, <1>11, CycleStays, OwnersStay DEF PipeInv

-----------------------------------------------------------------------------
(* The process keeps the invariant *)

GaugeSound == gauge \in Int /\ (runtime # None => gauge <= acquiring)

LEMMA PipeInvHolds == ApiSpec => []PipeInv
  <1>1. ApiInit => PipeInv
    <2> SUFFICES ASSUME ApiInit PROVE PipeInv
      OBVIOUS
    <2>1. /\ runtime = None /\ owners = 0 /\ retiring = None /\ retired = TRUE
          /\ thread = None /\ runtimes = 0 /\ live = [r \in T!Runtimes |-> {}]
          /\ place = [l \in Lifespans |-> "new"] /\ held = [l \in Lifespans |-> None]
          /\ open = [l \in Lifespans |-> FALSE]
          /\ redisLifespans = <<>> /\ redis = None
          /\ req = [q \in Tasks |-> None]
          /\ inflight = [r \in T!Runtimes |-> 0] /\ spans = [r \in T!Runtimes |-> 0]
      BY DEF ApiInit, T!Init
    <2>2. Entered = {} /\ Holders = {}
      BY <2>1 DEF Entered, Holders
    <2>3. Cardinality(Entered) = 0 /\ Cardinality(Holders) = 0
      BY <2>2, FS_EmptySet
    <2>4. PipeValues
      <3>1. runtimes \in Nat /\ runtimes <= Cardinality(Entered)
        BY <2>1, <2>3
      <3>2. place \in [Lifespans -> Places]
        BY <2>1 DEF Places
      <3> QED
        BY <2>1, <3>1, <3>2 DEF PipeValues
    <2>5. CycleSound /\ OwnersSound
      BY <2>1, <2>3 DEF CycleSound, OwnersSound
    <2>6. AdaptersSound
      BY <2>1 DEF AdaptersSound, T!Newest
    <2>7. ObservationsSound
      <3>1. \A r : CountedUnder(r) = {} /\ SpansUnder(r) = {}
        BY <2>1 DEF CountedUnder, SpansUnder
      <3>2. \A r : Cardinality(CountedUnder(r)) = 0 /\ Cardinality(SpansUnder(r)) = 0
        BY <3>1, FS_EmptySet
      <3> QED
        BY <2>1, <3>2 DEF ObservationsSound
    <2> QED
      BY <2>4, <2>5, <2>6, <2>7 DEF PipeInv
  <1>2. PipeInv /\ [ApiNext]_apiVars => PipeInv'
    <2> SUFFICES ASSUME PipeInv, [ApiNext]_apiVars PROVE PipeInv'
      OBVIOUS
    <2>1. ASSUME NEW l \in Lifespans, T!LifespanStep(l) PROVE PipeInv'
      BY <2>1, AcquireStep, RegisterStep, CloseStep, UnregisterStep, ReleaseStep, WaitStep
         DEF T!LifespanStep
    <2>2. CASE PipelineStep
      BY <2>1, <2>2, ShutdownResourceStep, StopEndsStep DEF PipelineStep
    <2>3. CASE DatabaseStep
      BY <2>3, PipeStays DEF DatabaseStep, Pool
    <2>4. ASSUME NEW b \in Borrowers, RequestStep(b) PROVE PipeInv'
      BY <2>4, PipeStays DEF RequestStep, Pool
    <2>5. ASSUME NEW p \in Probes, ReadyStep(p) PROVE PipeInv'
      BY <2>5, PipeStays DEF ReadyStep, Pool
    <2>6. ASSUME NEW t \in Tasks, Arrives(t) PROVE PipeInv'
      BY <2>6, ObserveStep DEF Arrives
    <2>7. ASSUME NEW t \in Tasks, Leaves(t) PROVE PipeInv'
      BY <2>7, FinishStep DEF Leaves
    <2>8. CASE UNCHANGED apiVars
      BY <2>8, PipeStays DEF apiVars
    <2> QED
      BY <2>2, <2>3, <2>4, <2>5, <2>6, <2>7, <2>8 DEF ApiNext
  <1> QED
    BY <1>1, <1>2, PTL DEF ApiSpec

LEMMA GaugeSoundHolds == ApiSpec => []GaugeSound
  <1>1. ApiInit => GaugeSound
    BY DEF ApiInit, T!Init, GaugeSound
  <1>2. ASSUME PoolCounts PROVE acquiring \in Nat
    BY <1>2, AskingFinite DEF PoolCounts
  <1>3. PoolCounts /\ PoolCounts' /\ GaugeSound /\ [ApiNext]_apiVars => GaugeSound'
    <2> SUFFICES ASSUME PoolCounts, PoolCounts', GaugeSound, [ApiNext]_apiVars
                 PROVE  GaugeSound'
      OBVIOUS
    <2>1. acquiring \in Nat /\ acquiring' \in Nat
      <3>1. acquiring' = Cardinality(Asking)'
        BY DEF PoolCounts
      <3>2. Asking' \subseteq Tasks
        BY DEF Asking
      <3>3. Cardinality(Asking') \in Nat
        BY <3>2, ProcessAssumption, FS_Subset, FS_CardinalityType
      <3> QED
        BY <1>2, <3>1, <3>3
    <2>2. gauge \in Int /\ (runtime # None => gauge <= acquiring)
      BY DEF GaugeSound
    <2>3. CASE Pool
      <3>1. runtime' = runtime
            /\ gauge' = IF runtime = None THEN gauge ELSE gauge + (acquiring' - acquiring)
        BY <2>3 DEF Pool, Record, telemetry
      <3>2. gauge' \in Int
        BY <2>1, <2>2, <3>1
      <3>3. ASSUME runtime # None PROVE gauge' <= acquiring'
        <4>1. PICK a, b, g : a = acquiring /\ b = acquiring' /\ g = gauge
          OBVIOUS
        <4>2. a \in Nat /\ b \in Nat /\ g \in Int /\ g <= a /\ gauge' = g + (b - a)
          BY <2>1, <2>2, <3>1, <3>3, <4>1
        <4>3. g + (b - a) <= b
          BY <4>2
        <4> QED
          BY <4>1, <4>2, <4>3
      <3> QED
        BY <3>1, <3>2, <3>3 DEF GaugeSound
    <2>4. CASE PipelineStep
      <3>1. gauge' = (IF runtime' = runtime THEN gauge ELSE 0) /\ acquiring' = acquiring
        BY <2>4 DEF PipelineStep, vars
      <3>2. CASE runtime' = runtime
        BY <2>2, <3>1, <3>2 DEF GaugeSound
      <3>3. CASE runtime' # runtime
        BY <2>1, <3>1, <3>3 DEF GaugeSound
      <3> QED
        BY <3>2, <3>3
    <2>5. ASSUME UNCHANGED <<acquiring, gauge, runtime>> PROVE GaugeSound'
      BY <2>5 DEF GaugeSound
    <2>6. ASSUME NEW t \in Tasks, Arrives(t) \/ Leaves(t) PROVE GaugeSound'
      BY <2>5, <2>6 DEF Arrives, Leaves, T!Observe, T!Finish, T!cycleVars, vars
    <2>7. CASE UNCHANGED apiVars
      BY <2>5, <2>7 DEF apiVars, vars, telemetry
    <2>8. (DatabaseStep \/ (\E b \in Borrowers : RequestStep(b)) \/ \E p \in Probes : ReadyStep(p))
          => Pool
      BY DEF DatabaseStep, RequestStep, ReadyStep
    <2> QED
      BY <2>3, <2>4, <2>6, <2>7, <2>8 DEF ApiNext
  <1> QED
    BY <1>1, <1>3, ProcessImplementsPool, PoolCountsInvariant, PTL DEF ApiSpec

\* Of a bounded set of naturals, Max is a member.
LEMMA MaxIsMember ==
  ASSUME NEW n \in Nat, NEW S \in SUBSET (1 .. n), S # {}
  PROVE  T!Max(S) \in S
  <1> DEFINE D == {n - x : x \in S}
             R == OpToRel(<, Nat)
  <1>1. \A x \in S : x \in Nat /\ n - x \in Nat
    OBVIOUS
  <1>2. D \in SUBSET Nat /\ D # {}
    BY <1>1
  <1>3. IsWellFoundedOn(R, Nat)
    BY NatLessThanWellFounded
  <1> HIDE DEF R, D
  <1>4. PICK d \in D : \A m \in D : ~(<<m, d>> \in R)
    BY <1>2, <1>3, WFMin
  <1>5. PICK x \in S : d = n - x
    BY <1>4 DEF D
  <1>6. ASSUME NEW y \in S PROVE x >= y
    <2>1. n - y \in D /\ n - y \in Nat /\ n - x \in Nat
      BY <1>1 DEF D
    <2>2. ~(n - y < n - x)
      BY <1>4, <1>5, <2>1 DEF R, OpToRel
    <2> QED
      BY <1>1, <2>2
  <1>7. \E z \in S : \A y \in S : z >= y
    BY <1>6
  <1>8. (CHOOSE z \in S : \A y \in S : z >= y) \in S
    BY <1>7
  <1> QED
    BY <1>8, TelemetryOperators

LEMMA OneRuns == ASSUME PipeInv PROVE T!OnePipeline
  <1>1. PICK running : running = {r \in T!Runtimes : live[r] # {}}
    OBVIOUS
  <1>2. \A r \in running : r \in {runtime, retiring} /\ r # None
    BY <1>1, RuntimesAre DEF PipeInv, CycleSound
  <1>3. runtime # None => retiring = None
    BY DEF PipeInv, CycleSound
  <1>4. \A r, s \in running : r = s
    BY <1>2, <1>3
  <1>5. Cardinality(running) <= 1
    <2>1. CASE running = {}
      BY <2>1, FS_EmptySet
    <2>2. ASSUME NEW s \in running PROVE Cardinality(running) <= 1
      <3>1. running = {s}
        BY <1>4
      <3>2. Cardinality({s}) = 1
        BY FS_Singleton
      <3> QED
        BY <3>1, <3>2
    <2> QED
      BY <2>1, <2>2
  <1>6. T!Cardinality(running) <= 1
    BY <1>5, TelemetryOperators
  <1> QED
    BY <1>1, <1>2, <1>6 DEF T!OnePipeline

LEMMA TelemetryTypes == ASSUME PipeInv PROVE T!TelemetryTypeOK
  <1>1. owners = T!Cardinality({l \in Lifespans : held[l] # None})
    BY TelemetryOperators DEF PipeInv, OwnersSound, Holders
  <1>2. runtimes \in 0 .. T!Cardinality(Lifespans)
    <2>1. Cardinality(Entered) \in Nat /\ Cardinality(Entered) <= Cardinality(Lifespans)
      <3>1. Entered \subseteq Lifespans
        BY DEF Entered
      <3> QED
        BY <3>1, ProcessAssumption, FS_Subset, FS_CardinalityType
    <2>2. runtimes \in Nat /\ runtimes <= Cardinality(Entered)
      BY DEF PipeInv, PipeValues
    <2>3. runtimes \in 0 .. Cardinality(Lifespans)
      BY <2>1, <2>2, RuntimesAre
    <2> QED
      BY <2>3, TelemetryOperators
  <1>3. redis \in Lifespans \cup {None}
    <2>1. PICK s \in Seq(Lifespans) : s = redisLifespans
      BY DEF PipeInv, AdaptersSound
    <2>2. redis = IF s = <<>> THEN None ELSE s[Len(s)]
      BY <2>1, TelemetryOperators DEF PipeInv, AdaptersSound, T!Newest
    <2>3. s # <<>> => s[Len(s)] \in Lifespans
      BY <2>1
    <2> QED
      BY <2>2, <2>3
  <1> QED
    BY <1>1, <1>2, <1>3 DEF T!TelemetryTypeOK, PipeInv, PipeValues, CycleSound

LEMMA OwnersKeep == ASSUME PipeInv PROVE T!OwnersKeepPipeline
  BY DEF T!OwnersKeepPipeline, PipeInv, OwnersSound, CycleSound

LEMMA ObservationsAgree == ASSUME PipeInv PROVE T!ObservationsBalance
  <1> SUFFICES ASSUME NEW r \in T!Runtimes
               PROVE  /\ inflight[r] = T!Cardinality({q \in T!Active :
                                         req[q].runtime = r /\ req[q].progress = "counted"})
                      /\ spans[r] = T!Cardinality({q \in T!Active :
                                         req[q].runtime = r /\ req[q].progress # "nothing"})
    BY DEF T!ObservationsBalance
  <1>1. {q \in T!Active : req[q].runtime = r /\ req[q].progress = "counted"} = CountedUnder(r)
    BY DEF CountedUnder, T!Active
  <1>2. {q \in T!Active : req[q].runtime = r /\ req[q].progress # "nothing"} = SpansUnder(r)
    BY DEF SpansUnder, T!Active
  <1>3. inflight[r] = Cardinality(CountedUnder(r)) /\ spans[r] = Cardinality(SpansUnder(r))
    BY DEF PipeInv, ObservationsSound
  <1> QED
    BY <1>1, <1>2, <1>3, TelemetryOperators

LEMMA LoopsAreServed == ASSUME PipeInv PROVE T!RedisServed
  <1>1. PICK s \in Seq(Lifespans) : s = redisLifespans
    BY DEF PipeInv, AdaptersSound
  <1>2. DOMAIN s = 1 .. Len(s) /\ Len(s) \in Nat /\ \A i \in 1 .. Len(s) : s[i] \in Lifespans
    OBVIOUS
  <1>3. /\ \A l \in Lifespans : place[l] \in {"running", "closing"} <=> \E i \in DOMAIN s : s[i] = l
        /\ \A l \in Lifespans : place[l] \in {"acquired", "running"} => open[l]
        /\ redis = T!Newest(s)
    BY <1>1 DEF PipeInv, AdaptersSound
  <1>4. None \notin Lifespans
    BY ProcessAssumption
  <1>5. ASSUME NEW l \in Lifespans, place[l] = "running"
        PROVE  LET a == T!AuthRedis(loop[l]) IN a # None /\ open[a] /\ loop[a] = loop[l]
    <2>1. PICK here : here = {i \in DOMAIN s : open[s[i]] /\ loop[s[i]] = loop[l]}
      OBVIOUS
    <2>2. here # {} /\ here \in SUBSET (1 .. Len(s))
      BY <1>2, <1>3, <1>5, <2>1
    <2>3. PICK m : m = T!Max(here)
      OBVIOUS
    <2>4. m \in here
      BY <1>2, <2>2, <2>3, MaxIsMember
    <2>5. s[m] \in Lifespans /\ open[s[m]] /\ loop[s[m]] = loop[l]
      BY <1>2, <2>1, <2>4
    <2>6. T!AuthRedis(loop[l]) = s[m]
      BY <1>1, <2>1, <2>2, <2>3 DEF T!AuthRedis
    <2> QED
      BY <1>4, <2>5, <2>6
  <1>6. ASSUME NEW l \in Lifespans, place[l] = "running",
               \A k \in Lifespans : place[k] # "closing"
        PROVE  redis # None /\ open[redis]
    <2>1. s # <<>>
      BY <1>2, <1>3, <1>6
    <2>2. redis = s[Len(s)]
      BY <1>3, <2>1, TelemetryOperators DEF T!Newest
    <2>3. Len(s) \in DOMAIN s
      BY <1>2, <2>1
    <2>4. redis \in Lifespans /\ place[redis] = "running"
      BY <1>2, <1>3, <1>6, <2>2, <2>3
    <2> QED
      BY <1>3, <1>4, <2>4
  <1> QED
    BY <1>5, <1>6 DEF T!RedisServed

(* The lifespans of one process share one telemetry pipeline, however many *)
(* there are and in whatever order they start, fail, retire and close: at  *)
(* most one has running resources and the lifecycle still refers to it, no *)
(* owner loses what it acquired, every observation ends where it began,    *)
(* every running lifespan finds an open Redis adapter of its loop, and the *)
(* pipeline never reports more acquisitions than are in progress           *)
(* (app/core/telemetry.py, app/main.py, app/core/diagnostics.py).          *)
THEOREM PipelineSharedHolds == ApiSpec => []PipelineShared
  <1>1. PoolInv /\ PoolCounts /\ PipeInv /\ GaugeSound => PipelineShared
    <2> SUFFICES ASSUME PoolInv, PoolCounts, PipeInv, GaugeSound PROVE PipelineShared
      OBVIOUS
    <2>1. GaugeNeverAbove
      BY DEF GaugeNeverAbove, GaugeSound, PoolCounts, Asking
    <2> QED
      BY <2>1, PoolTypes, TelemetryTypes, OneRuns, OwnersKeep, ObservationsAgree, LoopsAreServed
         DEF PipelineShared
  <1> QED
    BY <1>1, ProcessImplementsPool, PoolInvariance, PoolCountsInvariant, PipeInvHolds,
       GaugeSoundHolds, PTL

(***************************************************************************)
(* The rehearsal of a release                                              *)
(***************************************************************************)
-----------------------------------------------------------------------------
(* The inductive invariant *)

Steps == {"vacant", "mkdir", "postgres_password", "redis.conf", "backend.env", "state.json",
          "lock", "load", "backend", "front", "record", "api_stopped", "worker_stopped",
          "data", "upgrade", "upgraded", "images", "schema", "api", "worker", "running",
          "export_ca", "requests", "runtime", "down", "unlock"}

\* Everything an invocation does.
Program(a) ==
    IF a = "init" THEN Script(a) ELSE <<"lock", "load">> \o Script(a) \o <<"unlock">>

\* t is what is left of s.
Follows(t, s) ==
    /\ s \in Seq(Steps) /\ t \in Seq(Steps) /\ Len(t) <= Len(s)
    /\ \A i \in 1 .. Len(t) : t[i] = s[Len(s) - Len(t) + i]

\* The steps of s before what is left of it.
Before(t, s) == {s[i] : i \in 1 .. Len(s) - Len(t)}

\* The steps that p has worked off.
Past(p) == Before(todo[p], Program(job[p]))

Writers == {"api", "worker"}

\* No migration that still runs can change the schema.
Quiet == \A u \in upgrades : u.from = schema => u.to = schema

ProgramsFollowed ==
    /\ todo \in [Procs -> Seq(Steps)] /\ job \in [Procs -> Actions]
    /\ \A p \in Procs : Follows(todo[p], Program(job[p]))

\* The lock is its operation's, until that ends or is killed.
LockHeld == \A p \in Procs : Working(p) => lock = p

\* Every file is of the making of the directory, and state.json is the last one.
DirectorySound ==
    /\ \A f \in Files : files[f] # NoProcess => files[f] = made
    /\ files["state.json"] # NoProcess => \A f \in Files : files[f] # NoProcess

\* An initialization past its mkdir made the directory, and its files as far as it is.
InitializationSound(p) ==
    todo[p] # <<>> /\ job[p] = "init" /\ "mkdir" \in Past(p) =>
        /\ made = p
        /\ \A f \in Files : f \in Past(p) => files[f] = p

\* An operation past its load step: what each step that it took has left behind.
OperationSound(p) ==
    todo[p] # <<>> /\ "load" \in Past(p) =>
        /\ files["state.json"] # NoProcess
        /\ job[p] # "build" => loaded[p] = recordedImage
        /\ "backend" \in Past(p) => loaded[p] = built
        /\ "data" \in Past(p) => loaded[p] # 0
        /\ "api_stopped" \in Past(p) => Stopped("api")
        /\ "worker_stopped" \in Past(p) => Stopped("worker")
        /\ "schema" \in Past(p) => SchemaMatches(p) /\ Quiet
        /\ \A s \in Writers :
             s \in Past(p) \/ "runtime" \in Past(p) =>
                 service[s].image = recordedImage /\ service[s].state # "absent"

\* Migrations go forward, to a release no later than the recorded one.
UpgradesSound ==
    /\ recordedImage = 0 => schema = 0 /\ upgrades = {}
    /\ recordedImage # 0 => schema <= HeadOf[recordedImage]
    /\ \A u \in upgrades : u.from <= u.to /\ u.to <= HeadOf[recordedImage]
                           /\ u.to \in {HeadOf[i] : i \in Images}

\* A writer that runs, or that Docker restarts, has its schema, and keeps it.
WritersSound ==
    \A s \in Writers :
        service[s].state \in {"running", "restarting"} =>
            /\ service[s].image # 0 /\ HeadOf[service[s].image] = schema
            /\ Quiet

GatewayInv ==
    /\ GatewayTypeOK /\ built \in {0} \cup Images
    /\ ProgramsFollowed /\ LockHeld
    /\ DirectorySound /\ \A p \in Procs : InitializationSound(p)
    /\ \A p \in Procs : OperationSound(p)
    /\ UpgradesSound /\ WritersSound

-----------------------------------------------------------------------------
(* What the programs are *)

LEMMA Joined ==
  ASSUME NEW s \in Seq(Steps), NEW t \in Seq(Steps)
  PROVE  /\ s \o t \in Seq(Steps) /\ Len(s \o t) = Len(s) + Len(t)
         /\ \A i \in 1 .. Len(s) : (s \o t)[i] = s[i]
         /\ \A i \in 1 .. Len(t) : (s \o t)[Len(s) + i] = t[i]
  <1>1. /\ s \o t \in Seq(Steps) /\ Len(s \o t) = Len(s) + Len(t)
        /\ \A i \in 1 .. Len(s) + Len(t) :
             (s \o t)[i] = IF i <= Len(s) THEN s[i] ELSE t[i - Len(s)]
    BY ConcatProperties
  <1>2. Len(s) \in Nat /\ Len(t) \in Nat
    OBVIOUS
  <1> QED
    BY <1>1, <1>2

\* An operation takes the lock and reads the state, and removes its lock at the end.
LEMMA Framed ==
  ASSUME NEW s \in Seq(Steps), NEW p, p = <<"lock", "load">> \o s \o <<"unlock">>
  PROVE  /\ p \in Seq(Steps) /\ Len(p) = Len(s) + 3
         /\ p[1] = "lock" /\ p[2] = "load" /\ p[Len(s) + 3] = "unlock"
         /\ \A i \in 1 .. Len(s) : p[2 + i] = s[i]
  <1>1. <<"lock", "load">> \in Seq(Steps) /\ <<"unlock">> \in Seq(Steps)
    <2>1. <<"lock", "load">> \in Seq(Steps)
      BY DEF Steps
    <2>2. <<"unlock">> \in Seq(Steps)
      BY DEF Steps
    <2> QED
      BY <2>1, <2>2
  <1>2. PICK h \in Seq(Steps), e \in Seq(Steps) : h = <<"lock", "load">> /\ e = <<"unlock">>
    BY <1>1
  <1>3. Len(h) = 2 /\ h[1] = "lock" /\ h[2] = "load" /\ Len(e) = 1 /\ e[1] = "unlock"
    BY <1>2
  <1>4. PICK q : q = h \o s
    OBVIOUS
  <1>5. /\ q \in Seq(Steps) /\ Len(q) = 2 + Len(s)
        /\ \A i \in 1 .. 2 : q[i] = h[i]
        /\ \A i \in 1 .. Len(s) : q[2 + i] = s[i]
    <2>1. /\ h \o s \in Seq(Steps) /\ Len(h \o s) = Len(h) + Len(s)
          /\ \A i \in 1 .. Len(h) : (h \o s)[i] = h[i]
          /\ \A i \in 1 .. Len(s) : (h \o s)[Len(h) + i] = s[i]
      BY Joined
    <2> QED
      BY <1>3, <1>4, <2>1
  <1>6. /\ q \o e \in Seq(Steps) /\ Len(q \o e) = Len(q) + Len(e)
        /\ \A i \in 1 .. Len(q) : (q \o e)[i] = q[i]
        /\ \A i \in 1 .. Len(e) : (q \o e)[Len(q) + i] = e[i]
    BY <1>5, Joined
  <1>7. p = q \o e /\ Len(s) \in Nat
    BY <1>2, <1>4
  <1>8. p[1] = "lock" /\ p[2] = "load"
    BY <1>3, <1>5, <1>6, <1>7
  <1>9. p[Len(s) + 3] = "unlock"
    <2>1. (q \o e)[Len(q) + 1] = e[1]
      BY <1>3, <1>6
    <2> QED
      BY <1>3, <1>5, <1>7, <2>1
  <1>10. \A i \in 1 .. Len(s) : p[2 + i] = s[i]
    BY <1>5, <1>6, <1>7
  <1> QED
    BY <1>3, <1>5, <1>6, <1>7, <1>8, <1>9, <1>10

LEMMA ProgramInit ==
  ASSUME NEW P, P = Program("init")
  PROVE  /\ P \in Seq(Steps) /\ Len(P) = 6 /\ P[1] = "vacant" /\ P[2] = "mkdir"
         /\ P[3] = "postgres_password" /\ P[4] = "redis.conf" /\ P[5] = "backend.env"
         /\ P[6] = "state.json"
  BY DEF Program, Script, Initialize, Steps

LEMMA ProgramBuild ==
  ASSUME NEW P, P = Program("build")
  PROVE  /\ P \in Seq(Steps) /\ Len(P) = 6 /\ P[1] = "lock" /\ P[2] = "load"
         /\ P[3] = "backend" /\ P[4] = "front" /\ P[5] = "record" /\ P[6] = "unlock"
  <1>1. Script("build") \in Seq(Steps)
    BY DEF Script, Build, Steps
  <1>2. PICK s \in Seq(Steps) : s = Script("build")
    BY <1>1
  <1>3. /\ Len(s) = 3 /\ s[1] = "backend" /\ s[2] = "front" /\ s[3] = "record"
    BY <1>2 DEF Script, Build
  <1>4. P = <<"lock", "load">> \o s \o <<"unlock">>
    BY <1>2 DEF Program
  <1>5. /\ P \in Seq(Steps) /\ Len(P) = Len(s) + 3
        /\ P[1] = "lock" /\ P[2] = "load" /\ P[Len(s) + 3] = "unlock"
        /\ \A i \in 1 .. Len(s) : P[2 + i] = s[i]
    BY <1>4, Framed
  <1>6. /\ P[2 + 1] = s[1] /\ P[2 + 2] = s[2] /\ P[2 + 3] = s[3]
    <2>1. \A i \in 1 .. 3 : P[2 + i] = s[i]
      BY <1>3, <1>5
    <2> QED
      BY <2>1
  <1> QED
    BY <1>3, <1>5, <1>6

LEMMA ProgramMigrate ==
  ASSUME NEW P, P = Program("migrate")
  PROVE  /\ P \in Seq(Steps) /\ Len(P) = 8 /\ P[1] = "lock" /\ P[2] = "load"
         /\ P[3] = "api_stopped" /\ P[4] = "worker_stopped" /\ P[5] = "data"
         /\ P[6] = "upgrade" /\ P[7] = "upgraded" /\ P[8] = "unlock"
  <1>1. Script("migrate") \in Seq(Steps)
    BY DEF Script, Migrate, Steps
  <1>2. PICK s \in Seq(Steps) : s = Script("migrate")
    BY <1>1
  <1>3. /\ Len(s) = 5 /\ s[1] = "api_stopped" /\ s[2] = "worker_stopped" /\ s[3] = "data"
        /\ s[4] = "upgrade" /\ s[5] = "upgraded"
    BY <1>2 DEF Script, Migrate
  <1>4. P = <<"lock", "load">> \o s \o <<"unlock">>
    BY <1>2 DEF Program
  <1>5. /\ P \in Seq(Steps) /\ Len(P) = Len(s) + 3
        /\ P[1] = "lock" /\ P[2] = "load" /\ P[Len(s) + 3] = "unlock"
        /\ \A i \in 1 .. Len(s) : P[2 + i] = s[i]
    BY <1>4, Framed
  <1>6. /\ P[2 + 1] = s[1] /\ P[2 + 2] = s[2] /\ P[2 + 3] = s[3] /\ P[2 + 4] = s[4]
        /\ P[2 + 5] = s[5]
    <2>1. \A i \in 1 .. 5 : P[2 + i] = s[i]
      BY <1>3, <1>5
    <2> QED
      BY <2>1
  <1> QED
    BY <1>3, <1>5, <1>6

LEMMA ProgramUp ==
  ASSUME NEW P, P = Program("up")
  PROVE  /\ P \in Seq(Steps) /\ Len(P) = 10 /\ P[1] = "lock" /\ P[2] = "load"
         /\ P[3] = "images" /\ P[4] = "data" /\ P[5] = "schema" /\ P[6] = "api"
         /\ P[7] = "worker" /\ P[8] = "running" /\ P[9] = "export_ca" /\ P[10] = "unlock"
  <1>1. Script("up") \in Seq(Steps)
    BY DEF Script, Start, Steps
  <1>2. PICK s \in Seq(Steps) : s = Script("up")
    BY <1>1
  <1>3. /\ Len(s) = 7 /\ s[1] = "images" /\ s[2] = "data" /\ s[3] = "schema" /\ s[4] = "api"
        /\ s[5] = "worker" /\ s[6] = "running" /\ s[7] = "export_ca"
    BY <1>2 DEF Script, Start
  <1>4. P = <<"lock", "load">> \o s \o <<"unlock">>
    BY <1>2 DEF Program
  <1>5. /\ P \in Seq(Steps) /\ Len(P) = Len(s) + 3
        /\ P[1] = "lock" /\ P[2] = "load" /\ P[Len(s) + 3] = "unlock"
        /\ \A i \in 1 .. Len(s) : P[2 + i] = s[i]
    BY <1>4, Framed
  <1>6. /\ P[2 + 1] = s[1] /\ P[2 + 2] = s[2] /\ P[2 + 3] = s[3] /\ P[2 + 4] = s[4]
        /\ P[2 + 5] = s[5] /\ P[2 + 6] = s[6] /\ P[2 + 7] = s[7]
    <2>1. \A i \in 1 .. 7 : P[2 + i] = s[i]
      BY <1>3, <1>5
    <2> QED
      BY <2>1
  <1> QED
    BY <1>3, <1>5, <1>6

LEMMA ProgramCheck ==
  ASSUME NEW P, P = Program("check")
  PROVE  /\ P \in Seq(Steps) /\ Len(P) = 6 /\ P[1] = "lock" /\ P[2] = "load"
         /\ P[3] = "export_ca" /\ P[4] = "requests" /\ P[5] = "runtime" /\ P[6] = "unlock"
  <1>1. Script("check") \in Seq(Steps)
    BY DEF Script, CheckRunning, Steps
  <1>2. PICK s \in Seq(Steps) : s = Script("check")
    BY <1>1
  <1>3. /\ Len(s) = 3 /\ s[1] = "export_ca" /\ s[2] = "requests" /\ s[3] = "runtime"
    BY <1>2 DEF Script, CheckRunning
  <1>4. P = <<"lock", "load">> \o s \o <<"unlock">>
    BY <1>2 DEF Program
  <1>5. /\ P \in Seq(Steps) /\ Len(P) = Len(s) + 3
        /\ P[1] = "lock" /\ P[2] = "load" /\ P[Len(s) + 3] = "unlock"
        /\ \A i \in 1 .. Len(s) : P[2 + i] = s[i]
    BY <1>4, Framed
  <1>6. /\ P[2 + 1] = s[1] /\ P[2 + 2] = s[2] /\ P[2 + 3] = s[3]
    <2>1. \A i \in 1 .. 3 : P[2 + i] = s[i]
      BY <1>3, <1>5
    <2> QED
      BY <2>1
  <1> QED
    BY <1>3, <1>5, <1>6

LEMMA ProgramRestart ==
  ASSUME NEW P, P = Program("restart")
  PROVE  /\ P \in Seq(Steps) /\ Len(P) = 14 /\ P[1] = "lock" /\ P[2] = "load"
         /\ P[3] = "export_ca" /\ P[4] = "requests" /\ P[5] = "down" /\ P[6] = "images"
         /\ P[7] = "data" /\ P[8] = "schema" /\ P[9] = "api" /\ P[10] = "worker"
         /\ P[11] = "running" /\ P[12] = "export_ca" /\ P[13] = "runtime" /\ P[14] = "unlock"
  <1>1. /\ <<"export_ca", "requests", "down">> \in Seq(Steps)
        /\ Start \in Seq(Steps) /\ <<"runtime">> \in Seq(Steps)
    BY DEF Start, Steps
  <1>2. PICK s \in Seq(Steps) : s = Script("restart")
    <2>1. Script("restart") \in Seq(Steps)
      BY <1>1, Joined DEF Script, CheckRestart
    <2> QED
      BY <2>1
  <1>3. /\ Len(s) = 11 /\ s[1] = "export_ca" /\ s[2] = "requests" /\ s[3] = "down"
        /\ s[4] = "images" /\ s[5] = "data" /\ s[6] = "schema" /\ s[7] = "api"
        /\ s[8] = "worker" /\ s[9] = "running" /\ s[10] = "export_ca" /\ s[11] = "runtime"
    <2>1. PICK h \in Seq(Steps), m \in Seq(Steps), e \in Seq(Steps) :
            h = <<"export_ca", "requests", "down">> /\ m = Start /\ e = <<"runtime">>
      BY <1>1
    <2>2. /\ Len(h) = 3 /\ h[1] = "export_ca" /\ h[2] = "requests" /\ h[3] = "down"
          /\ Len(e) = 1 /\ e[1] = "runtime"
      BY <2>1
    <2>3. /\ Len(m) = 7 /\ m[1] = "images" /\ m[2] = "data" /\ m[3] = "schema"
          /\ m[4] = "api" /\ m[5] = "worker" /\ m[6] = "running" /\ m[7] = "export_ca"
      BY <2>1 DEF Start
    <2>4. PICK q : q = h \o m
      OBVIOUS
    <2>5. /\ q \in Seq(Steps) /\ Len(q) = Len(h) + Len(m)
          /\ \A i \in 1 .. Len(h) : q[i] = h[i]
          /\ \A i \in 1 .. Len(m) : q[Len(h) + i] = m[i]
      BY <2>4, Joined
    <2>6. /\ Len(q) = 10 /\ q[1] = h[1] /\ q[2] = h[2] /\ q[3] = h[3]
          /\ q[3 + 1] = m[1] /\ q[3 + 2] = m[2] /\ q[3 + 3] = m[3] /\ q[3 + 4] = m[4]
          /\ q[3 + 5] = m[5] /\ q[3 + 6] = m[6] /\ q[3 + 7] = m[7]
      BY <2>2, <2>3, <2>5
    <2>7. s = q \o e
      BY <1>2, <2>1, <2>4 DEF Script, CheckRestart
    <2>8. /\ Len(s) = Len(q) + Len(e)
          /\ \A i \in 1 .. Len(q) : s[i] = q[i]
          /\ \A i \in 1 .. Len(e) : s[Len(q) + i] = e[i]
      <3>1. /\ Len(q \o e) = Len(q) + Len(e)
            /\ \A i \in 1 .. Len(q) : (q \o e)[i] = q[i]
            /\ \A i \in 1 .. Len(e) : (q \o e)[Len(q) + i] = e[i]
        BY <2>5, Joined
      <3> QED
        BY <2>7, <3>1
    <2>9. /\ Len(s) = 11 /\ s[10 + 1] = e[1]
          /\ \A i \in 1 .. 10 : s[i] = q[i]
      BY <2>2, <2>6, <2>8
    <2> QED
      BY <2>2, <2>3, <2>6, <2>9
  <1>4. P = <<"lock", "load">> \o s \o <<"unlock">>
    BY <1>2 DEF Program
  <1>5. /\ P \in Seq(Steps) /\ Len(P) = Len(s) + 3
        /\ P[1] = "lock" /\ P[2] = "load" /\ P[Len(s) + 3] = "unlock"
        /\ \A i \in 1 .. Len(s) : P[2 + i] = s[i]
    BY <1>4, Framed
  <1>6. /\ P[2 + 1] = s[1] /\ P[2 + 2] = s[2] /\ P[2 + 3] = s[3] /\ P[2 + 4] = s[4]
        /\ P[2 + 5] = s[5] /\ P[2 + 6] = s[6] /\ P[2 + 7] = s[7] /\ P[2 + 8] = s[8]
        /\ P[2 + 9] = s[9] /\ P[2 + 10] = s[10] /\ P[2 + 11] = s[11]
    <2>1. \A i \in 1 .. 11 : P[2 + i] = s[i]
      BY <1>3, <1>5
    <2> QED
      BY <2>1
  <1> QED
    BY <1>3, <1>5, <1>6

LEMMA ProgramDown ==
  ASSUME NEW P, P = Program("down")
  PROVE  /\ P \in Seq(Steps) /\ Len(P) = 4 /\ P[1] = "lock" /\ P[2] = "load" /\ P[3] = "down"
         /\ P[4] = "unlock"
  <1>1. Script("down") \in Seq(Steps)
    BY DEF Script, Steps
  <1>2. PICK s \in Seq(Steps) : s = Script("down")
    BY <1>1
  <1>3. /\ Len(s) = 1 /\ s[1] = "down"
    BY <1>2 DEF Script
  <1>4. P = <<"lock", "load">> \o s \o <<"unlock">>
    BY <1>2 DEF Program
  <1>5. /\ P \in Seq(Steps) /\ Len(P) = Len(s) + 3
        /\ P[1] = "lock" /\ P[2] = "load" /\ P[Len(s) + 3] = "unlock"
        /\ \A i \in 1 .. Len(s) : P[2 + i] = s[i]
    BY <1>4, Framed
  <1>6. /\ P[2 + 1] = s[1]
    <2>1. \A i \in 1 .. 1 : P[2 + i] = s[i]
      BY <1>3, <1>5
    <2> QED
      BY <2>1
  <1> QED
    BY <1>3, <1>5, <1>6

LEMMA ProgramStatus ==
  ASSUME NEW P, P = Program("status")
  PROVE  /\ P \in Seq(Steps) /\ Len(P) = 4 /\ P[1] = "lock" /\ P[2] = "load"
         /\ P[3] = "images" /\ P[4] = "unlock"
  <1>1. Script("status") \in Seq(Steps)
    BY DEF Script, Steps
  <1>2. PICK s \in Seq(Steps) : s = Script("status")
    BY <1>1
  <1>3. /\ Len(s) = 1 /\ s[1] = "images"
    BY <1>2 DEF Script
  <1>4. P = <<"lock", "load">> \o s \o <<"unlock">>
    BY <1>2 DEF Program
  <1>5. /\ P \in Seq(Steps) /\ Len(P) = Len(s) + 3
        /\ P[1] = "lock" /\ P[2] = "load" /\ P[Len(s) + 3] = "unlock"
        /\ \A i \in 1 .. Len(s) : P[2 + i] = s[i]
    BY <1>4, Framed
  <1>6. /\ P[2 + 1] = s[1]
    <2>1. \A i \in 1 .. 1 : P[2 + i] = s[i]
      BY <1>3, <1>5
    <2> QED
      BY <2>1
  <1> QED
    BY <1>3, <1>5, <1>6

-----------------------------------------------------------------------------
(* The order of the steps *)

\* Step x of a program, with the steps B before it and `left' steps after it.
Ordered(a, x, B, left) ==
    /\ a = "init" =>
         /\ x \in {"vacant", "mkdir"} \cup Files /\ B \subseteq {"vacant", "mkdir"} \cup Files
         /\ x \in {"vacant", "mkdir"} => "mkdir" \notin B /\ B \cap Files = {}
         /\ x \in Files => "mkdir" \in B
         /\ x = "state.json" => Files \ {x} \subseteq B
    /\ a # "init" =>
         /\ x \notin {"vacant", "mkdir"} \cup Files
         /\ x = "lock" => B = {}
         /\ x = "load" => B = {"lock"}
         /\ x \notin {"lock", "load"} => "load" \in B
         /\ x = "unlock" => left = 0
    /\ x \in {"backend", "record"} => a = "build"
    /\ a = "build" =>
         /\ B \subseteq {"lock", "load", "backend", "front", "record"}
         /\ x \in {"lock", "load", "backend", "front", "record", "unlock"}
    /\ x = "upgrade" =>
         a = "migrate" /\ {"data", "api_stopped", "worker_stopped"} \subseteq B
    /\ a = "migrate" =>
         B \subseteq {"lock", "load", "api_stopped", "worker_stopped", "data", "upgrade",
                      "upgraded"}
    /\ x \in Writers =>
         /\ "schema" \in B /\ B \cap {"api_stopped", "worker_stopped"} = {}
    /\ x = "down" => B \subseteq {"lock", "load", "export_ca", "requests"}
    /\ x = "schema" => "data" \in B
    /\ x = "record" => "backend" \in B
    /\ x = "unlock" /\ a = "up" => Writers \subseteq B
    /\ x = "unlock" /\ a \in {"check", "restart"} => "runtime" \in B

LEMMA OrderedInit ==
  ASSUME NEW P, P = Program("init"), NEW k \in 1 .. Len(P),
         NEW B, B = {P[i] : i \in 1 .. k - 1}
  PROVE  Ordered("init", P[k], B, Len(P) - k)
  <1>1. /\ Len(P) = 6 /\ P[1] = "vacant" /\ P[2] = "mkdir" /\ P[3] = "postgres_password"
        /\ P[4] = "redis.conf" /\ P[5] = "backend.env" /\ P[6] = "state.json"
    BY ProgramInit
  <1>2. CASE k = 1
    <2>1. P[k] = "vacant" /\ B = {}
      BY <1>1, <1>2
    <2> QED
      BY <1>1, <1>2, <2>1 DEF Ordered, Files, Writers
  <1>3. CASE k = 2
    <2>1. P[k] = "mkdir" /\ B = {"vacant"}
      BY <1>1, <1>3
    <2> QED
      BY <1>1, <1>3, <2>1 DEF Ordered, Files, Writers
  <1>4. CASE k = 3
    <2>1. P[k] = "postgres_password" /\ B = {"vacant", "mkdir"}
      BY <1>1, <1>4
    <2> QED
      BY <1>1, <1>4, <2>1 DEF Ordered, Files, Writers
  <1>5. CASE k = 4
    <2>1. P[k] = "redis.conf" /\ B = {"vacant", "mkdir", "postgres_password"}
      BY <1>1, <1>5
    <2> QED
      BY <1>1, <1>5, <2>1 DEF Ordered, Files, Writers
  <1>6. CASE k = 5
    <2>1. P[k] = "backend.env" /\ B = {"vacant", "mkdir", "postgres_password", "redis.conf"}
      BY <1>1, <1>6
    <2> QED
      BY <1>1, <1>6, <2>1 DEF Ordered, Files, Writers
  <1>7. CASE k = 6
    <2>1. P[k] = "state.json" /\ B = {"vacant", "mkdir", "postgres_password", "redis.conf",
                                      "backend.env"}
      BY <1>1, <1>7
    <2> QED
      BY <1>1, <1>7, <2>1 DEF Ordered, Files, Writers
  <1> QED
    BY <1>1, <1>2, <1>3, <1>4, <1>5, <1>6, <1>7

LEMMA OrderedBuild ==
  ASSUME NEW P, P = Program("build"), NEW k \in 1 .. Len(P),
         NEW B, B = {P[i] : i \in 1 .. k - 1}
  PROVE  Ordered("build", P[k], B, Len(P) - k)
  <1>1. /\ Len(P) = 6 /\ P[1] = "lock" /\ P[2] = "load" /\ P[3] = "backend"
        /\ P[4] = "front" /\ P[5] = "record" /\ P[6] = "unlock"
    BY ProgramBuild
  <1>2. CASE k = 1
    <2>1. P[k] = "lock" /\ B = {}
      BY <1>1, <1>2
    <2> QED
      BY <1>1, <1>2, <2>1 DEF Ordered, Files, Writers
  <1>3. CASE k = 2
    <2>1. P[k] = "load" /\ B = {"lock"}
      BY <1>1, <1>3
    <2> QED
      BY <1>1, <1>3, <2>1 DEF Ordered, Files, Writers
  <1>4. CASE k = 3
    <2>1. P[k] = "backend" /\ B = {"lock", "load"}
      BY <1>1, <1>4
    <2> QED
      BY <1>1, <1>4, <2>1 DEF Ordered, Files, Writers
  <1>5. CASE k = 4
    <2>1. P[k] = "front" /\ B = {"lock", "load", "backend"}
      BY <1>1, <1>5
    <2> QED
      BY <1>1, <1>5, <2>1 DEF Ordered, Files, Writers
  <1>6. CASE k = 5
    <2>1. P[k] = "record" /\ B = {"lock", "load", "backend", "front"}
      BY <1>1, <1>6
    <2> QED
      BY <1>1, <1>6, <2>1 DEF Ordered, Files, Writers
  <1>7. CASE k = 6
    <2>1. P[k] = "unlock" /\ B = {"lock", "load", "backend", "front", "record"}
      BY <1>1, <1>7
    <2> QED
      BY <1>1, <1>7, <2>1 DEF Ordered, Files, Writers
  <1> QED
    BY <1>1, <1>2, <1>3, <1>4, <1>5, <1>6, <1>7

LEMMA OrderedMigrate ==
  ASSUME NEW P, P = Program("migrate"), NEW k \in 1 .. Len(P),
         NEW B, B = {P[i] : i \in 1 .. k - 1}
  PROVE  Ordered("migrate", P[k], B, Len(P) - k)
  <1>1. /\ Len(P) = 8 /\ P[1] = "lock" /\ P[2] = "load" /\ P[3] = "api_stopped"
        /\ P[4] = "worker_stopped" /\ P[5] = "data" /\ P[6] = "upgrade" /\ P[7] = "upgraded"
        /\ P[8] = "unlock"
    BY ProgramMigrate
  <1>2. CASE k = 1
    <2>1. P[k] = "lock" /\ B = {}
      BY <1>1, <1>2
    <2> QED
      BY <1>1, <1>2, <2>1 DEF Ordered, Files, Writers
  <1>3. CASE k = 2
    <2>1. P[k] = "load" /\ B = {"lock"}
      BY <1>1, <1>3
    <2> QED
      BY <1>1, <1>3, <2>1 DEF Ordered, Files, Writers
  <1>4. CASE k = 3
    <2>1. P[k] = "api_stopped" /\ B = {"lock", "load"}
      BY <1>1, <1>4
    <2> QED
      BY <1>1, <1>4, <2>1 DEF Ordered, Files, Writers
  <1>5. CASE k = 4
    <2>1. P[k] = "worker_stopped" /\ B = {"lock", "load", "api_stopped"}
      BY <1>1, <1>5
    <2> QED
      BY <1>1, <1>5, <2>1 DEF Ordered, Files, Writers
  <1>6. CASE k = 5
    <2>1. P[k] = "data" /\ B = {"lock", "load", "api_stopped", "worker_stopped"}
      BY <1>1, <1>6
    <2> QED
      BY <1>1, <1>6, <2>1 DEF Ordered, Files, Writers
  <1>7. CASE k = 6
    <2>1. P[k] = "upgrade" /\ B = {"lock", "load", "api_stopped", "worker_stopped", "data"}
      BY <1>1, <1>7
    <2> QED
      BY <1>1, <1>7, <2>1 DEF Ordered, Files, Writers
  <1>8. CASE k = 7
    <2>1. P[k] = "upgraded" /\ B = {"lock", "load", "api_stopped", "worker_stopped", "data",
                                    "upgrade"}
      BY <1>1, <1>8
    <2> QED
      BY <1>1, <1>8, <2>1 DEF Ordered, Files, Writers
  <1>9. CASE k = 8
    <2>1. P[k] = "unlock" /\ B = {"lock", "load", "api_stopped", "worker_stopped", "data",
                                  "upgrade", "upgraded"}
      BY <1>1, <1>9
    <2> QED
      BY <1>1, <1>9, <2>1 DEF Ordered, Files, Writers
  <1> QED
    BY <1>1, <1>2, <1>3, <1>4, <1>5, <1>6, <1>7, <1>8, <1>9

LEMMA OrderedUp ==
  ASSUME NEW P, P = Program("up"), NEW k \in 1 .. Len(P),
         NEW B, B = {P[i] : i \in 1 .. k - 1}
  PROVE  Ordered("up", P[k], B, Len(P) - k)
  <1>1. /\ Len(P) = 10 /\ P[1] = "lock" /\ P[2] = "load" /\ P[3] = "images" /\ P[4] = "data"
        /\ P[5] = "schema" /\ P[6] = "api" /\ P[7] = "worker" /\ P[8] = "running"
        /\ P[9] = "export_ca" /\ P[10] = "unlock"
    BY ProgramUp
  <1>2. CASE k = 1
    <2>1. P[k] = "lock" /\ B = {}
      BY <1>1, <1>2
    <2> QED
      BY <1>1, <1>2, <2>1 DEF Ordered, Files, Writers
  <1>3. CASE k = 2
    <2>1. P[k] = "load" /\ B = {"lock"}
      BY <1>1, <1>3
    <2> QED
      BY <1>1, <1>3, <2>1 DEF Ordered, Files, Writers
  <1>4. CASE k = 3
    <2>1. P[k] = "images" /\ B = {"lock", "load"}
      BY <1>1, <1>4
    <2> QED
      BY <1>1, <1>4, <2>1 DEF Ordered, Files, Writers
  <1>5. CASE k = 4
    <2>1. P[k] = "data" /\ B = {"lock", "load", "images"}
      BY <1>1, <1>5
    <2> QED
      BY <1>1, <1>5, <2>1 DEF Ordered, Files, Writers
  <1>6. CASE k = 5
    <2>1. P[k] = "schema" /\ B = {"lock", "load", "images", "data"}
      BY <1>1, <1>6
    <2> QED
      BY <1>1, <1>6, <2>1 DEF Ordered, Files, Writers
  <1>7. CASE k = 6
    <2>1. P[k] = "api" /\ B = {"lock", "load", "images", "data", "schema"}
      BY <1>1, <1>7
    <2> QED
      BY <1>1, <1>7, <2>1 DEF Ordered, Files, Writers
  <1>8. CASE k = 7
    <2>1. P[k] = "worker" /\ B = {"lock", "load", "images", "data", "schema", "api"}
      BY <1>1, <1>8
    <2> QED
      BY <1>1, <1>8, <2>1 DEF Ordered, Files, Writers
  <1>9. CASE k = 8
    <2>1. P[k] = "running" /\ B = {"lock", "load", "images", "data", "schema", "api",
                                   "worker"}
      BY <1>1, <1>9
    <2> QED
      BY <1>1, <1>9, <2>1 DEF Ordered, Files, Writers
  <1>10. CASE k = 9
    <2>1. P[k] = "export_ca" /\ B = {"lock", "load", "images", "data", "schema", "api",
                                     "worker", "running"}
      BY <1>1, <1>10
    <2> QED
      BY <1>1, <1>10, <2>1 DEF Ordered, Files, Writers
  <1>11. CASE k = 10
    <2>1. P[k] = "unlock" /\ B = {"lock", "load", "images", "data", "schema", "api",
                                  "worker", "running", "export_ca"}
      BY <1>1, <1>11
    <2>2. Len(P) - k = 0
      BY <1>1, <1>11
    <2>3. PICK left : left = Len(P) - k
      OBVIOUS
    <2>4. Ordered("up", P[k], B, left)
      BY <2>1, <2>2, <2>3 DEF Ordered, Files, Writers
    <2> QED
      BY <2>3, <2>4
  <1> QED
    BY <1>1, <1>2, <1>3, <1>4, <1>5, <1>6, <1>7, <1>8, <1>9, <1>10, <1>11

LEMMA OrderedCheck ==
  ASSUME NEW P, P = Program("check"), NEW k \in 1 .. Len(P),
         NEW B, B = {P[i] : i \in 1 .. k - 1}
  PROVE  Ordered("check", P[k], B, Len(P) - k)
  <1>1. /\ Len(P) = 6 /\ P[1] = "lock" /\ P[2] = "load" /\ P[3] = "export_ca"
        /\ P[4] = "requests" /\ P[5] = "runtime" /\ P[6] = "unlock"
    BY ProgramCheck
  <1>2. CASE k = 1
    <2>1. P[k] = "lock" /\ B = {}
      BY <1>1, <1>2
    <2> QED
      BY <1>1, <1>2, <2>1 DEF Ordered, Files, Writers
  <1>3. CASE k = 2
    <2>1. P[k] = "load" /\ B = {"lock"}
      BY <1>1, <1>3
    <2> QED
      BY <1>1, <1>3, <2>1 DEF Ordered, Files, Writers
  <1>4. CASE k = 3
    <2>1. P[k] = "export_ca" /\ B = {"lock", "load"}
      BY <1>1, <1>4
    <2> QED
      BY <1>1, <1>4, <2>1 DEF Ordered, Files, Writers
  <1>5. CASE k = 4
    <2>1. P[k] = "requests" /\ B = {"lock", "load", "export_ca"}
      BY <1>1, <1>5
    <2> QED
      BY <1>1, <1>5, <2>1 DEF Ordered, Files, Writers
  <1>6. CASE k = 5
    <2>1. P[k] = "runtime" /\ B = {"lock", "load", "export_ca", "requests"}
      BY <1>1, <1>6
    <2> QED
      BY <1>1, <1>6, <2>1 DEF Ordered, Files, Writers
  <1>7. CASE k = 6
    <2>1. P[k] = "unlock" /\ B = {"lock", "load", "export_ca", "requests", "runtime"}
      BY <1>1, <1>7
    <2> QED
      BY <1>1, <1>7, <2>1 DEF Ordered, Files, Writers
  <1> QED
    BY <1>1, <1>2, <1>3, <1>4, <1>5, <1>6, <1>7

LEMMA OrderedRestart ==
  ASSUME NEW P, P = Program("restart"), NEW k \in 1 .. Len(P),
         NEW B, B = {P[i] : i \in 1 .. k - 1}
  PROVE  Ordered("restart", P[k], B, Len(P) - k)
  <1>1. /\ Len(P) = 14 /\ P[1] = "lock" /\ P[2] = "load" /\ P[3] = "export_ca"
        /\ P[4] = "requests" /\ P[5] = "down" /\ P[6] = "images" /\ P[7] = "data"
        /\ P[8] = "schema" /\ P[9] = "api" /\ P[10] = "worker" /\ P[11] = "running"
        /\ P[12] = "export_ca" /\ P[13] = "runtime" /\ P[14] = "unlock"
    BY ProgramRestart
  <1>2. CASE k = 1
    <2>1. P[k] = "lock" /\ B = {}
      BY <1>1, <1>2
    <2> QED
      BY <1>1, <1>2, <2>1 DEF Ordered, Files, Writers
  <1>3. CASE k = 2
    <2>1. P[k] = "load" /\ B = {"lock"}
      BY <1>1, <1>3
    <2> QED
      BY <1>1, <1>3, <2>1 DEF Ordered, Files, Writers
  <1>4. CASE k = 3
    <2>1. P[k] = "export_ca" /\ B = {"lock", "load"}
      BY <1>1, <1>4
    <2> QED
      BY <1>1, <1>4, <2>1 DEF Ordered, Files, Writers
  <1>5. CASE k = 4
    <2>1. P[k] = "requests" /\ B = {"lock", "load", "export_ca"}
      BY <1>1, <1>5
    <2> QED
      BY <1>1, <1>5, <2>1 DEF Ordered, Files, Writers
  <1>6. CASE k = 5
    <2>1. P[k] = "down" /\ B = {"lock", "load", "export_ca", "requests"}
      BY <1>1, <1>6
    <2> QED
      BY <1>1, <1>6, <2>1 DEF Ordered, Files, Writers
  <1>7. CASE k = 6
    <2>1. P[k] = "images" /\ B = {"lock", "load", "export_ca", "requests", "down"}
      BY <1>1, <1>7
    <2> QED
      BY <1>1, <1>7, <2>1 DEF Ordered, Files, Writers
  <1>8. CASE k = 7
    <2>1. P[k] = "data" /\ B = {"lock", "load", "export_ca", "requests", "down", "images"}
      BY <1>1, <1>8
    <2> QED
      BY <1>1, <1>8, <2>1 DEF Ordered, Files, Writers
  <1>9. CASE k = 8
    <2>1. P[k] = "schema" /\ B = {"lock", "load", "export_ca", "requests", "down", "images",
                                  "data"}
      BY <1>1, <1>9
    <2> QED
      BY <1>1, <1>9, <2>1 DEF Ordered, Files, Writers
  <1>10. CASE k = 9
    <2>1. P[k] = "api" /\ B = {"lock", "load", "export_ca", "requests", "down", "images",
                               "data", "schema"}
      BY <1>1, <1>10
    <2> QED
      BY <1>1, <1>10, <2>1 DEF Ordered, Files, Writers
  <1>11. CASE k = 10
    <2>1. P[k] = "worker" /\ B = {"lock", "load", "export_ca", "requests", "down", "images",
                                  "data", "schema", "api"}
      BY <1>1, <1>11
    <2> QED
      BY <1>1, <1>11, <2>1 DEF Ordered, Files, Writers
  <1>12. CASE k = 11
    <2>1. P[k] = "running" /\ B = {"lock", "load", "export_ca", "requests", "down",
                                   "images", "data", "schema", "api", "worker"}
      BY <1>1, <1>12
    <2> QED
      BY <1>1, <1>12, <2>1 DEF Ordered, Files, Writers
  <1>13. CASE k = 12
    <2>1. P[k] = "export_ca" /\ B = {"lock", "load", "export_ca", "requests", "down",
                                     "images", "data", "schema", "api", "worker", "running"}
      BY <1>1, <1>13
    <2> QED
      BY <1>1, <1>13, <2>1 DEF Ordered, Files, Writers
  <1>14. CASE k = 13
    <2>1. P[k] = "runtime" /\ B = {"lock", "load", "export_ca", "requests", "down",
                                   "images", "data", "schema", "api", "worker", "running"}
      BY <1>1, <1>14
    <2> QED
      BY <1>1, <1>14, <2>1 DEF Ordered, Files, Writers
  <1>15. CASE k = 14
    <2>1. P[k] = "unlock" /\ B = {"lock", "load", "export_ca", "requests", "down", "images",
                                  "data", "schema", "api", "worker", "running", "runtime"}
      BY <1>1, <1>15
    <2>2. Len(P) - k = 0
      BY <1>1, <1>15
    <2>3. PICK left : left = Len(P) - k
      OBVIOUS
    <2>4. Ordered("restart", P[k], B, left)
      BY <2>1, <2>2, <2>3 DEF Ordered, Files, Writers
    <2> QED
      BY <2>3, <2>4
  <1>16. k = 1 \/ k = 2 \/ k = 3 \/ k = 4 \/ k = 5 \/ k = 6 \/ k = 7 \/ k = 8 \/ k = 9 \/
         k = 10 \/ k = 11 \/ k = 12 \/ k = 13 \/ k = 14
    <2>1. k \in 1 .. 14
      BY <1>1
    <2>2. k \in Nat /\ 1 <= k /\ k <= 14
      BY <2>1
    <2> QED
      BY <2>2
  <1> QED
    BY <1>16, <1>2, <1>3, <1>4, <1>5, <1>6, <1>7, <1>8, <1>9, <1>10, <1>11, <1>12, <1>13, <1>14,
       <1>15

LEMMA OrderedDown ==
  ASSUME NEW P, P = Program("down"), NEW k \in 1 .. Len(P),
         NEW B, B = {P[i] : i \in 1 .. k - 1}
  PROVE  Ordered("down", P[k], B, Len(P) - k)
  <1>1. /\ Len(P) = 4 /\ P[1] = "lock" /\ P[2] = "load" /\ P[3] = "down" /\ P[4] = "unlock"
    BY ProgramDown
  <1>2. CASE k = 1
    <2>1. P[k] = "lock" /\ B = {}
      BY <1>1, <1>2
    <2> QED
      BY <1>1, <1>2, <2>1 DEF Ordered, Files, Writers
  <1>3. CASE k = 2
    <2>1. P[k] = "load" /\ B = {"lock"}
      BY <1>1, <1>3
    <2> QED
      BY <1>1, <1>3, <2>1 DEF Ordered, Files, Writers
  <1>4. CASE k = 3
    <2>1. P[k] = "down" /\ B = {"lock", "load"}
      BY <1>1, <1>4
    <2> QED
      BY <1>1, <1>4, <2>1 DEF Ordered, Files, Writers
  <1>5. CASE k = 4
    <2>1. P[k] = "unlock" /\ B = {"lock", "load", "down"}
      BY <1>1, <1>5
    <2> QED
      BY <1>1, <1>5, <2>1 DEF Ordered, Files, Writers
  <1> QED
    BY <1>1, <1>2, <1>3, <1>4, <1>5

LEMMA OrderedStatus ==
  ASSUME NEW P, P = Program("status"), NEW k \in 1 .. Len(P),
         NEW B, B = {P[i] : i \in 1 .. k - 1}
  PROVE  Ordered("status", P[k], B, Len(P) - k)
  <1>1. /\ Len(P) = 4 /\ P[1] = "lock" /\ P[2] = "load" /\ P[3] = "images"
        /\ P[4] = "unlock"
    BY ProgramStatus
  <1>2. CASE k = 1
    <2>1. P[k] = "lock" /\ B = {}
      BY <1>1, <1>2
    <2> QED
      BY <1>1, <1>2, <2>1 DEF Ordered, Files, Writers
  <1>3. CASE k = 2
    <2>1. P[k] = "load" /\ B = {"lock"}
      BY <1>1, <1>3
    <2> QED
      BY <1>1, <1>3, <2>1 DEF Ordered, Files, Writers
  <1>4. CASE k = 3
    <2>1. P[k] = "images" /\ B = {"lock", "load"}
      BY <1>1, <1>4
    <2> QED
      BY <1>1, <1>4, <2>1 DEF Ordered, Files, Writers
  <1>5. CASE k = 4
    <2>1. P[k] = "unlock" /\ B = {"lock", "load", "images"}
      BY <1>1, <1>5
    <2> QED
      BY <1>1, <1>5, <2>1 DEF Ordered, Files, Writers
  <1> QED
    BY <1>1, <1>2, <1>3, <1>4, <1>5

\* Every program, as far as the invariant tells its steps apart.
LEMMA Programs ==
  ASSUME NEW a \in Actions, NEW P, P = Program(a)
  PROVE  P \in Seq(Steps) /\ Len(P) >= 1 /\ P # <<>> /\ (a # "init" => P[1] = "lock")
  <1>1. P \in Seq(Steps) /\ Len(P) >= 1 /\ (a # "init" => P[1] = "lock")
    <2>1. CASE a = "init"
      BY <2>1, ProgramInit
    <2>2. CASE a = "build"
      BY <2>2, ProgramBuild
    <2>3. CASE a = "migrate"
      BY <2>3, ProgramMigrate
    <2>4. CASE a = "up"
      BY <2>4, ProgramUp
    <2>5. CASE a = "check"
      BY <2>5, ProgramCheck
    <2>6. CASE a = "restart"
      BY <2>6, ProgramRestart
    <2>7. CASE a = "down"
      BY <2>7, ProgramDown
    <2>8. CASE a = "status"
      BY <2>8, ProgramStatus
    <2> QED
      BY <2>1, <2>2, <2>3, <2>4, <2>5, <2>6, <2>7, <2>8 DEF Actions
  <1> QED
    BY <1>1

LEMMA Orders ==
  ASSUME NEW a \in Actions, NEW P, P = Program(a), NEW k \in 1 .. Len(P),
         NEW B, B = {P[i] : i \in 1 .. k - 1}
  PROVE  Ordered(a, P[k], B, Len(P) - k)
  <1>1. CASE a = "init"
    BY <1>1, OrderedInit
  <1>2. CASE a = "build"
    BY <1>2, OrderedBuild
  <1>3. CASE a = "migrate"
    BY <1>3, OrderedMigrate
  <1>4. CASE a = "up"
    BY <1>4, OrderedUp
  <1>5. CASE a = "check"
    BY <1>5, OrderedCheck
  <1>6. CASE a = "restart"
    BY <1>6, OrderedRestart
  <1>7. CASE a = "down"
    BY <1>7, OrderedDown
  <1>8. CASE a = "status"
    BY <1>8, OrderedStatus
  <1> QED
    BY <1>1, <1>2, <1>3, <1>4, <1>5, <1>6, <1>7, <1>8 DEF Actions

\* Before its first step a program has done nothing; it may be left at any point.
LEMMA Started ==
  ASSUME NEW s \in Seq(Steps)
  PROVE  Follows(s, s) /\ Before(s, s) = {} /\ Follows(<<>>, s)
  <1>1. Len(s) \in Nat
    OBVIOUS
  <1>2. Follows(s, s)
    BY <1>1 DEF Follows
  <1>3. Before(s, s) = {}
    BY <1>1 DEF Before
  <1>4. <<>> \in Seq(Steps) /\ Len(<<>>) = 0
    OBVIOUS
  <1> QED
    BY <1>1, <1>2, <1>3, <1>4 DEF Follows

\* The next step of a program, and what is left of the program after it.
LEMMA Followed ==
  ASSUME NEW s, NEW t, Follows(t, s), t # <<>>
  PROVE  /\ \E k \in 1 .. Len(s) :
              /\ Head(t) = s[k] /\ Before(t, s) = {s[i] : i \in 1 .. k - 1}
              /\ k = Len(s) <=> Tail(t) = <<>>
         /\ Head(t) \in Steps /\ Tail(t) \in Seq(Steps)
         /\ Follows(Tail(t), s)
         /\ Before(Tail(t), s) = Before(t, s) \cup {Head(t)}
  <1>1. /\ s \in Seq(Steps) /\ t \in Seq(Steps) /\ Len(t) <= Len(s)
        /\ \A i \in 1 .. Len(t) : t[i] = s[Len(s) - Len(t) + i]
    BY DEF Follows
  <1>2. /\ Len(s) \in Nat /\ Len(t) \in Nat /\ Len(t) >= 1
    BY <1>1
  <1>3. PICK m \in Nat, n \in Nat : m = Len(t) /\ n = Len(s)
    BY <1>2
  <1>4. PICK k : k = n - m + 1
    OBVIOUS
  <1>5. k \in 1 .. n /\ m >= 1 /\ m <= n
    BY <1>1, <1>2, <1>3, <1>4
  <1>6. Head(t) = t[1] /\ t[1] \in Steps
    BY <1>1, <1>2
  <1>7. t[1] = s[k]
    <2>1. \A i \in 1 .. m : t[i] = s[n - m + i]
      BY <1>1, <1>3
    <2> QED
      BY <1>4, <1>5, <2>1
  <1>8. Before(t, s) = {s[i] : i \in 1 .. k - 1}
    <2>1. n - m = k - 1
      BY <1>4, <1>5
    <2> QED
      BY <1>3, <2>1 DEF Before
  <1>9. PICK r \in Seq(Steps) : r = Tail(t)
    <2>1. Tail(t) \in Seq(Steps)
      BY <1>1, HeadTailProperties
    <2> QED
      BY <2>1
  <1>10. Len(r) = m - 1 /\ \A i \in 1 .. m - 1 : r[i] = t[i + 1]
    BY <1>1, <1>2, <1>3, <1>9
  <1>11. Follows(r, s)
    <2>1. \A i \in 1 .. m - 1 : r[i] = s[n - (m - 1) + i]
      <3> SUFFICES ASSUME NEW i \in 1 .. m - 1 PROVE r[i] = s[n - (m - 1) + i]
        OBVIOUS
      <3>1. i + 1 \in 1 .. m /\ n - m + (i + 1) = n - (m - 1) + i
        BY <1>5
      <3>2. t[i + 1] = s[n - m + (i + 1)]
        BY <1>1, <1>3, <3>1
      <3> QED
        BY <1>10, <3>1, <3>2
    <2> QED
      BY <1>1, <1>3, <1>5, <1>9, <1>10, <2>1 DEF Follows
  <1>12. Before(r, s) = {s[i] : i \in 1 .. k}
    <2>1. n - (m - 1) = k
      BY <1>4, <1>5
    <2> QED
      BY <1>3, <1>10, <2>1 DEF Before
  <1>13. {s[i] : i \in 1 .. k} = {s[i] : i \in 1 .. k - 1} \cup {s[k]}
    <2>1. 1 .. k = (1 .. k - 1) \cup {k}
      BY <1>5
    <2> QED
      BY <2>1
  <1>14. k = n <=> r = <<>>
    <2>1. k = n <=> m = 1
      BY <1>4, <1>5
    <2>2. m = 1 <=> Len(r) = 0
      BY <1>5, <1>10
    <2>3. Len(r) = 0 <=> r = <<>>
      BY <1>9, EmptySeq
    <2> QED
      BY <2>1, <2>2, <2>3
  <1> QED
    BY <1>3, <1>5, <1>6, <1>7, <1>8, <1>9, <1>11, <1>12, <1>13, <1>14

-----------------------------------------------------------------------------
(* A step of an invocation, in its program *)

LEMMA NextStep ==
  ASSUME ProgramsFollowed, NEW p \in Procs, todo[p] # <<>>
  PROVE  /\ \E left \in Nat :
              /\ Ordered(job[p], Head(todo[p]), Past(p), left)
              /\ left = 0 => Tail(todo[p]) = <<>>
         /\ Head(todo[p]) \in Steps /\ Tail(todo[p]) \in Seq(Steps)
         /\ Follows(Tail(todo[p]), Program(job[p]))
         /\ Before(Tail(todo[p]), Program(job[p])) = Past(p) \cup {Head(todo[p])}
  <1>1. PICK a \in Actions, t \in Seq(Steps) : a = job[p] /\ t = todo[p]
    BY DEF ProgramsFollowed
  <1>2. PICK P : P = Program(a)
    OBVIOUS
  <1>3. Follows(t, P) /\ t # <<>>
    BY <1>1, <1>2 DEF ProgramsFollowed
  <1>4. /\ \E k \in 1 .. Len(P) :
              /\ Head(t) = P[k] /\ Before(t, P) = {P[i] : i \in 1 .. k - 1}
              /\ k = Len(P) <=> Tail(t) = <<>>
        /\ Head(t) \in Steps /\ Tail(t) \in Seq(Steps)
        /\ Follows(Tail(t), P)
        /\ Before(Tail(t), P) = Before(t, P) \cup {Head(t)}
    BY <1>3, Followed
  <1>5. PICK k \in 1 .. Len(P) :
              /\ Head(t) = P[k] /\ Before(t, P) = {P[i] : i \in 1 .. k - 1}
              /\ k = Len(P) <=> Tail(t) = <<>>
    BY <1>4
  <1>6. PICK B : B = {P[i] : i \in 1 .. k - 1}
    OBVIOUS
  <1>7. Ordered(a, P[k], B, Len(P) - k)
    BY <1>2, <1>6, Orders
  <1>8. Past(p) = Before(t, P) /\ B = Before(t, P)
    BY <1>1, <1>2, <1>5, <1>6 DEF Past
  <1>9. PICK left \in Nat : left = Len(P) - k
    <2>1. Len(P) \in Nat
      BY <1>3 DEF Follows
    <2> QED
      BY <1>5, <2>1
  <1>10. Ordered(a, Head(t), Past(p), left)
    BY <1>5, <1>7, <1>8, <1>9
  <1>11. left = 0 => Tail(t) = <<>>
    <2>1. Len(P) \in Nat
      BY <1>3 DEF Follows
    <2> QED
      BY <1>5, <1>9, <2>1
  <1> QED
    BY <1>1, <1>2, <1>4, <1>8, <1>10, <1>11

LEMMA Stepping ==
  ASSUME ProgramsFollowed, NEW p \in Procs, todo[p] # <<>>, Advance(p), job' = job
  PROVE  /\ ProgramsFollowed'
         /\ todo'[p] = Tail(todo[p]) /\ Past(p)' = Past(p) \cup {Head(todo[p])}
         /\ \A q \in Procs \ {p} : todo'[q] = todo[q] /\ Past(q)' = Past(q)
  <1>1. todo \in [Procs -> Seq(Steps)] /\ job \in [Procs -> Actions]
    BY DEF ProgramsFollowed
  <1>2. PICK r \in Seq(Steps) : r = Tail(todo[p])
    BY NextStep
  <1>3. todo' = [todo EXCEPT ![p] = r]
    BY <1>2 DEF Advance
  <1>4. todo'[p] = r /\ \A q \in Procs \ {p} : todo'[q] = todo[q]
    BY <1>1, <1>3
  <1>5. todo' \in [Procs -> Seq(Steps)]
    BY <1>1, <1>3
  <1>6. ProgramsFollowed'
    <2>1. ASSUME NEW q \in Procs PROVE Follows(todo'[q], Program(job[q]))
      <3>1. CASE q = p
        BY <1>2, <1>4, <3>1, NextStep
      <3>2. CASE q # p
        BY <1>4, <3>2 DEF ProgramsFollowed
      <3> QED
        BY <3>1, <3>2
    <2>2. ASSUME NEW q \in Procs PROVE Follows(todo[q], Program(job[q]))'
      <3>1. Program(job[q])' = Program(job[q])
        BY DEF Program, Script
      <3>2. PICK P, t : P = Program(job[q]) /\ t = todo'[q]
        OBVIOUS
      <3>3. Follows(t, P)
        BY <2>1, <3>2
      <3> QED
        BY <3>1, <3>2, <3>3 DEF Follows
    <2> QED
      BY <1>1, <1>5, <2>2 DEF ProgramsFollowed
  <1>7. Past(p)' = Past(p) \cup {Head(todo[p])}
    <2>1. Past(p)' = Before(todo'[p], Program(job[p]))
      BY DEF Past, Before, Program, Script
    <2> QED
      BY <1>2, <1>4, <2>1, NextStep
  <1>8. ASSUME NEW q \in Procs \ {p} PROVE Past(q)' = Past(q)
    <2>1. todo'[q] = todo[q]
      BY <1>4
    <2> QED
      BY <2>1 DEF Past, Before, Program, Script
  <1> QED
    BY <1>2, <1>4, <1>6, <1>7, <1>8

\* An invocation ends, whether it is done or not.
LEMMA Ending ==
  ASSUME ProgramsFollowed, NEW p \in Procs, todo' = [todo EXCEPT ![p] = <<>>], job' = job
  PROVE  /\ ProgramsFollowed' /\ todo'[p] = <<>>
         /\ \A q \in Procs \ {p} : todo'[q] = todo[q] /\ Past(q)' = Past(q)
  <1>1. todo \in [Procs -> Seq(Steps)] /\ job \in [Procs -> Actions]
    BY DEF ProgramsFollowed
  <1>2. PICK r \in Seq(Steps) : r = <<>>
    <2>1. <<>> \in Seq(Steps)
      OBVIOUS
    <2> QED
      BY <2>1
  <1>3. todo' = [todo EXCEPT ![p] = r]
    BY <1>2
  <1>4. todo'[p] = r /\ \A q \in Procs \ {p} : todo'[q] = todo[q]
    BY <1>1, <1>3
  <1>5. todo' \in [Procs -> Seq(Steps)]
    BY <1>1, <1>3
  <1>6. ProgramsFollowed'
    <2>1. ASSUME NEW q \in Procs PROVE Follows(todo'[q], Program(job[q]))
      <3>1. CASE q = p
        <4>1. Follows(todo[q], Program(job[q]))
          BY DEF ProgramsFollowed
        <4>2. Program(job[q]) \in Seq(Steps)
          BY <4>1 DEF Follows
        <4>3. Follows(r, Program(job[q]))
          BY <1>2, <4>2, Started
        <4> QED
          BY <1>4, <3>1, <4>3
      <3>2. CASE q # p
        BY <1>4, <3>2 DEF ProgramsFollowed
      <3> QED
        BY <3>1, <3>2
    <2>2. ASSUME NEW q \in Procs PROVE Follows(todo[q], Program(job[q]))'
      <3>1. Program(job[q])' = Program(job[q])
        BY DEF Program, Script
      <3>2. PICK P, t : P = Program(job[q]) /\ t = todo'[q]
        OBVIOUS
      <3>3. Follows(t, P)
        BY <2>1, <3>2
      <3> QED
        BY <3>1, <3>2, <3>3 DEF Follows
    <2> QED
      BY <1>1, <1>5, <2>2 DEF ProgramsFollowed
  <1>7. ASSUME NEW q \in Procs \ {p} PROVE Past(q)' = Past(q)
    <2>1. todo'[q] = todo[q]
      BY <1>4
    <2> QED
      BY <2>1 DEF Past, Before, Program, Script
  <1> QED
    BY <1>2, <1>4, <1>6, <1>7

\* Nothing happens to any invocation.
LEMMA Standing ==
  ASSUME ProgramsFollowed, todo' = todo, job' = job
  PROVE  ProgramsFollowed' /\ \A q \in Procs : Past(q)' = Past(q)
  <1>1. ProgramsFollowed'
    <2>1. ASSUME NEW q \in Procs PROVE Follows(todo[q], Program(job[q]))'
      <3>1. Program(job[q])' = Program(job[q])
        BY DEF Program, Script
      <3>2. PICK P, t : P = Program(job[q]) /\ t = todo[q]
        OBVIOUS
      <3>3. Follows(t, P)
        BY <3>2 DEF ProgramsFollowed
      <3> QED
        BY <3>1, <3>2, <3>3 DEF Follows
    <2> QED
      BY <2>1 DEF ProgramsFollowed
  <1>2. ASSUME NEW q \in Procs PROVE Past(q)' = Past(q)
    BY DEF Past, Before, Program, Script
  <1> QED
    BY <1>1, <1>2

LEMMA LoadedWorks ==
  ASSUME ProgramsFollowed, NEW p \in Procs, todo[p] # <<>>, "load" \in Past(p)
  PROVE  Working(p)
  <1>1. PICK left \in Nat : Ordered(job[p], Head(todo[p]), Past(p), left)
    BY NextStep
  <1>2. job[p] # "init"
    BY <1>1 DEF Ordered, Files
  <1>3. Head(todo[p]) # "lock"
    BY <1>1, <1>2 DEF Ordered
  <1> QED
    BY <1>2, <1>3 DEF Working

LEMMA WorkingLoaded ==
  ASSUME ProgramsFollowed, NEW p \in Procs, Working(p), Head(todo[p]) # "load"
  PROVE  "load" \in Past(p)
  <1>1. todo[p] # <<>> /\ job[p] # "init" /\ Head(todo[p]) # "lock"
    BY DEF Working
  <1>2. PICK left \in Nat : Ordered(job[p], Head(todo[p]), Past(p), left)
    BY <1>1, NextStep
  <1> QED
    BY <1>1, <1>2 DEF Ordered

\* While an operation works, no other one has read the state.
LEMMA Alone ==
  ASSUME ProgramsFollowed, LockHeld, NEW p \in Procs, Working(p), NEW q \in Procs \ {p}
  PROVE  ~ (todo[q] # <<>> /\ "load" \in Past(q))
  BY LoadedWorks DEF LockHeld

-----------------------------------------------------------------------------
(* What the steps of one kind have in common *)

\* A step of the operation that holds the lock leaves all others as they are.
LEMMA WorkingStep ==
  ASSUME GatewayInv, NEW p \in Procs, Working(p), Advance(p),
         UNCHANGED <<job, made, files, lock>>
  PROVE  /\ ProgramsFollowed' /\ LockHeld'
         /\ DirectorySound' /\ \A q \in Procs : InitializationSound(q)'
         /\ \A q \in Procs \ {p} : OperationSound(q)'
         /\ todo'[p] = Tail(todo[p]) /\ Past(p)' = Past(p) \cup {Head(todo[p])}
         /\ lock = p
  <1>1. /\ ProgramsFollowed /\ LockHeld /\ todo[p] # <<>>
        /\ Head(todo[p]) # "lock" /\ job[p] # "init" /\ lock = p
    BY DEF GatewayInv, Working, LockHeld
  <1>2. /\ ProgramsFollowed'
        /\ todo'[p] = Tail(todo[p]) /\ Past(p)' = Past(p) \cup {Head(todo[p])}
        /\ \A q \in Procs \ {p} : todo'[q] = todo[q] /\ Past(q)' = Past(q)
    BY <1>1, Stepping
  <1>3. LockHeld'
    <2>1. ASSUME NEW q \in Procs \ {p}, Working(q)' PROVE lock' = q
      <3>1. Working(q)
        BY <1>2, <2>1 DEF Working
      <3> QED
        BY <1>1, <3>1 DEF LockHeld
    <2> QED
      BY <1>1, <2>1 DEF LockHeld
  <1>4. DirectorySound'
    BY DEF GatewayInv, DirectorySound
  <1>5. ASSUME NEW q \in Procs PROVE InitializationSound(q)'
    <2>1. CASE q = p
      BY <1>1, <2>1 DEF InitializationSound
    <2>2. CASE q # p
      <3>1. InitializationSound(q)
        BY DEF GatewayInv
      <3> QED
        BY <1>2, <2>2, <3>1 DEF InitializationSound
    <2> QED
      BY <2>1, <2>2
  <1>6. ASSUME NEW q \in Procs \ {p} PROVE OperationSound(q)'
    <2>1. ~ (todo[q] # <<>> /\ "load" \in Past(q))
      BY <1>1, Alone
    <2> QED
      BY <1>2, <2>1 DEF OperationSound
  <1> QED
    BY <1>1, <1>2, <1>3, <1>4, <1>5, <1>6

\* An invocation that ends changes nothing else, but may remove its lock.
LEMMA Ended ==
  ASSUME GatewayInv, NEW p \in Procs, todo' = [todo EXCEPT ![p] = <<>>],
         lock' = lock \/ (lock = p /\ lock' = NoProcess), NoProcess \notin Procs,
         UNCHANGED <<made, files, recordedImage, job, loaded, built, service, schema, upgrades>>
  PROVE  GatewayInv'
  <1>1. ProgramsFollowed /\ LockHeld
    BY DEF GatewayInv
  <1>2. /\ ProgramsFollowed' /\ todo'[p] = <<>>
        /\ \A q \in Procs \ {p} : todo'[q] = todo[q] /\ Past(q)' = Past(q)
    BY <1>1, Ending
  <1>3. LockHeld'
    <2>1. ASSUME NEW q \in Procs, Working(q)' PROVE lock' = q
      <3>1. q # p
        BY <1>2, <2>1 DEF Working
      <3>2. Working(q)
        BY <1>2, <2>1, <3>1 DEF Working
      <3> QED
        BY <1>1, <3>1, <3>2 DEF LockHeld
    <2> QED
      BY <2>1 DEF LockHeld
  <1>4. ASSUME NEW q \in Procs PROVE InitializationSound(q)' /\ OperationSound(q)'
    <2>1. CASE q = p
      BY <1>2, <2>1 DEF InitializationSound, OperationSound
    <2>2. CASE q # p
      <3>1. InitializationSound(q) /\ OperationSound(q)
        BY DEF GatewayInv
      <3>2. todo'[q] = todo[q] /\ Past(q)' = Past(q)
        BY <1>2, <2>2
      <3>3. InitializationSound(q)'
        BY <3>1, <3>2 DEF InitializationSound
      <3>4. OperationSound(q)'
        BY <3>1, <3>2 DEF OperationSound, Stopped, SchemaMatches, Quiet
      <3> QED
        BY <3>3, <3>4
    <2> QED
      BY <2>1, <2>2
  <1>5. GatewayTypeOK'
    <2>1. lock' \in Procs \union {NoProcess}
      BY DEF GatewayInv, GatewayTypeOK
    <2> QED
      BY <2>1 DEF GatewayInv, GatewayTypeOK
  <1>6. DirectorySound' /\ UpgradesSound' /\ WritersSound' /\ (built \in {0} \cup Images)'
    BY DEF GatewayInv, DirectorySound, UpgradesSound, WritersSound, Quiet
  <1> QED
    BY <1>2, <1>3, <1>4, <1>5, <1>6 DEF GatewayInv

\* A step of an initialization is of no concern to the operations.
LEMMA InitializationStep ==
  ASSUME GatewayInv, NEW p \in Procs, todo[p] # <<>>, job[p] = "init", Advance(p),
         files["state.json"] # NoProcess => files'["state.json"] # NoProcess,
         UNCHANGED <<job, recordedImage, lock, loaded, built, service, schema, upgrades>>
  PROVE  /\ ProgramsFollowed' /\ LockHeld' /\ \A q \in Procs : OperationSound(q)'
         /\ UpgradesSound' /\ WritersSound' /\ (built \in {0} \cup Images)'
         /\ todo'[p] = Tail(todo[p]) /\ Past(p)' = Past(p) \cup {Head(todo[p])}
         /\ \A q \in Procs \ {p} : todo'[q] = todo[q] /\ Past(q)' = Past(q)
  <1>1. ProgramsFollowed /\ LockHeld
    BY DEF GatewayInv
  <1>2. /\ ProgramsFollowed'
        /\ todo'[p] = Tail(todo[p]) /\ Past(p)' = Past(p) \cup {Head(todo[p])}
        /\ \A q \in Procs \ {p} : todo'[q] = todo[q] /\ Past(q)' = Past(q)
    BY <1>1, Stepping
  <1>3. LockHeld'
    <2>1. ASSUME NEW q \in Procs, Working(q)' PROVE lock' = q
      <3>1. q # p
        BY <2>1 DEF Working
      <3>2. Working(q)
        BY <1>2, <2>1, <3>1 DEF Working
      <3> QED
        BY <1>1, <3>2 DEF LockHeld
    <2> QED
      BY <2>1 DEF LockHeld
  <1>4. ASSUME NEW q \in Procs PROVE OperationSound(q)'
    <2>1. CASE q = p
      <3>1. PICK left \in Nat : Ordered(job[p], Head(todo[p]), Past(p), left)
        BY <1>1, NextStep
      <3>2. "load" \notin Past(p) /\ Head(todo[p]) # "load"
        BY <3>1 DEF Ordered, Files
      <3> QED
        BY <1>2, <2>1, <3>2 DEF OperationSound
    <2>2. CASE q # p
      <3>1. OperationSound(q)
        BY DEF GatewayInv
      <3>2. todo'[q] = todo[q] /\ Past(q)' = Past(q)
        BY <1>2, <2>2
      <3> QED
        BY <3>1, <3>2 DEF OperationSound, Stopped, SchemaMatches, Quiet
    <2> QED
      BY <2>1, <2>2
  <1>5. UpgradesSound' /\ WritersSound' /\ (built \in {0} \cup Images)'
    BY DEF GatewayInv, UpgradesSound, WritersSound, Quiet
  <1> QED
    BY <1>2, <1>3, <1>4, <1>5

\* What the world changes while no invocation takes a step.
LEMMA WorldStep ==
  ASSUME GatewayInv, UNCHANGED <<made, files, todo, job>>
  PROVE  /\ ProgramsFollowed' /\ DirectorySound'
         /\ \A q \in Procs : InitializationSound(q)' /\ Past(q)' = Past(q)
  <1>1. ProgramsFollowed' /\ \A q \in Procs : Past(q)' = Past(q)
    BY Standing DEF GatewayInv
  <1>2. ASSUME NEW q \in Procs PROVE InitializationSound(q)'
    <2>1. InitializationSound(q)
      BY DEF GatewayInv
    <2> QED
      BY <1>1, <2>1 DEF InitializationSound
  <1> QED
    BY <1>1, <1>2 DEF GatewayInv, DirectorySound

-----------------------------------------------------------------------------
(* The invariant holds at first, and every action preserves it *)

LEMMA GatewayInitial == GatewayInit => GatewayInv
  <1> SUFFICES ASSUME GatewayInit PROVE GatewayInv
    OBVIOUS
  <1> USE DEF GatewayInit
  <1>1. GatewayTypeOK
    <2>1. Absent \in [state : {"absent", "running", "restarting", "exited"}, image : 0 .. built]
      BY DEF Absent
    <2> QED
      BY <2>1 DEF GatewayTypeOK
  <1>2. \A p \in Procs : todo[p] = <<>>
    OBVIOUS
  <1>3. ProgramsFollowed
    <2>1. todo \in [Procs -> Seq(Steps)] /\ job \in [Procs -> Actions]
      <3>1. <<>> \in Seq(Steps) /\ "status" \in Actions
        BY DEF Actions
      <3> QED
        BY <3>1
    <2>2. ASSUME NEW p \in Procs PROVE Follows(todo[p], Program(job[p]))
      <3>1. PICK P : P = Program(job[p])
        OBVIOUS
      <3>2. P \in Seq(Steps)
        BY <2>1, <3>1, Programs
      <3> QED
        BY <1>2, <3>1, <3>2, Started
    <2> QED
      BY <2>1, <2>2 DEF ProgramsFollowed
  <1>4. LockHeld /\ \A p \in Procs : InitializationSound(p) /\ OperationSound(p)
    BY <1>2 DEF LockHeld, Working, InitializationSound, OperationSound
  <1>5. DirectorySound
    BY DEF DirectorySound, Files
  <1>6. UpgradesSound /\ WritersSound
    BY DEF UpgradesSound, WritersSound, Writers, Services, Absent
  <1> QED
    BY <1>1, <1>3, <1>4, <1>5, <1>6 DEF GatewayInv

LEMMA MainStep == ASSUME GatewayInv, NEW p \in Procs, Main(p) PROVE GatewayInv'
  <1>1. PICK a \in Actions :
          /\ job' = [job EXCEPT ![p] = a]
          /\ todo' = [todo EXCEPT ![p] =
                        IF a = "init" THEN Script(a)
                        ELSE <<"lock", "load">> \o Script(a) \o <<"unlock">>]
    BY DEF Main
  <1>2. PICK P : P = Program(a)
    OBVIOUS
  <1>3. todo' = [todo EXCEPT ![p] = P]
    BY <1>1, <1>2 DEF Program
  <1>4. P \in Seq(Steps) /\ Len(P) >= 1 /\ P # <<>> /\ (a # "init" => P[1] = "lock")
    BY <1>2, Programs
  <1>5. /\ todo[p] = <<>> /\ lock # p
        /\ UNCHANGED <<made, files, recordedImage, lock, loaded, built, service, schema,
                       upgrades>>
    BY DEF Main
  <1>6. todo \in [Procs -> Seq(Steps)] /\ job \in [Procs -> Actions]
    BY DEF GatewayInv, ProgramsFollowed
  <1>7. /\ todo'[p] = P /\ job'[p] = a
        /\ \A q \in Procs \ {p} : todo'[q] = todo[q] /\ job'[q] = job[q]
    BY <1>1, <1>3, <1>6
  <1>8. ProgramsFollowed'
    <2>1. todo' \in [Procs -> Seq(Steps)]
      BY <1>3, <1>4, <1>6
    <2>2. job' \in [Procs -> Actions]
      BY <1>1, <1>6
    <2>3. ASSUME NEW q \in Procs PROVE Follows(todo[q], Program(job[q]))'
      <3>1. PICK Q, t : Q = Program(job'[q]) /\ t = todo'[q]
        OBVIOUS
      <3>2. Follows(t, Q)
        <4>1. CASE q = p
          <5>1. Follows(P, P)
            BY <1>4, Started
          <5> QED
            BY <1>2, <1>7, <3>1, <4>1, <5>1
        <4>2. CASE q # p
          BY <1>7, <3>1, <4>2 DEF GatewayInv, ProgramsFollowed
        <4> QED
          BY <4>1, <4>2
      <3>3. Program(job[q])' = Program(job'[q])
        BY DEF Program, Script
      <3> QED
        BY <3>1, <3>2, <3>3 DEF Follows
    <2> QED
      BY <2>1, <2>2, <2>3 DEF ProgramsFollowed
  <1>9. Past(p)' = {}
    <2>1. Past(p)' = Before(todo'[p], Program(job'[p]))
      BY DEF Past, Before, Program, Script
    <2>2. Before(P, P) = {}
      BY <1>4, Started
    <2> QED
      BY <1>2, <1>7, <2>1, <2>2
  <1>10. ASSUME NEW q \in Procs \ {p} PROVE Past(q)' = Past(q)
    <2>1. Past(q)' = Before(todo'[q], Program(job'[q]))
      BY DEF Past, Before, Program, Script
    <2> QED
      BY <1>7, <2>1 DEF Past
  <1>11. LockHeld'
    <2>1. ASSUME NEW q \in Procs, Working(q)' PROVE lock' = q
      <3>1. q # p
        BY <1>4, <1>7, <2>1 DEF Working
      <3>2. Working(q)
        BY <1>7, <2>1, <3>1 DEF Working
      <3> QED
        BY <1>5, <3>2 DEF GatewayInv, LockHeld
    <2> QED
      BY <2>1 DEF LockHeld
  <1>12. ASSUME NEW q \in Procs PROVE InitializationSound(q)' /\ OperationSound(q)'
    <2>1. CASE q = p
      BY <1>9, <2>1 DEF InitializationSound, OperationSound
    <2>2. CASE q # p
      <3>1. InitializationSound(q) /\ OperationSound(q)
        BY DEF GatewayInv
      <3>2. todo'[q] = todo[q] /\ job'[q] = job[q] /\ Past(q)' = Past(q)
        BY <1>7, <1>10, <2>2
      <3>3. InitializationSound(q)'
        BY <1>5, <3>1, <3>2 DEF InitializationSound
      <3>4. OperationSound(q)'
        BY <1>5, <3>1, <3>2 DEF OperationSound, Stopped, SchemaMatches, Quiet
      <3> QED
        BY <3>3, <3>4
    <2> QED
      BY <2>1, <2>2
  <1>13. /\ GatewayTypeOK' /\ DirectorySound' /\ UpgradesSound' /\ WritersSound'
         /\ (built \in {0} \cup Images)'
    BY <1>5 DEF GatewayInv, GatewayTypeOK, DirectorySound, UpgradesSound, WritersSound, Quiet
  <1> QED
    BY <1>8, <1>11, <1>12, <1>13 DEF GatewayInv

LEMMA VacantStep ==
  ASSUME GatewayInv, NEW p \in Procs, Vacant(p), job' = job PROVE GatewayInv'
  <1>1. /\ todo[p] # <<>> /\ Head(todo[p]) = "vacant" /\ Advance(p)
        /\ UNCHANGED <<made, files, recordedImage, lock, loaded, built, service, schema,
                       upgrades>>
    BY DEF Vacant, At
  <1>2. PICK left \in Nat : Ordered(job[p], "vacant", Past(p), left)
    BY <1>1, NextStep DEF GatewayInv
  <1>3. job[p] = "init"
    BY <1>2 DEF Ordered
  <1>4. /\ ProgramsFollowed' /\ LockHeld' /\ \A q \in Procs : OperationSound(q)'
        /\ UpgradesSound' /\ WritersSound' /\ (built \in {0} \cup Images)'
        /\ todo'[p] = Tail(todo[p]) /\ Past(p)' = Past(p) \cup {Head(todo[p])}
        /\ \A q \in Procs \ {p} : todo'[q] = todo[q] /\ Past(q)' = Past(q)
    BY <1>1, <1>3, InitializationStep
  <1>5. ASSUME NEW q \in Procs PROVE InitializationSound(q)'
    <2>1. InitializationSound(q)
      BY DEF GatewayInv
    <2>2. CASE q = p
      <3>1. "mkdir" \notin Past(p)
        BY <1>2, <1>3 DEF Ordered
      <3> QED
        BY <1>1, <1>4, <2>2, <3>1 DEF InitializationSound
    <2>3. CASE q # p
      BY <1>1, <1>4, <2>1, <2>3 DEF InitializationSound
    <2> QED
      BY <2>2, <2>3
  <1>6. GatewayTypeOK' /\ DirectorySound'
    BY <1>1 DEF GatewayInv, GatewayTypeOK, DirectorySound
  <1> QED
    BY <1>4, <1>5, <1>6 DEF GatewayInv

LEMMA MakeDirectoryStep ==
  ASSUME GatewayInv, NEW p \in Procs, MakeDirectory(p), job' = job PROVE GatewayInv'
  <1>1. /\ todo[p] # <<>> /\ Head(todo[p]) = "mkdir" /\ Advance(p) /\ made = NoProcess /\ made' = p
        /\ UNCHANGED <<files, recordedImage, lock, loaded, built, service, schema, upgrades>>
    BY DEF MakeDirectory, At, Creatable
  <1>2. PICK left \in Nat : Ordered(job[p], "mkdir", Past(p), left)
    BY <1>1, NextStep DEF GatewayInv
  <1>3. job[p] = "init"
    BY <1>2 DEF Ordered
  <1>4. /\ ProgramsFollowed' /\ LockHeld' /\ \A q \in Procs : OperationSound(q)'
        /\ UpgradesSound' /\ WritersSound' /\ (built \in {0} \cup Images)'
        /\ todo'[p] = Tail(todo[p]) /\ Past(p)' = Past(p) \cup {Head(todo[p])}
        /\ \A q \in Procs \ {p} : todo'[q] = todo[q] /\ Past(q)' = Past(q)
    BY <1>1, <1>3, InitializationStep
  <1>5. \A f \in Files : files[f] = NoProcess
    BY <1>1 DEF GatewayInv, DirectorySound
  <1>6. ASSUME NEW q \in Procs PROVE InitializationSound(q)'
    <2>1. CASE q = p
      <3>1. Past(p) \cap Files = {} /\ "mkdir" \notin Files
        BY <1>2, <1>3 DEF Ordered, Files
      <3>2. \A f \in Files : f \notin Past(p)'
        BY <1>1, <1>4, <3>1
      <3> QED
        BY <1>1, <2>1, <3>2 DEF InitializationSound
    <2>2. CASE q # p
      <3>1. InitializationSound(q)
        BY DEF GatewayInv
      <3>2. ~ (todo[q] # <<>> /\ job[q] = "init" /\ "mkdir" \in Past(q))
        BY <1>1, <3>1, GatewayAssumption DEF InitializationSound
      <3> QED
        BY <1>4, <2>2, <3>2 DEF InitializationSound
    <2> QED
      BY <2>1, <2>2
  <1>7. DirectorySound' /\ GatewayTypeOK'
    BY <1>1, <1>5 DEF DirectorySound, GatewayTypeOK, GatewayInv, Files
  <1> QED
    BY <1>4, <1>6, <1>7 DEF GatewayInv

LEMMA WritePrivateStep ==
  ASSUME GatewayInv, NEW p \in Procs, WritePrivate(p), job' = job PROVE GatewayInv'
  <1>1. PICK f \in Files :
          /\ todo[p] # <<>> /\ Head(todo[p]) = f /\ Advance(p) /\ files[f] = NoProcess
          /\ files' = [files EXCEPT ![f] = p]
          /\ UNCHANGED <<made, recordedImage, lock, loaded, built, service, schema, upgrades>>
    BY DEF WritePrivate, At, Creatable
  <1>2. PICK left \in Nat : Ordered(job[p], f, Past(p), left)
    BY <1>1, NextStep DEF GatewayInv
  <1>3. /\ job[p] = "init" /\ "mkdir" \in Past(p)
        /\ f = "state.json" => Files \ {f} \subseteq Past(p)
    BY <1>2 DEF Ordered
  <1>4. /\ files'[f] = p
        /\ \A g \in Files \ {f} : files'[g] = files[g]
        /\ files' \in [Files -> Procs \union {NoProcess}]
    BY <1>1 DEF GatewayInv, GatewayTypeOK
  <1>5. "state.json" \in Files /\ NoProcess \notin Procs
    BY GatewayAssumption DEF Files
  <1>6. /\ ProgramsFollowed' /\ LockHeld' /\ \A q \in Procs : OperationSound(q)'
        /\ UpgradesSound' /\ WritersSound' /\ (built \in {0} \cup Images)'
        /\ todo'[p] = Tail(todo[p]) /\ Past(p)' = Past(p) \cup {Head(todo[p])}
        /\ \A q \in Procs \ {p} : todo'[q] = todo[q] /\ Past(q)' = Past(q)
    <2>1. files["state.json"] # NoProcess => files'["state.json"] # NoProcess
      BY <1>1, <1>4, <1>5
    <2> QED
      BY <1>1, <1>3, <2>1, InitializationStep
  <1>7. made = p /\ \A g \in Files : g \in Past(p) => files[g] = p
    <2>1. InitializationSound(p)
      BY DEF GatewayInv
    <2> QED
      BY <1>1, <1>3, <2>1 DEF InitializationSound
  <1>8. ASSUME NEW q \in Procs PROVE InitializationSound(q)'
    <2>1. CASE q = p
      <3>1. \A g \in Files : g \in Past(p)' => files'[g] = p
        BY <1>1, <1>4, <1>6, <1>7
      <3> QED
        BY <1>1, <1>7, <2>1, <3>1 DEF InitializationSound
    <2>2. CASE q # p
      <3>1. InitializationSound(q)
        BY DEF GatewayInv
      <3>2. ~ (todo[q] # <<>> /\ job[q] = "init" /\ "mkdir" \in Past(q))
        BY <1>7, <2>2, <3>1 DEF InitializationSound
      <3> QED
        BY <1>6, <2>2, <3>2 DEF InitializationSound
    <2> QED
      BY <2>1, <2>2
  <1>9. DirectorySound'
    <2>1. \A g \in Files : files'[g] # NoProcess => files'[g] = made'
      BY <1>1, <1>4, <1>7 DEF GatewayInv, DirectorySound
    <2>2. ASSUME files'["state.json"] # NoProcess, NEW g \in Files PROVE files'[g] # NoProcess
      <3>1. CASE f = "state.json"
        BY <1>3, <1>4, <1>5, <1>7, <3>1
      <3>2. CASE f # "state.json"
        BY <1>1, <1>4, <1>5, <2>2, <3>2 DEF GatewayInv, DirectorySound
      <3> QED
        BY <3>1, <3>2
    <2> QED
      BY <2>1, <2>2 DEF DirectorySound
  <1>10. GatewayTypeOK'
    BY <1>1, <1>4 DEF GatewayInv, GatewayTypeOK
  <1> QED
    BY <1>6, <1>8, <1>9, <1>10 DEF GatewayInv

LEMMA LockStep ==
  ASSUME GatewayInv, NEW p \in Procs, Lock(p), job' = job PROVE GatewayInv'
  <1>1. /\ todo[p] # <<>> /\ Head(todo[p]) = "lock" /\ Advance(p) /\ lock = NoProcess /\ lock' = p
        /\ UNCHANGED <<made, files, recordedImage, loaded, built, service, schema, upgrades>>
    BY DEF Lock, At
  <1>2. PICK left \in Nat : Ordered(job[p], "lock", Past(p), left)
    BY <1>1, NextStep DEF GatewayInv
  <1>3. job[p] # "init" /\ Past(p) = {}
    BY <1>2 DEF Ordered, Files
  <1>4. /\ ProgramsFollowed'
        /\ todo'[p] = Tail(todo[p]) /\ Past(p)' = Past(p) \cup {Head(todo[p])}
        /\ \A q \in Procs \ {p} : todo'[q] = todo[q] /\ Past(q)' = Past(q)
    BY <1>1, Stepping DEF GatewayInv
  <1>5. ASSUME NEW q \in Procs PROVE ~ Working(q)
    BY <1>1, GatewayAssumption DEF GatewayInv, LockHeld
  <1>6. LockHeld'
    <2>1. ASSUME NEW q \in Procs \ {p} PROVE ~ Working(q)'
      BY <1>4, <1>5 DEF Working
    <2> QED
      BY <1>1, <2>1 DEF LockHeld
  <1>7. ASSUME NEW q \in Procs PROVE OperationSound(q)'
    <2>1. CASE q = p
      BY <1>1, <1>3, <1>4, <2>1 DEF OperationSound
    <2>2. CASE q # p
      <3>1. ~ (todo[q] # <<>> /\ "load" \in Past(q))
        BY <1>5, LoadedWorks DEF GatewayInv
      <3> QED
        BY <1>4, <2>2, <3>1 DEF OperationSound
    <2> QED
      BY <2>1, <2>2
  <1>8. ASSUME NEW q \in Procs PROVE InitializationSound(q)'
    <2>1. InitializationSound(q)
      BY DEF GatewayInv
    <2>2. CASE q = p
      BY <1>3, <2>2 DEF InitializationSound
    <2>3. CASE q # p
      BY <1>1, <1>4, <2>1, <2>3 DEF InitializationSound
    <2> QED
      BY <2>2, <2>3
  <1>9. /\ GatewayTypeOK' /\ DirectorySound' /\ UpgradesSound' /\ WritersSound'
        /\ (built \in {0} \cup Images)'
    BY <1>1 DEF GatewayInv, GatewayTypeOK, DirectorySound, UpgradesSound, WritersSound, Quiet
  <1> QED
    BY <1>4, <1>6, <1>7, <1>8, <1>9 DEF GatewayInv

\* What is left to show of a step of the operation that holds the lock.
LEMMA WorkingStepInv ==
  ASSUME GatewayInv, NEW p \in Procs, Working(p), Advance(p),
         UNCHANGED <<job, made, files, lock>>,
         GatewayTypeOK', (built \in {0} \cup Images)', OperationSound(p)', UpgradesSound',
         WritersSound'
  PROVE  GatewayInv'
  <1>1. /\ ProgramsFollowed' /\ LockHeld'
        /\ DirectorySound' /\ \A q \in Procs : InitializationSound(q)'
        /\ \A q \in Procs \ {p} : OperationSound(q)'
    BY WorkingStep
  <1>2. \A q \in Procs : OperationSound(q)'
    BY <1>1
  <1> QED
    BY <1>1, <1>2 DEF GatewayInv

LEMMA LoadStep ==
  ASSUME GatewayInv, NEW p \in Procs, Load(p), job' = job PROVE GatewayInv'
  <1>1. /\ todo[p] # <<>> /\ Head(todo[p]) = "load" /\ Advance(p)
        /\ files["state.json"] # NoProcess /\ loaded' = [loaded EXCEPT ![p] = recordedImage]
        /\ UNCHANGED <<made, files, recordedImage, lock, built, service, schema, upgrades>>
    BY DEF Load, At
  <1>2. PICK left \in Nat : Ordered(job[p], "load", Past(p), left)
    BY <1>1, NextStep DEF GatewayInv
  <1>3. job[p] # "init" /\ Past(p) = {"lock"}
    BY <1>2 DEF Ordered, Files
  <1>4. Working(p)
    BY <1>1, <1>3 DEF Working
  <1>5. Past(p)' = {"lock", "load"}
    BY <1>1, <1>3, <1>4, WorkingStep
  <1>6. loaded'[p] = recordedImage /\ loaded' \in [Procs -> 0 .. built]
    BY <1>1 DEF GatewayInv, GatewayTypeOK
  <1>7. OperationSound(p)'
    BY <1>1, <1>5, <1>6 DEF OperationSound, Writers
  <1>8. /\ GatewayTypeOK' /\ UpgradesSound' /\ WritersSound' /\ (built \in {0} \cup Images)'
    BY <1>1, <1>6 DEF GatewayInv, GatewayTypeOK, UpgradesSound, WritersSound, Quiet
  <1> QED
    BY <1>1, <1>4, <1>7, <1>8, WorkingStepInv

LEMMA BuildImageStep ==
  ASSUME GatewayInv, NEW p \in Procs, BuildImage(p), job' = job PROVE GatewayInv'
  <1>1. /\ todo[p] # <<>> /\ Head(todo[p]) = "backend" /\ Advance(p)
        /\ built + 1 \in Images /\ built' = built + 1
        /\ loaded' = [loaded EXCEPT ![p] = built + 1]
        /\ UNCHANGED <<made, files, recordedImage, lock, service, schema, upgrades>>
    BY DEF BuildImage, At
  <1>2. PICK left \in Nat : Ordered(job[p], "backend", Past(p), left)
    BY <1>1, NextStep DEF GatewayInv
  <1>3. /\ job[p] = "build" /\ Past(p) \subseteq {"lock", "load", "backend", "front", "record"}
        /\ "load" \in Past(p)
    BY <1>2 DEF Ordered
  <1>4. Working(p)
    BY <1>1, <1>3 DEF Working
  <1>5. Past(p)' = Past(p) \cup {"backend"}
    BY <1>1, <1>4, WorkingStep
  <1>6. built \in Nat
    BY GatewayAssumption, FS_CardinalityType DEF GatewayInv
  <1>7. 0 .. built \subseteq 0 .. built'
    BY <1>1, <1>6
  <1>8. loaded'[p] = built' /\ loaded' \in [Procs -> 0 .. built']
    BY <1>1, <1>6, <1>7 DEF GatewayInv, GatewayTypeOK
  <1>9. OperationSound(p)'
    <2>1. files["state.json"] # NoProcess
      BY <1>1, <1>3 DEF GatewayInv, OperationSound
    <2> QED
      BY <1>1, <1>3, <1>5, <1>8, <2>1 DEF OperationSound, Writers
  <1>10. GatewayTypeOK'
    <2>1. service' \in [Services -> [state : {"absent", "running", "restarting", "exited"},
                                     image : 0 .. built']]
      BY <1>1, <1>7 DEF GatewayInv, GatewayTypeOK
    <2> QED
      BY <1>1, <1>7, <1>8, <2>1 DEF GatewayInv, GatewayTypeOK
  <1>11. UpgradesSound' /\ WritersSound' /\ (built \in {0} \cup Images)'
    BY <1>1 DEF GatewayInv, UpgradesSound, WritersSound, Quiet
  <1> QED
    BY <1>1, <1>4, <1>9, <1>10, <1>11, WorkingStepInv

LEMMA RecordImageStep ==
  ASSUME GatewayInv, NEW p \in Procs, RecordImage(p), job' = job PROVE GatewayInv'
  <1>1. /\ todo[p] # <<>> /\ Head(todo[p]) = "record" /\ Advance(p)
        /\ recordedImage' = loaded[p]
        /\ UNCHANGED <<made, files, lock, loaded, built, service, schema, upgrades>>
    BY DEF RecordImage, At
  <1>2. PICK left \in Nat : Ordered(job[p], "record", Past(p), left)
    BY <1>1, NextStep DEF GatewayInv
  <1>3. /\ job[p] = "build" /\ Past(p) \subseteq {"lock", "load", "backend", "front", "record"}
        /\ "load" \in Past(p) /\ "backend" \in Past(p)
    BY <1>2 DEF Ordered
  <1>4. Working(p)
    BY <1>1, <1>3 DEF Working
  <1>5. Past(p)' = Past(p) \cup {"record"}
    BY <1>1, <1>4, WorkingStep
  <1>6. loaded[p] = built /\ files["state.json"] # NoProcess
    BY <1>1, <1>3 DEF GatewayInv, OperationSound
  <1>7. built \in Nat /\ recordedImage \in 0 .. built /\ recordedImage' = built
    BY <1>1, <1>6, GatewayAssumption, FS_CardinalityType DEF GatewayInv, GatewayTypeOK
  <1>8. OperationSound(p)'
    BY <1>1, <1>3, <1>5, <1>6 DEF OperationSound, Writers
  <1>9. GatewayTypeOK'
    BY <1>1, <1>7 DEF GatewayInv, GatewayTypeOK
  <1>10. UpgradesSound'
    <2>1. PICK N \in Nat : Images = 1 .. N
      BY GatewayAssumption, FS_CardinalityType
    <2>2. built \in 0 .. N
      BY <2>1 DEF GatewayInv
    <2>3. /\ \A u \in upgrades : u.from <= u.to /\ u.to <= HeadOf[recordedImage]
                                 /\ u.to \in {HeadOf[i] : i \in Images}
          /\ \A u \in upgrades : u.from \in Nat /\ u.to \in Nat
          /\ recordedImage = 0 => schema = 0 /\ upgrades = {}
          /\ recordedImage # 0 => schema <= HeadOf[recordedImage]
          /\ schema \in {0} \cup {HeadOf[i] : i \in Images}
      BY DEF GatewayInv, GatewayTypeOK, UpgradesSound
    <2>4. CASE recordedImage = 0
      <3>1. schema = 0 /\ upgrades = {}
        BY <2>3, <2>4
      <3>2. built # 0 => schema <= HeadOf[built]
        BY <2>1, <2>2, <3>1, GatewayAssumption
      <3> QED
        BY <1>1, <1>7, <3>1, <3>2 DEF UpgradesSound
    <2>5. CASE recordedImage # 0
      <3>1. recordedImage \in Images /\ built \in Images /\ recordedImage <= built /\ built # 0
        BY <1>7, <2>1, <2>2, <2>5
      <3>2. /\ HeadOf[recordedImage] <= HeadOf[built]
            /\ HeadOf[recordedImage] \in Nat /\ HeadOf[built] \in Nat
        BY <3>1, GatewayAssumption
      <3>3. schema \in Nat
        BY <2>3, GatewayAssumption
      <3>4. schema <= HeadOf[built]
        BY <2>3, <2>5, <3>2, <3>3
      <3>5. \A u \in upgrades : u.to <= HeadOf[built]
        BY <2>3, <3>2
      <3> QED
        BY <1>1, <1>7, <2>3, <3>1, <3>4, <3>5 DEF UpgradesSound
    <2> QED
      BY <2>4, <2>5
  <1>11. WritersSound' /\ (built \in {0} \cup Images)'
    BY <1>1 DEF GatewayInv, WritersSound, Quiet
  <1> QED
    BY <1>1, <1>4, <1>8, <1>9, <1>10, <1>11, WorkingStepInv

LEMMA InspectStep ==
  ASSUME GatewayInv, NEW p \in Procs, Inspect(p), job' = job PROVE GatewayInv'
  <1>1. /\ todo[p] # <<>> /\ Advance(p)
        /\ UNCHANGED <<made, files, recordedImage, lock, loaded, built, service, schema,
                       upgrades>>
    BY DEF Inspect, At
  <1>2. PICK x : x = Head(todo[p])
    OBVIOUS
  <1>3. /\ x \in {"front", "images", "api_stopped", "worker_stopped", "upgraded", "schema",
                  "running", "export_ca", "requests", "runtime"}
        /\ x = "api_stopped" => Stopped("api")
        /\ x = "worker_stopped" => Stopped("worker")
        /\ x = "schema" => SchemaMatches(p)
        /\ x = "runtime" => RuntimeMatches(p)
    BY <1>2 DEF Inspect, At
  <1>4. PICK left \in Nat : Ordered(job[p], x, Past(p), left)
    BY <1>1, <1>2, NextStep DEF GatewayInv
  <1>5. /\ job[p] # "init" /\ "load" \in Past(p)
        /\ x = "schema" => "data" \in Past(p)
        /\ x \in {"schema", "runtime"} => job[p] # "build"
    BY <1>3, <1>4 DEF Ordered, Files
  <1>6. Working(p)
    BY <1>1, <1>2, <1>3, <1>5 DEF Working
  <1>7. Past(p)' = Past(p) \cup {x}
    BY <1>1, <1>2, <1>6, WorkingStep
  <1>8. OperationSound(p)
    BY DEF GatewayInv
  <1>9. x = "schema" => Quiet
    <2> SUFFICES ASSUME x = "schema", NEW u \in upgrades, u.from = schema
                 PROVE  u.to = schema
      BY DEF Quiet
    <2>1. loaded[p] = recordedImage /\ loaded[p] # 0
      BY <1>1, <1>5, <1>8 DEF OperationSound
    <2>2. schema = HeadOf[recordedImage]
      BY <1>3, <2>1 DEF SchemaMatches
    <2>3. u.from <= u.to /\ u.to <= HeadOf[recordedImage] /\ u.from \in Nat /\ u.to \in Nat
      BY DEF GatewayInv, UpgradesSound, GatewayTypeOK
    <2> QED
      BY <2>2, <2>3
  <1>10. ASSUME NEW s \in Writers, x = "runtime"
         PROVE  service[s].image = recordedImage /\ service[s].state # "absent"
    <2>1. loaded[p] = recordedImage
      BY <1>1, <1>5, <1>8, <1>10 DEF OperationSound
    <2> QED
      BY <1>3, <1>10, <2>1 DEF RuntimeMatches, Unpaused, Writers
  <1>11. OperationSound(p)'
    <2>1. /\ files["state.json"] # NoProcess
          /\ job[p] # "build" => loaded[p] = recordedImage
          /\ "backend" \in Past(p) \cup {x} => loaded[p] = built
          /\ "data" \in Past(p) \cup {x} => loaded[p] # 0
      BY <1>1, <1>3, <1>5, <1>8 DEF OperationSound
    <2>2. /\ "api_stopped" \in Past(p) \cup {x} => Stopped("api")
          /\ "worker_stopped" \in Past(p) \cup {x} => Stopped("worker")
          /\ "schema" \in Past(p) \cup {x} => SchemaMatches(p) /\ Quiet
      BY <1>1, <1>3, <1>5, <1>8, <1>9 DEF OperationSound
    <2>3. ASSUME NEW s \in Writers,
                 s \in Past(p) \cup {x} \/ "runtime" \in Past(p) \cup {x}
          PROVE  service[s].image = recordedImage /\ service[s].state # "absent"
      BY <1>1, <1>3, <1>5, <1>8, <1>10, <2>3 DEF OperationSound, Writers
    <2> QED
      BY <1>1, <1>7, <2>1, <2>2, <2>3 DEF OperationSound, Stopped, SchemaMatches, Quiet
  <1>12. GatewayTypeOK' /\ UpgradesSound' /\ WritersSound' /\ (built \in {0} \cup Images)'
    BY <1>1 DEF GatewayInv, GatewayTypeOK, UpgradesSound, WritersSound, Quiet
  <1> QED
    BY <1>1, <1>6, <1>11, <1>12, WorkingStepInv

LEMMA UpServiceStep ==
  ASSUME GatewayInv, NEW p \in Procs, Up(p), job' = job PROVE GatewayInv'
  <1>1. PICK x \in {"data", "api", "worker"} :
          /\ todo[p] # <<>> /\ Head(todo[p]) = x /\ Advance(p) /\ loaded[p] # 0
          /\ service' = [s \in Services |->
                            IF s \in Brings[x]
                            THEN [state |-> "running",
                                  image |-> IF s = "postgres" THEN 0 ELSE loaded[p]]
                            ELSE service[s]]
          /\ UNCHANGED <<made, files, recordedImage, lock, loaded, built, schema, upgrades>>
    BY DEF Up, At, Compose, Brings
  <1>2. PICK left \in Nat : Ordered(job[p], x, Past(p), left)
    BY <1>1, NextStep DEF GatewayInv
  <1>3. /\ job[p] # "init" /\ job[p] # "build" /\ "load" \in Past(p)
        /\ x \in Writers => "schema" \in Past(p) /\ "api_stopped" \notin Past(p)
                            /\ "worker_stopped" \notin Past(p)
    BY <1>2 DEF Ordered, Files
  <1>4. Working(p)
    BY <1>1, <1>3 DEF Working
  <1>5. Past(p)' = Past(p) \cup {x}
    BY <1>1, <1>4, WorkingStep
  <1>6. /\ files["state.json"] # NoProcess /\ loaded[p] = recordedImage
        /\ "backend" \in Past(p) => loaded[p] = built
        /\ "api_stopped" \in Past(p) => Stopped("api")
        /\ "worker_stopped" \in Past(p) => Stopped("worker")
        /\ "schema" \in Past(p) => SchemaMatches(p) /\ Quiet
        /\ \A s \in Writers :
             s \in Past(p) \/ "runtime" \in Past(p) =>
                 service[s].image = recordedImage /\ service[s].state # "absent"
    BY <1>1, <1>3 DEF GatewayInv, OperationSound
  <1>7. /\ x = "data" => \A s \in Writers : service'[s] = service[s]
        /\ x = "api" => /\ service'["worker"] = service["worker"]
                        /\ service'["api"] = [state |-> "running", image |-> loaded[p]]
        /\ x = "worker" => /\ service'["api"] = service["api"]
                           /\ service'["worker"] = [state |-> "running", image |-> loaded[p]]
    BY <1>1 DEF Brings, Services, Writers
  <1>8. ASSUME NEW s \in Writers
        PROVE  \/ service'[s] = service[s] /\ s # x
               \/ /\ service'[s].state = "running" /\ service'[s].image = loaded[p]
                  /\ x \in Writers
    BY <1>7 DEF Writers
  <1>9. OperationSound(p)'
    <2>1. /\ "api_stopped" \in Past(p) \cup {x} => service'["api"].state = service["api"].state
          /\ "worker_stopped" \in Past(p) \cup {x} =>
               service'["worker"].state = service["worker"].state
      BY <1>3, <1>7 DEF Writers
    <2>2. "api_stopped" \in Past(p)' => Stopped("api")'
      BY <1>5, <1>6, <2>1 DEF Stopped
    <2>3. "worker_stopped" \in Past(p)' => Stopped("worker")'
      BY <1>5, <1>6, <2>1 DEF Stopped
    <2>4. "schema" \in Past(p)' => SchemaMatches(p)' /\ Quiet'
      BY <1>1, <1>5, <1>6 DEF SchemaMatches, Quiet
    <2>5. ASSUME NEW s \in Writers, s \in Past(p)' \/ "runtime" \in Past(p)'
          PROVE  service'[s].image = recordedImage' /\ service'[s].state # "absent"
      <3>1. CASE service'[s] = service[s] /\ s # x
        BY <1>1, <1>5, <1>6, <2>5, <3>1
      <3>2. CASE service'[s].state = "running" /\ service'[s].image = loaded[p]
        BY <1>1, <1>6, <3>2
      <3> QED
        BY <1>8, <3>1, <3>2
    <2>6. /\ files'["state.json"] # NoProcess
          /\ job'[p] # "build" => loaded'[p] = recordedImage'
          /\ "backend" \in Past(p)' => loaded'[p] = built'
          /\ "data" \in Past(p)' => loaded'[p] # 0
      BY <1>1, <1>5, <1>6
    <2> QED
      BY <2>2, <2>3, <2>4, <2>5, <2>6 DEF OperationSound
  <1>10. GatewayTypeOK'
    <2>1. service' \in [Services -> [state : {"absent", "running", "restarting", "exited"},
                                     image : 0 .. built]]
      <3>1. loaded[p] \in 0 .. built /\ 0 \in 0 .. built
        <4>1. built \in Nat
          BY GatewayAssumption, FS_CardinalityType DEF GatewayInv
        <4> QED
          BY <4>1 DEF GatewayInv, GatewayTypeOK
      <3> QED
        BY <1>1, <3>1 DEF GatewayInv, GatewayTypeOK
    <2> QED
      BY <1>1, <2>1 DEF GatewayInv, GatewayTypeOK
  <1>11. WritersSound'
    <2>1. ASSUME NEW s \in Writers, service'[s].state \in {"running", "restarting"}
          PROVE  service'[s].image # 0 /\ HeadOf[service'[s].image] = schema /\ Quiet
      <3>1. CASE service'[s] = service[s] /\ s # x
        BY <2>1, <3>1 DEF GatewayInv, WritersSound
      <3>2. CASE /\ service'[s].state = "running" /\ service'[s].image = loaded[p]
                 /\ x \in Writers
        BY <1>1, <1>3, <1>6, <3>2 DEF SchemaMatches
      <3> QED
        BY <1>8, <3>1, <3>2
    <2> QED
      BY <1>1, <2>1 DEF WritersSound, Quiet
  <1>12. UpgradesSound' /\ (built \in {0} \cup Images)'
    BY <1>1 DEF GatewayInv, UpgradesSound
  <1> QED
    BY <1>1, <1>4, <1>9, <1>10, <1>11, <1>12, WorkingStepInv

LEMMA UpgradeStep ==
  ASSUME GatewayInv, NEW p \in Procs, Upgrade(p), job' = job PROVE GatewayInv'
  <1>1. /\ todo[p] # <<>> /\ Head(todo[p]) = "upgrade" /\ Advance(p) /\ loaded[p] # 0
        /\ upgrades' = upgrades \union {[from |-> schema, to |-> HeadOf[loaded[p]]]}
        /\ UNCHANGED <<made, files, recordedImage, lock, loaded, built, service, schema>>
    BY DEF Upgrade, At, Compose
  <1>2. PICK left \in Nat : Ordered(job[p], "upgrade", Past(p), left)
    BY <1>1, NextStep DEF GatewayInv
  <1>3. /\ job[p] = "migrate" /\ "load" \in Past(p)
        /\ {"data", "api_stopped", "worker_stopped"} \subseteq Past(p)
        /\ Past(p) \subseteq {"lock", "load", "api_stopped", "worker_stopped", "data",
                              "upgrade", "upgraded"}
    BY <1>2 DEF Ordered
  <1>4. Working(p)
    BY <1>1, <1>3 DEF Working
  <1>5. Past(p)' = Past(p) \cup {"upgrade"}
    BY <1>1, <1>4, WorkingStep
  <1>6. /\ files["state.json"] # NoProcess /\ loaded[p] = recordedImage
        /\ Stopped("api") /\ Stopped("worker")
    BY <1>1, <1>3 DEF GatewayInv, OperationSound
  <1>7. OperationSound(p)'
    <2>1. /\ "schema" \notin Past(p)' /\ "backend" \notin Past(p)' /\ "runtime" \notin Past(p)'
          /\ \A s \in Writers : s \notin Past(p)'
      BY <1>3, <1>5 DEF Writers
    <2>2. Stopped("api")' /\ Stopped("worker")'
      BY <1>1, <1>6 DEF Stopped
    <2> QED
      BY <1>1, <1>6, <2>1, <2>2 DEF OperationSound
  <1>8. PICK N \in Nat : Images = 1 .. N
    BY GatewayAssumption, FS_CardinalityType
  <1>9. recordedImage \in Images
    <2>1. recordedImage \in 0 .. built /\ built \in {0} \cup Images /\ recordedImage # 0
      BY <1>1, <1>6 DEF GatewayInv, GatewayTypeOK
    <2> QED
      BY <1>8, <2>1
  <1>10. HeadOf[recordedImage] \in Nat /\ schema \in Nat /\ schema <= HeadOf[recordedImage]
    <2>1. schema \in Nat
      BY GatewayAssumption DEF GatewayInv, GatewayTypeOK
    <2>2. recordedImage # 0
      BY <1>1, <1>6
    <2> QED
      BY <1>9, <2>1, <2>2, GatewayAssumption DEF GatewayInv, UpgradesSound
  <1>11. PICK u : u = [from |-> schema, to |-> HeadOf[recordedImage]]
    OBVIOUS
  <1>12. /\ u \in [from : Nat, to : Nat] /\ u.from <= u.to /\ u.to <= HeadOf[recordedImage]
         /\ u.to \in {HeadOf[i] : i \in Images}
    BY <1>9, <1>10, <1>11
  <1>13. upgrades' = upgrades \cup {u}
    BY <1>1, <1>6, <1>11
  <1>14. GatewayTypeOK' /\ UpgradesSound'
    <2>1. UpgradesSound'
      <3>1. \A v \in upgrades' : v.from <= v.to /\ v.to <= HeadOf[recordedImage]
                                 /\ v.to \in {HeadOf[i] : i \in Images}
        BY <1>12, <1>13 DEF GatewayInv, UpgradesSound
      <3>2. recordedImage # 0
        BY <1>1, <1>6
      <3> QED
        BY <1>1, <1>10, <3>1, <3>2 DEF UpgradesSound
    <2> QED
      BY <1>1, <1>12, <1>13, <2>1 DEF GatewayInv, GatewayTypeOK
  <1>15. WritersSound' /\ (built \in {0} \cup Images)'
    <2>1. \A s \in Writers : service'[s].state \notin {"running", "restarting"}
      BY <1>1, <1>6 DEF Stopped, Writers
    <2> QED
      BY <1>1, <2>1 DEF GatewayInv, WritersSound
  <1> QED
    BY <1>1, <1>4, <1>7, <1>14, <1>15, WorkingStepInv

LEMMA DownServicesStep ==
  ASSUME GatewayInv, NEW p \in Procs, Down(p), job' = job PROVE GatewayInv'
  <1>1. /\ todo[p] # <<>> /\ Head(todo[p]) = "down" /\ Advance(p)
        /\ service' = [s \in Services |-> Absent] /\ upgrades' = {}
        /\ UNCHANGED <<made, files, recordedImage, lock, loaded, built, schema>>
    BY DEF Down, At
  <1>2. PICK left \in Nat : Ordered(job[p], "down", Past(p), left)
    BY <1>1, NextStep DEF GatewayInv
  <1>3. /\ job[p] # "init" /\ job[p] # "build" /\ "load" \in Past(p)
        /\ Past(p) \subseteq {"lock", "load", "export_ca", "requests"}
    BY <1>2 DEF Ordered, Files
  <1>4. Working(p)
    BY <1>1, <1>3 DEF Working
  <1>5. Past(p)' = Past(p) \cup {"down"}
    BY <1>1, <1>4, WorkingStep
  <1>6. OperationSound(p)'
    <2>1. files["state.json"] # NoProcess /\ loaded[p] = recordedImage
      BY <1>1, <1>3 DEF GatewayInv, OperationSound
    <2>2. /\ "schema" \notin Past(p)' /\ "backend" \notin Past(p)' /\ "runtime" \notin Past(p)'
          /\ "data" \notin Past(p)' /\ "api_stopped" \notin Past(p)'
          /\ "worker_stopped" \notin Past(p)' /\ \A s \in Writers : s \notin Past(p)'
      BY <1>3, <1>5 DEF Writers
    <2> QED
      BY <1>1, <2>1, <2>2 DEF OperationSound
  <1>7. GatewayTypeOK'
    <2>1. 0 \in 0 .. built
      BY GatewayAssumption, FS_CardinalityType DEF GatewayInv
    <2>2. Absent \in [state : {"absent", "running", "restarting", "exited"}, image : 0 .. built]
      BY <2>1 DEF Absent
    <2> QED
      BY <1>1, <2>2 DEF GatewayInv, GatewayTypeOK
  <1>8. UpgradesSound' /\ (built \in {0} \cup Images)'
    BY <1>1 DEF GatewayInv, UpgradesSound
  <1>9. WritersSound'
    BY <1>1 DEF WritersSound, Writers, Services, Absent
  <1> QED
    BY <1>1, <1>4, <1>6, <1>7, <1>8, <1>9, WorkingStepInv

LEMMA UnlockStep ==
  ASSUME GatewayInv, NEW p \in Procs, Unlock(p), job' = job PROVE GatewayInv'
  <1>1. /\ todo[p] # <<>> /\ Head(todo[p]) = "unlock" /\ Advance(p) /\ lock' = NoProcess
        /\ UNCHANGED <<made, files, recordedImage, loaded, built, service, schema, upgrades>>
    BY DEF Unlock, At
  <1>2. PICK left \in Nat :
          /\ Ordered(job[p], "unlock", Past(p), left)
          /\ left = 0 => Tail(todo[p]) = <<>>
    BY <1>1, NextStep DEF GatewayInv
  <1>3. job[p] # "init" /\ Tail(todo[p]) = <<>>
    BY <1>2 DEF Ordered, Files
  <1>4. lock = p
    BY <1>1, <1>3 DEF GatewayInv, LockHeld, Working
  <1>5. todo' = [todo EXCEPT ![p] = <<>>]
    BY <1>1, <1>3 DEF Advance
  <1> QED
    BY <1>1, <1>4, <1>5, Ended, GatewayAssumption

LEMMA StepStep == ASSUME GatewayInv, NEW p \in Procs, Step(p) PROVE GatewayInv'
  <1>1. job' = job
    BY DEF Step
  <1> QED
    BY <1>1, VacantStep, MakeDirectoryStep, WritePrivateStep, LockStep, LoadStep,
       BuildImageStep, RecordImageStep, InspectStep, UpServiceStep, UpgradeStep,
       DownServicesStep, UnlockStep
       DEF Step

LEMMA FailStep == ASSUME GatewayInv, NEW p \in Procs, Fail(p) PROVE GatewayInv'
  BY Ended, GatewayAssumption DEF Fail

LEMMA KillStep == ASSUME GatewayInv, NEW p \in Procs, Kill(p) PROVE GatewayInv'
  BY Ended, GatewayAssumption DEF Kill

LEMMA RecoverStep == ASSUME GatewayInv, Recover PROVE GatewayInv'
  <1>1. /\ lock # NoProcess /\ todo[lock] = <<>> /\ lock' = NoProcess
        /\ UNCHANGED <<made, files, recordedImage, todo, job, loaded, built, service, schema,
                       upgrades>>
    BY DEF Recover
  <1>2. /\ ProgramsFollowed' /\ DirectorySound'
        /\ \A q \in Procs : InitializationSound(q)' /\ Past(q)' = Past(q)
    BY <1>1, WorldStep
  <1>3. LockHeld'
    BY <1>1 DEF GatewayInv, LockHeld, Working
  <1>4. ASSUME NEW q \in Procs PROVE OperationSound(q)'
    <2>1. OperationSound(q)
      BY DEF GatewayInv
    <2> QED
      BY <1>1, <1>2, <2>1 DEF OperationSound, Stopped, SchemaMatches, Quiet
  <1>5. /\ GatewayTypeOK' /\ UpgradesSound' /\ WritersSound' /\ (built \in {0} \cup Images)'
    BY <1>1 DEF GatewayInv, GatewayTypeOK, UpgradesSound, WritersSound, Quiet
  <1> QED
    BY <1>2, <1>3, <1>4, <1>5 DEF GatewayInv

LEMMA UpgradeEndsStep == ASSUME GatewayInv, UpgradeEnds PROVE GatewayInv'
  <1>1. PICK u \in upgrades :
          /\ upgrades' = upgrades \ {u}
          /\ schema' = schema \/ (schema = u.from /\ schema' = u.to)
          /\ UNCHANGED <<made, files, recordedImage, lock, todo, job, loaded, built, service>>
    BY DEF UpgradeEnds
  <1>2. /\ ProgramsFollowed' /\ DirectorySound'
        /\ \A q \in Procs : InitializationSound(q)' /\ Past(q)' = Past(q)
    BY <1>1, WorldStep
  <1>3. LockHeld'
    BY <1>1 DEF GatewayInv, LockHeld, Working
  <1>4. Quiet => schema' = schema /\ Quiet'
    <2> SUFFICES ASSUME Quiet PROVE schema' = schema /\ Quiet'
      OBVIOUS
    <2>1. schema' = schema
      BY <1>1 DEF Quiet
    <2> QED
      BY <1>1, <2>1 DEF Quiet
  <1>5. ASSUME NEW q \in Procs PROVE OperationSound(q)'
    <2>1. OperationSound(q)
      BY DEF GatewayInv
    <2>2. SchemaMatches(q) /\ Quiet => SchemaMatches(q)' /\ Quiet'
      BY <1>1, <1>4 DEF SchemaMatches
    <2> QED
      BY <1>1, <1>2, <2>1, <2>2 DEF OperationSound, Stopped
  <1>6. WritersSound'
    BY <1>1, <1>4 DEF GatewayInv, WritersSound
  <1>7. /\ u.from <= u.to /\ u.to <= HeadOf[recordedImage] /\ recordedImage # 0
        /\ u.to \in {HeadOf[i] : i \in Images}
    BY DEF GatewayInv, UpgradesSound
  <1>8. GatewayTypeOK' /\ UpgradesSound' /\ (built \in {0} \cup Images)'
    BY <1>1, <1>7 DEF GatewayInv, GatewayTypeOK, UpgradesSound
  <1> QED
    BY <1>2, <1>3, <1>5, <1>6, <1>8 DEF GatewayInv

\* A container exits or comes back by itself, with its image.
LEMMA ContainerStep ==
  ASSUME GatewayInv, NEW s \in Writers, NEW now \in {"running", "restarting", "exited"},
         service[s].state \in {"running", "restarting"},
         service' = [service EXCEPT ![s].state = now],
         UNCHANGED <<made, files, recordedImage, lock, todo, job, loaded, built, schema,
                     upgrades>>
  PROVE  GatewayInv'
  <1>1. /\ ProgramsFollowed' /\ DirectorySound'
        /\ \A q \in Procs : InitializationSound(q)' /\ Past(q)' = Past(q)
    BY WorldStep
  <1>2. LockHeld'
    BY DEF GatewayInv, LockHeld, Working
  <1>3. service \in [Services -> [state : {"absent", "running", "restarting", "exited"},
                                  image : 0 .. built]]
    BY DEF GatewayInv, GatewayTypeOK
  <1>4. s \in Services /\ Writers \subseteq Services
    BY DEF Services, Writers
  <1>5. /\ service'[s].state = now /\ service'[s].image = service[s].image
        /\ \A t \in Services \ {s} : service'[t] = service[t]
        /\ service' \in [Services -> [state : {"absent", "running", "restarting", "exited"},
                                      image : 0 .. built]]
    BY <1>3, <1>4
  <1>6. ASSUME NEW t \in Writers PROVE Stopped(t) => Stopped(t)'
    BY <1>4, <1>5 DEF Stopped
  <1>7. ASSUME NEW q \in Procs PROVE OperationSound(q)'
    <2>1. OperationSound(q)
      BY DEF GatewayInv
    <2>2. \A t \in Writers :
            /\ service'[t].image = service[t].image
            /\ service[t].state # "absent" => service'[t].state # "absent"
      BY <1>4, <1>5
    <2>3. "api" \in Writers /\ "worker" \in Writers
      BY DEF Writers
    <2>4. /\ Stopped("api") => Stopped("api")'
          /\ Stopped("worker") => Stopped("worker")'
      BY <1>6, <2>3
    <2>5. SchemaMatches(q) /\ Quiet => SchemaMatches(q)' /\ Quiet'
      BY DEF SchemaMatches, Quiet
    <2> QED
      BY <1>1, <2>1, <2>2, <2>4, <2>5 DEF OperationSound
  <1>8. WritersSound'
    <2>1. ASSUME NEW t \in Writers, service'[t].state \in {"running", "restarting"}
          PROVE  service[t].state \in {"running", "restarting"}
                 /\ service'[t].image = service[t].image
      BY <1>4, <1>5, <2>1
    <2> QED
      BY <2>1 DEF GatewayInv, WritersSound, Quiet
  <1>9. GatewayTypeOK' /\ UpgradesSound' /\ (built \in {0} \cup Images)'
    BY <1>5 DEF GatewayInv, GatewayTypeOK, UpgradesSound
  <1> QED
    BY <1>1, <1>2, <1>7, <1>8, <1>9 DEF GatewayInv

LEMMA CrashStep == ASSUME GatewayInv, Crash PROVE GatewayInv'
  BY ContainerStep DEF Crash, Writers

LEMMA RestartStep == ASSUME GatewayInv, Restart PROVE GatewayInv'
  BY ContainerStep DEF Restart, Writers

LEMMA GatewayStep == ASSUME GatewayInv, [GatewayNext]_gatewayVars PROVE GatewayInv'
  <1>1. CASE UNCHANGED gatewayVars
    <2>1. /\ ProgramsFollowed' /\ DirectorySound'
          /\ \A q \in Procs : InitializationSound(q)' /\ Past(q)' = Past(q)
      BY <1>1, WorldStep DEF gatewayVars
    <2>2. ASSUME NEW q \in Procs PROVE OperationSound(q)'
      <3>1. OperationSound(q)
        BY DEF GatewayInv
      <3> QED
        BY <1>1, <2>1, <3>1
           DEF gatewayVars, OperationSound, Stopped, SchemaMatches, Quiet
    <2> QED
      BY <1>1, <2>1, <2>2
         DEF gatewayVars, GatewayInv, GatewayTypeOK, LockHeld, Working, UpgradesSound,
             WritersSound, Quiet
  <1>2. CASE GatewayNext
    BY <1>2, MainStep, StepStep, FailStep, KillStep, RecoverStep, UpgradeEndsStep, CrashStep,
       RestartStep DEF GatewayNext
  <1> QED
    BY <1>1, <1>2

LEMMA GatewayInvariant == GatewaySpec => []GatewayInv
  BY GatewayInitial, GatewayStep, PTL DEF GatewaySpec

-----------------------------------------------------------------------------
(* Theorems *)

LEMMA InvExcludes == GatewayInv => OneOperation /\ WholeState
  <1> SUFFICES ASSUME GatewayInv PROVE OneOperation /\ WholeState
    OBVIOUS
  <1>1. OneOperation
    BY DEF GatewayInv, LockHeld, OneOperation
  <1>2. ASSUME NEW p \in Procs, Working(p), Head(todo[p]) # "load", NEW f \in Files
        PROVE  files[f] = made
    <2>1. todo[p] # <<>> /\ "load" \in Past(p)
      BY <1>2, WorkingLoaded DEF GatewayInv, Working
    <2>2. files["state.json"] # NoProcess
      BY <2>1 DEF GatewayInv, OperationSound
    <2> QED
      BY <2>2 DEF GatewayInv, DirectorySound
  <1> QED
    BY <1>1, <1>2 DEF WholeState

LEMMA SecretsStep == ASSUME [GatewayNext]_gatewayVars, GatewayInv
                     PROVE  \A f \in Files : files[f] # NoProcess => files'[f] = files[f]
  <1> SUFFICES ASSUME NEW f \in Files, files[f] # NoProcess PROVE files'[f] = files[f]
    OBVIOUS
  <1>1. CASE files' = files
    BY <1>1
  <1>2. CASE files' # files
    <2>1. PICK p \in Procs : WritePrivate(p)
      BY <1>2 DEF GatewayNext, gatewayVars, Main, Step, Fail, Kill, Recover, UpgradeEnds,
                  Crash, Restart, Vacant, MakeDirectory, Lock, Load, BuildImage, RecordImage,
                  Inspect, Up, Upgrade, Down, Unlock
    <2>2. PICK g \in Files : files[g] = NoProcess /\ files' = [files EXCEPT ![g] = p]
      BY <2>1 DEF WritePrivate, Creatable
    <2> QED
      BY <2>2 DEF GatewayInv, GatewayTypeOK
  <1> QED
    BY <1>1, <1>2

\* Operations of local-gateway.py exclude each other through operation.lock, work on a
\* directory that one initialization completed, and no secret is ever written twice.
THEOREM OperationsExcludeHolds == GatewaySpec => OperationsExclude
  <1>1. GatewayInv => GatewayTypeOK /\ OneOperation /\ WholeState
    BY InvExcludes DEF GatewayInv
  <1>2. GatewaySpec => [](GatewayTypeOK /\ OneOperation /\ WholeState)
    BY <1>1, GatewayInvariant, PTL
  <1>3. GatewaySpec => SecretsKept
    <2>1. GatewayInv /\ [GatewayNext]_gatewayVars
            => [\A f \in Files : files[f] # NoProcess => files'[f] = files[f]]_gatewayVars
      BY SecretsStep
    <2> QED
      BY <2>1, GatewayInvariant, PTL DEF GatewaySpec, SecretsKept
  <1> QED
    BY <1>2, <1>3 DEF OperationsExclude

\* A writer runs only on the schema of its image, through restarts, killed operations and
\* migrations that outlive them; a release that is reported started is the recorded one.
THEOREM ReleasesMatchHolds == GatewaySpec => []ReleasesMatch
  <1>1. GatewayInv => WritersMatchSchema
    BY DEF GatewayInv, WritersSound, WritersMatchSchema, Writers
  <1>2. GatewayInv => SuccessIsWhole
    <2> SUFFICES ASSUME GatewayInv, NEW p \in Procs, job[p] \in {"up", "check", "restart"},
                        At(p, "unlock"), NEW s \in Writers
                 PROVE  service[s].image = recordedImage /\ service[s].state # "absent"
      BY DEF SuccessIsWhole, Writers
    <2>1. todo[p] # <<>> /\ Head(todo[p]) = "unlock"
      BY DEF At
    <2>2. PICK left \in Nat : Ordered(job[p], "unlock", Past(p), left)
      BY <2>1, NextStep DEF GatewayInv
    <2>3. "load" \in Past(p) /\ (s \in Past(p) \/ "runtime" \in Past(p))
      BY <2>2 DEF Ordered
    <2> QED
      BY <2>1, <2>3 DEF GatewayInv, OperationSound
  <1>3. GatewayInv => ReleasesMatch
    BY <1>1, <1>2 DEF ReleasesMatch
  <1> QED
    BY <1>3, GatewayInvariant, PTL

(***************************************************************************)
(* The migrations                                                          *)
(***************************************************************************)
-----------------------------------------------------------------------------
(* The inductive invariant: what a revision makes of the rows              *)

OrderRows ==
    [exists : BOOLEAN, status : OrderStatus \cup LegacyStatus \cup {"none"}, item : BOOLEAN,
     named : BOOLEAN, revision : 0 .. MaxRevision, processed : BOOLEAN]

Rows ==
    [restaurant : {"absent", "unscoped"} \cup Organizations,
     organizations : Seq(Organizations),
     number : [Organizations -> Nat],
     sequence : Nat,
     accounts : SUBSET Users,
     memberships : SUBSET (Users \X Organizations),
     item : {"absent", "valid", "invalid"},
     order : OrderRows,
     ingredient : BOOLEAN,
     tracked : BOOLEAN,
     state_revision : 0 .. MaxRevision,
     history : SUBSET Facts]

\* No fact is older than the table that keeps it.
HistoryFits(r, d) ==
    /\ r < OrderStock => d.history = {}
    /\ r < EventTables => d.history \cap Events = {}
    /\ r < EpisodeTable => Fact("episodes") \notin d.history
    /\ r < AnalyticsTables => Fact("contributions") \notin d.history
    /\ r < AlertTables => Fact("alerts") \notin d.history
    /\ r < MaintenanceTable => Fact("maintenance") \notin d.history

\* What refers to a row of another table is gone before that table is.
ReferencesFit(r, d) ==
    /\ d.tracked => d.ingredient /\ d.item # "absent"
    /\ r < RecipeTable => ~ d.tracked
    /\ d.memberships \subseteq d.accounts \X Organizations
    /\ r < TenancyTables => d.memberships = {}

\* Restaurants, members and numbers of the organizations.
TenancyFits(r, d) ==
    /\ d.restaurant \in {"absent", "unscoped"} \cup Range(d.organizations)
    /\ r < TenancyTables => d.organizations = <<>>
    /\ r >= TenancyTables => Dev \in Range(d.organizations)
    /\ r >= Ownership =>
         /\ d.restaurant \in {"absent"} \cup Range(d.organizations)
         /\ OneMembershipEach(d)
         /\ \A o \in Organizations : d.number[o] <= d.sequence

OrderFits(r, d) ==
    /\ d.order.exists => d.order.status # "none"
    /\ d.order.exists /\ r >= Lifecycle => d.order.status \in OrderStatus /\ d.order.named
    /\ ~ d.order.exists \/ r < EventTables => d.order.revision = 0

RowsSound(r, d) ==
    /\ d \in Rows
    /\ HistoryFits(r, d) /\ ReferencesFit(r, d) /\ TenancyFits(r, d) /\ OrderFits(r, d)

\* The order is not behind the highest revision p it had, nor will it be once the
\* event tables number it again.
PeakFits(r, d, p) ==
    d.order.exists => p <= (IF r >= EventTables THEN d.order.revision ELSE 1)

Commands ==
    [running : {TRUE}, from : 0 .. HeadRevision, to : 0 .. HeadRevision,
     rev : 0 .. HeadRevision, rows : Rows]

Committed ==
    /\ rev \in 0 .. HeadRevision /\ RowsSound(rev, db)
    /\ recorded \subseteq db.history
    /\ peak \in Nat /\ PeakFits(rev, db, peak) /\ (~ db.order.exists => peak = 0)

\* The rows that the command would commit are as sound as the committed ones.
Transaction ==
    /\ command \in Commands /\ command.from = rev
    /\ RowsSound(command.rev, command.rows)
    /\ recorded \subseteq command.rows.history
    /\ PeakFits(command.rev, command.rows, peak)

MigrationsInv == Committed /\ (command = Idle \/ Transaction)

-----------------------------------------------------------------------------
(* What keeps the parts of the invariant                                   *)

LEMMA SameHistory ==
  ASSUME NEW r, NEW d, NEW e, HistoryFits(r, d), e.history = d.history
  PROVE  HistoryFits(r, e)
  BY DEF HistoryFits

LEMMA SameReferences ==
  ASSUME NEW r, NEW d, NEW e, ReferencesFit(r, d), e.tracked = d.tracked,
         e.ingredient = d.ingredient, e.item = d.item, e.memberships = d.memberships,
         e.accounts = d.accounts
  PROVE  ReferencesFit(r, e)
  BY DEF ReferencesFit

LEMMA SameTenancy ==
  ASSUME NEW r, NEW d, NEW e, TenancyFits(r, d), e.restaurant = d.restaurant,
         e.organizations = d.organizations, e.number = d.number, e.sequence = d.sequence,
         e.memberships = d.memberships
  PROVE  TenancyFits(r, e)
  BY DEF TenancyFits, OneMembershipEach

LEMMA SameOrder ==
  ASSUME NEW r, NEW d, NEW e, OrderFits(r, d), e.order = d.order
  PROVE  OrderFits(r, e)
  BY DEF OrderFits

\* The revision alone changes.
LEMMA UpPlain ==
  ASSUME NEW n \in 1 .. HeadRevision, NEW d, RowsSound(n - 1, d),
         n \notin {Lifecycle, TenancyTables, Ownership, EventTables}
  PROVE  RowsSound(n, d) /\ \A p : PeakFits(n - 1, d, p) => PeakFits(n, d, p)
  <1> USE DEF HeadRevision, TraceColumn, Lifecycle, TenancyTables, Ownership, EventTables
  <1>1. HistoryFits(n, d)
    BY DEF RowsSound, HistoryFits, OrderStock, EpisodeTable, AnalyticsTables, AlertTables,
           MaintenanceTable
  <1>2. ReferencesFit(n, d)
    BY DEF RowsSound, ReferencesFit, RecipeTable
  <1>3. TenancyFits(n, d)
    <2>1. /\ n < TenancyTables => n - 1 < TenancyTables
          /\ n >= TenancyTables => n - 1 >= TenancyTables
          /\ n >= Ownership => n - 1 >= Ownership
      OBVIOUS
    <2> HIDE DEF TenancyTables, Ownership
    <2> QED
      BY <2>1 DEF RowsSound, TenancyFits
  <1>4. OrderFits(n, d)
    BY DEF RowsSound, OrderFits
  <1>5. ASSUME NEW p, PeakFits(n - 1, d, p) PROVE PeakFits(n, d, p)
    BY <1>5 DEF PeakFits
  <1> QED
    BY <1>1, <1>2, <1>3, <1>4, <1>5 DEF RowsSound

LEMMA DownPlain ==
  ASSUME NEW n \in 1 .. HeadRevision, NEW d, RowsSound(n, d), n # TenancyTables,
         n = OrderStock => d.history = {},
         n = EventTables => d.history \cap Events = {} /\ d.order.revision = 0,
         n = EpisodeTable => Fact("episodes") \notin d.history,
         n = AnalyticsTables => Fact("contributions") \notin d.history,
         n = AlertTables => Fact("alerts") \notin d.history,
         n = MaintenanceTable => Fact("maintenance") \notin d.history,
         n = RecipeTable => ~ d.tracked
  PROVE  RowsSound(n - 1, d)
  <1> USE DEF HeadRevision, TraceColumn, Lifecycle, TenancyTables, Ownership, EventTables
  <1>1. HistoryFits(n - 1, d)
    BY DEF RowsSound, HistoryFits, OrderStock, EpisodeTable, AnalyticsTables, AlertTables,
           MaintenanceTable
  <1>2. ReferencesFit(n - 1, d)
    BY DEF RowsSound, ReferencesFit, RecipeTable
  <1>3. TenancyFits(n - 1, d)
    <2>1. /\ n - 1 < TenancyTables => n < TenancyTables
          /\ n - 1 >= TenancyTables => n >= TenancyTables
          /\ n - 1 >= Ownership => n >= Ownership
      OBVIOUS
    <2> HIDE DEF TenancyTables, Ownership
    <2> QED
      BY <2>1 DEF RowsSound, TenancyFits
  <1>4. OrderFits(n - 1, d)
    BY DEF RowsSound, OrderFits
  <1> QED
    BY <1>1, <1>2, <1>3, <1>4 DEF RowsSound

-----------------------------------------------------------------------------
(* The upgrades                                                            *)

LEMMA LifecycleUp ==
  ASSUME NEW d, RowsSound(Lifecycle - 1, d), NEW e, e = UpLifecycle(d)
  PROVE  /\ RowsSound(Lifecycle, e) /\ e.history = d.history
         /\ \A p : PeakFits(Lifecycle - 1, d, p) => PeakFits(Lifecycle, e, p)
  <1>1. d \in Rows /\ d.order \in OrderRows
    BY DEF RowsSound, Rows
  <1>2. CASE ~ d.order.exists
    <2>1. e = d
      BY <1>2 DEF UpLifecycle
    <2>2. HistoryFits(Lifecycle, d) /\ ReferencesFit(Lifecycle, d)
      BY DEF RowsSound, HistoryFits, ReferencesFit, OrderStock, EpisodeTable, AnalyticsTables,
             AlertTables, MaintenanceTable, Lifecycle, EventTables, RecipeTable, TenancyTables
    <2>3. TenancyFits(Lifecycle, d)
      BY DEF RowsSound, TenancyFits, Lifecycle, TenancyTables, Ownership
    <2>4. OrderFits(Lifecycle, d)
      BY <1>2 DEF RowsSound, OrderFits
    <2> QED
      BY <1>1, <1>2, <2>1, <2>2, <2>3, <2>4 DEF RowsSound, PeakFits
  <1>3. CASE d.order.exists
    <2>1. PICK s : s = UpperStatus(d.order.status)
      OBVIOUS
    <2>2. d.order.status \in OrderStatus \cup LegacyStatus
      BY <1>1, <1>3 DEF RowsSound, OrderFits, OrderRows
    <2>3. s \in OrderStatus
      BY <2>1, <2>2 DEF UpperStatus, OrderStatus, LegacyStatus
    <2>4. e = [d EXCEPT !.order.status = s, !.order.named = TRUE]
      BY <1>3, <2>1 DEF UpLifecycle
    <2>5. PICK o : o = [d.order EXCEPT !.status = s, !.named = TRUE]
      OBVIOUS
    <2>6. /\ o \in OrderRows /\ o.exists = d.order.exists /\ o.status = s /\ o.named
          /\ o.revision = d.order.revision
      BY <1>1, <2>3, <2>5 DEF OrderRows
    <2>7. e = [d EXCEPT !.order = o]
      BY <1>1, <2>4, <2>5 DEF Rows, OrderRows
    <2>8. /\ e \in Rows /\ e.order = o /\ e.history = d.history /\ e.tracked = d.tracked
          /\ e.ingredient = d.ingredient /\ e.item = d.item /\ e.memberships = d.memberships
          /\ e.accounts = d.accounts /\ e.restaurant = d.restaurant
          /\ e.organizations = d.organizations /\ e.number = d.number
          /\ e.sequence = d.sequence
      BY <1>1, <2>6, <2>7 DEF Rows
    <2>9. HistoryFits(Lifecycle, d) /\ ReferencesFit(Lifecycle, d)
      BY DEF RowsSound, HistoryFits, ReferencesFit, OrderStock, EpisodeTable, AnalyticsTables,
             AlertTables, MaintenanceTable, Lifecycle, EventTables, RecipeTable, TenancyTables
    <2>10. TenancyFits(Lifecycle, d)
      BY DEF RowsSound, TenancyFits, Lifecycle, TenancyTables, Ownership
    <2>11. HistoryFits(Lifecycle, e) /\ ReferencesFit(Lifecycle, e) /\ TenancyFits(Lifecycle, e)
      BY <2>8, <2>9, <2>10, SameHistory, SameReferences, SameTenancy
    <2>12. s # "none"
      BY <2>3 DEF OrderStatus
    <2>13. d.order.revision = 0
      BY DEF RowsSound, OrderFits, Lifecycle, EventTables
    <2>14. OrderFits(Lifecycle, e)
      BY <1>3, <2>3, <2>6, <2>8, <2>12, <2>13 DEF OrderFits
    <2>15. ASSUME NEW p, PeakFits(Lifecycle - 1, d, p) PROVE PeakFits(Lifecycle, e, p)
      BY <1>3, <2>6, <2>8, <2>15 DEF PeakFits, Lifecycle, EventTables
    <2> QED
      BY <2>8, <2>11, <2>14, <2>15 DEF RowsSound
  <1> QED
    BY <1>2, <1>3

LEMMA TenancyUp ==
  ASSUME NEW d, RowsSound(TenancyTables - 1, d), NEW e, e = UpTenancy(d)
  PROVE  /\ RowsSound(TenancyTables, e) /\ e.history = d.history
         /\ \A p : PeakFits(TenancyTables - 1, d, p) => PeakFits(TenancyTables, e, p)
  <1>1. d \in Rows /\ d.restaurant \in {"absent", "unscoped"} \cup Range(<<>>)
    BY DEF RowsSound, TenancyFits, TenancyTables
  <1>2. Range(<<>>) = {}
    BY DEF Range
  <1>3. PICK os, x : os = <<Dev>> /\ x = IF d.restaurant = "unscoped" THEN Dev ELSE d.restaurant
    OBVIOUS
  <1>4. Dev \in Organizations
    BY DEF Organizations
  <1>5. os \in Seq(Organizations) /\ Range(os) = {Dev}
    BY <1>3, <1>4 DEF Range
  <1>6. x \in {"absent", Dev} /\ x \in {"absent", "unscoped"} \cup Organizations
    BY <1>1, <1>2, <1>3, <1>4
  <1>7. e = [d EXCEPT !.organizations = os, !.restaurant = x]
    BY <1>1, <1>3 DEF UpTenancy, Rows
  <1>8. /\ e \in Rows /\ e.order = d.order /\ e.history = d.history /\ e.tracked = d.tracked
        /\ e.ingredient = d.ingredient /\ e.item = d.item /\ e.memberships = d.memberships
        /\ e.accounts = d.accounts /\ e.restaurant = x /\ e.organizations = os
    BY <1>1, <1>5, <1>6, <1>7 DEF Rows
  <1>9. HistoryFits(TenancyTables, d) /\ ReferencesFit(TenancyTables, d)
    BY DEF RowsSound, HistoryFits, ReferencesFit, OrderStock, EpisodeTable, AnalyticsTables,
           AlertTables, MaintenanceTable, EventTables, RecipeTable, TenancyTables
  <1>10. OrderFits(TenancyTables, d)
    BY DEF RowsSound, OrderFits, Lifecycle, EventTables, TenancyTables
  <1>11. HistoryFits(TenancyTables, e) /\ ReferencesFit(TenancyTables, e)
         /\ OrderFits(TenancyTables, e)
    BY <1>8, <1>9, <1>10, SameHistory, SameReferences, SameOrder
  <1>12. TenancyFits(TenancyTables, e)
    BY <1>5, <1>6, <1>8 DEF TenancyFits, TenancyTables, Ownership
  <1>13. ASSUME NEW p, PeakFits(TenancyTables - 1, d, p) PROVE PeakFits(TenancyTables, e, p)
    BY <1>8, <1>13 DEF PeakFits, TenancyTables, EventTables
  <1> QED
    BY <1>8, <1>11, <1>12, <1>13 DEF RowsSound

LEMMA OwnershipUp ==
  ASSUME NEW d, RowsSound(Ownership - 1, d), OneMembershipEach(d),
         NEW e, e = UpOwnership(d)
  PROVE  /\ RowsSound(Ownership, e) /\ e.history = d.history
         /\ \A p : PeakFits(Ownership - 1, d, p) => PeakFits(Ownership, e, p)
  <1>1. /\ d \in Rows /\ d.restaurant \in {"absent", "unscoped"} \cup Range(d.organizations)
        /\ Dev \in Range(d.organizations) /\ d.organizations \in Seq(Organizations)
    BY DEF RowsSound, TenancyFits, TenancyTables, Ownership, Rows
  <1>2. PICK x, f, k : /\ x = IF d.restaurant = "unscoped" THEN Dev ELSE d.restaurant
                       /\ f = Renumbered(d) /\ k = LastNumber(d)
    OBVIOUS
  <1>3. Dev \in Organizations
    BY DEF Organizations
  <1>4. /\ x \in {"absent"} \cup Range(d.organizations)
        /\ x \in {"absent", "unscoped"} \cup Organizations
    BY <1>1, <1>2, <1>3 DEF Rows
  <1>5. k \in Nat /\ k = Len(d.organizations)
    BY <1>1, <1>2 DEF LastNumber
  <1>6. f \in [Organizations -> 0 .. k]
    <2>1. ASSUME NEW o \in Organizations PROVE f[o] \in 0 .. k
      <3>1. CASE o \in Range(d.organizations)
        <4>1. PICK i \in DOMAIN d.organizations : d.organizations[i] = o
          BY <3>1 DEF Range
        <4>2. f[o] = CHOOSE j \in DOMAIN d.organizations : d.organizations[j] = o
          BY <1>2, <3>1 DEF Renumbered
        <4>3. f[o] \in DOMAIN d.organizations
          BY <4>1, <4>2
        <4>4. DOMAIN d.organizations = 1 .. k
          BY <1>1, <1>5
        <4> QED
          BY <1>5, <4>3, <4>4
      <3>2. CASE o \notin Range(d.organizations)
        BY <1>2, <1>5, <3>2 DEF Renumbered
      <3> QED
        BY <3>1, <3>2
    <2>2. f = [o \in Organizations |-> f[o]]
      BY <1>2 DEF Renumbered
    <2> QED
      BY <2>1, <2>2
  <1>7. f \in [Organizations -> Nat] /\ \A o \in Organizations : f[o] <= k
    BY <1>5, <1>6
  <1>8. e = [d EXCEPT !.restaurant = x, !.number = f, !.sequence = k]
    BY <1>1, <1>2 DEF UpOwnership, Rows
  <1>9. /\ e \in Rows /\ e.order = d.order /\ e.history = d.history /\ e.tracked = d.tracked
        /\ e.ingredient = d.ingredient /\ e.item = d.item /\ e.memberships = d.memberships
        /\ e.accounts = d.accounts /\ e.restaurant = x /\ e.organizations = d.organizations
        /\ e.number = f /\ e.sequence = k
    BY <1>1, <1>4, <1>5, <1>7, <1>8 DEF Rows
  <1>10. HistoryFits(Ownership, d) /\ ReferencesFit(Ownership, d)
    BY DEF RowsSound, HistoryFits, ReferencesFit, OrderStock, EpisodeTable, AnalyticsTables,
           AlertTables, MaintenanceTable, EventTables, RecipeTable, TenancyTables, Ownership
  <1>11. OrderFits(Ownership, d)
    BY DEF RowsSound, OrderFits, Lifecycle, EventTables, Ownership
  <1>12. HistoryFits(Ownership, e) /\ ReferencesFit(Ownership, e) /\ OrderFits(Ownership, e)
    BY <1>9, <1>10, <1>11, SameHistory, SameReferences, SameOrder
  <1>13. OneMembershipEach(e)
    BY <1>9 DEF OneMembershipEach
  <1>14. TenancyFits(Ownership, e)
    BY <1>1, <1>4, <1>7, <1>9, <1>13 DEF TenancyFits, TenancyTables, Ownership
  <1>15. ASSUME NEW p, PeakFits(Ownership - 1, d, p) PROVE PeakFits(Ownership, e, p)
    BY <1>9, <1>15 DEF PeakFits, Ownership, EventTables
  <1> QED
    BY <1>9, <1>12, <1>14, <1>15 DEF RowsSound

LEMMA OrderStockUp ==
  ASSUME NEW d, RowsSound(OrderStock - 1, d), NEW e, e = UpOrderStock(d)
  PROVE  /\ RowsSound(OrderStock, e) /\ e.history = d.history
         /\ \A p : PeakFits(OrderStock - 1, d, p) => PeakFits(OrderStock, e, p)
  <1>1. d \in Rows /\ d.order \in OrderRows
    BY DEF RowsSound, Rows
  <1>2. PICK o : o = [d.order EXCEPT !.processed = FALSE]
    OBVIOUS
  <1>3. /\ o \in OrderRows /\ o.exists = d.order.exists /\ o.status = d.order.status
        /\ o.named = d.order.named /\ o.revision = d.order.revision
    BY <1>1, <1>2 DEF OrderRows
  <1>4. e = [d EXCEPT !.order = o]
    BY <1>1, <1>2 DEF UpOrderStock, Rows, OrderRows
  <1>5. /\ e \in Rows /\ e.order = o /\ e.history = d.history /\ e.tracked = d.tracked
        /\ e.ingredient = d.ingredient /\ e.item = d.item /\ e.memberships = d.memberships
        /\ e.accounts = d.accounts /\ e.restaurant = d.restaurant
        /\ e.organizations = d.organizations /\ e.number = d.number
        /\ e.sequence = d.sequence
    BY <1>1, <1>3, <1>4 DEF Rows
  <1>6. PICK r : r = OrderStock - 1
    OBVIOUS
  <1>7. HistoryFits(r, d) /\ ReferencesFit(r, d) /\ TenancyFits(r, d) /\ OrderFits(r, d)
    BY <1>6 DEF RowsSound
  <1>8. HistoryFits(r, e) /\ ReferencesFit(r, e) /\ TenancyFits(r, e)
    BY <1>5, <1>7, SameHistory, SameReferences, SameTenancy
  <1>9. OrderFits(r, e)
    BY <1>3, <1>5, <1>7 DEF OrderFits
  <1>10. RowsSound(r, e)
    BY <1>5, <1>8, <1>9 DEF RowsSound
  <1>11. OrderStock \in 1 .. HeadRevision
         /\ OrderStock \notin {Lifecycle, TenancyTables, Ownership, EventTables}
    BY DEF OrderStock, HeadRevision, TraceColumn, Lifecycle, TenancyTables, Ownership,
           EventTables
  <1>12. RowsSound(OrderStock, e)
         /\ \A p : PeakFits(OrderStock - 1, e, p) => PeakFits(OrderStock, e, p)
    BY <1>6, <1>10, <1>11, UpPlain
  <1>13. ASSUME NEW p, PeakFits(OrderStock - 1, d, p) PROVE PeakFits(OrderStock - 1, e, p)
    BY <1>3, <1>5, <1>13 DEF PeakFits
  <1> QED
    BY <1>5, <1>12, <1>13

LEMMA EventsUp ==
  ASSUME NEW d, RowsSound(EventTables - 1, d), NEW e, e = UpEvents(d)
  PROVE  /\ RowsSound(EventTables, e) /\ e.history = d.history
         /\ \A p : PeakFits(EventTables - 1, d, p) => PeakFits(EventTables, e, p)
  <1>1. d \in Rows /\ d.order \in OrderRows
    BY DEF RowsSound, Rows
  <1>2. PICK k, o : /\ k = IF d.order.exists THEN 1 ELSE 0
                    /\ o = [d.order EXCEPT !.revision = k]
    OBVIOUS
  <1>3. k \in 0 .. MaxRevision
    BY <1>2, StopsAssumption
  <1>4. /\ o \in OrderRows /\ o.exists = d.order.exists /\ o.status = d.order.status
        /\ o.named = d.order.named /\ o.revision = k
    BY <1>1, <1>2, <1>3 DEF OrderRows
  <1>5. e = [d EXCEPT !.order = o]
    BY <1>1, <1>2 DEF UpEvents, Rows, OrderRows
  <1>6. /\ e \in Rows /\ e.order = o /\ e.history = d.history /\ e.tracked = d.tracked
        /\ e.ingredient = d.ingredient /\ e.item = d.item /\ e.memberships = d.memberships
        /\ e.accounts = d.accounts /\ e.restaurant = d.restaurant
        /\ e.organizations = d.organizations /\ e.number = d.number
        /\ e.sequence = d.sequence
    BY <1>1, <1>4, <1>5 DEF Rows
  <1>7. HistoryFits(EventTables, d) /\ ReferencesFit(EventTables, d)
    BY DEF RowsSound, HistoryFits, ReferencesFit, OrderStock, EpisodeTable, AnalyticsTables,
           AlertTables, MaintenanceTable, EventTables, RecipeTable, TenancyTables
  <1>8. TenancyFits(EventTables, d)
    <2>1. /\ EventTables - 1 >= Ownership /\ EventTables >= Ownership
          /\ EventTables - 1 >= TenancyTables /\ EventTables >= TenancyTables
          /\ ~ (EventTables < TenancyTables)
      BY DEF EventTables, Ownership, TenancyTables
    <2> QED
      BY <2>1 DEF RowsSound, TenancyFits
  <1>9. /\ HistoryFits(EventTables, e) /\ ReferencesFit(EventTables, e)
        /\ TenancyFits(EventTables, e)
    BY <1>6, <1>7, <1>8, SameHistory, SameReferences, SameTenancy
  <1>10. OrderFits(EventTables, e)
    BY <1>2, <1>4, <1>6 DEF RowsSound, OrderFits, EventTables, Lifecycle
  <1>11. ASSUME NEW p, PeakFits(EventTables - 1, d, p) PROVE PeakFits(EventTables, e, p)
    BY <1>2, <1>4, <1>6, <1>11 DEF PeakFits, EventTables
  <1> QED
    BY <1>6, <1>9, <1>10, <1>11 DEF RowsSound

LEMMA EpisodesUp ==
  ASSUME NEW d, RowsSound(EpisodeTable - 1, d), NEW e, e = UpEpisodes(d)
  PROVE  /\ RowsSound(EpisodeTable, e) /\ e.history = d.history
         /\ \A p : PeakFits(EpisodeTable - 1, d, p) => PeakFits(EpisodeTable, e, p)
  <1>1. d \in Rows
    BY DEF RowsSound
  <1>2. PICK k : k = IF d.ingredient THEN 1 ELSE 0
    OBVIOUS
  <1>3. k \in 0 .. MaxRevision
    BY <1>2, StopsAssumption
  <1>4. e = [d EXCEPT !.state_revision = k]
    BY <1>2 DEF UpEpisodes
  <1>5. /\ e \in Rows /\ e.order = d.order /\ e.history = d.history /\ e.tracked = d.tracked
        /\ e.ingredient = d.ingredient /\ e.item = d.item /\ e.memberships = d.memberships
        /\ e.accounts = d.accounts /\ e.restaurant = d.restaurant
        /\ e.organizations = d.organizations /\ e.number = d.number
        /\ e.sequence = d.sequence
    BY <1>1, <1>3, <1>4 DEF Rows
  <1>6. PICK r : r = EpisodeTable - 1
    OBVIOUS
  <1>7. HistoryFits(r, d) /\ ReferencesFit(r, d) /\ TenancyFits(r, d) /\ OrderFits(r, d)
    BY <1>6 DEF RowsSound
  <1>8. RowsSound(r, e)
    BY <1>5, <1>7, SameHistory, SameReferences, SameTenancy, SameOrder DEF RowsSound
  <1>9. EpisodeTable \in 1 .. HeadRevision
        /\ EpisodeTable \notin {Lifecycle, TenancyTables, Ownership, EventTables}
    BY DEF EpisodeTable, HeadRevision, TraceColumn, Lifecycle, TenancyTables, Ownership,
           EventTables
  <1>10. RowsSound(EpisodeTable, e)
         /\ \A p : PeakFits(EpisodeTable - 1, e, p) => PeakFits(EpisodeTable, e, p)
    BY <1>6, <1>8, <1>9, UpPlain
  <1>11. ASSUME NEW p, PeakFits(EpisodeTable - 1, d, p) PROVE PeakFits(EpisodeTable - 1, e, p)
    BY <1>5, <1>11 DEF PeakFits
  <1> QED
    BY <1>5, <1>10, <1>11

\* An upgrade that does not raise gives rows that its revision can work with, keeps the
\* history, and numbers the order no lower than it was.
LEMMA UpSound ==
  ASSUME NEW n \in 1 .. HeadRevision, NEW d, RowsSound(n - 1, d), UpAllowed(n, d),
         NEW e, e = UpRows(n, d)
  PROVE  /\ RowsSound(n, e) /\ e.history = d.history
         /\ \A p : PeakFits(n - 1, d, p) => PeakFits(n, e, p)
  <1>0. /\ Lifecycle = 4 /\ TenancyTables = 6 /\ Ownership = 7 /\ OrderStock = 11
        /\ EventTables = 12 /\ EpisodeTable = 13 /\ PriceCheck = 8
    BY DEF Lifecycle, TenancyTables, Ownership, OrderStock, EventTables, EpisodeTable,
           PriceCheck
  <1>1. CASE n = Lifecycle
    <2>1. e = UpLifecycle(d)
      BY <1>0, <1>1 DEF UpRows
    <2> QED
      BY <1>1, <2>1, LifecycleUp
  <1>2. CASE n = TenancyTables
    <2>1. e = UpTenancy(d)
      BY <1>0, <1>2 DEF UpRows
    <2> QED
      BY <1>2, <2>1, TenancyUp
  <1>3. CASE n = Ownership
    <2>1. e = UpOwnership(d) /\ OneMembershipEach(d)
      BY <1>0, <1>3 DEF UpRows, UpAllowed
    <2> QED
      BY <1>3, <2>1, OwnershipUp
  <1>4. CASE n = OrderStock
    <2>1. e = UpOrderStock(d)
      BY <1>0, <1>4 DEF UpRows
    <2> QED
      BY <1>4, <2>1, OrderStockUp
  <1>5. CASE n = EventTables
    <2>1. e = UpEvents(d)
      BY <1>0, <1>5 DEF UpRows
    <2> QED
      BY <1>5, <2>1, EventsUp
  <1>6. CASE n = EpisodeTable
    <2>1. e = UpEpisodes(d)
      BY <1>0, <1>6 DEF UpRows
    <2> QED
      BY <1>6, <2>1, EpisodesUp
  <1>7. CASE n \notin {Lifecycle, TenancyTables, Ownership, OrderStock, EventTables,
                       EpisodeTable}
    <2>1. e = d
      BY <1>7 DEF UpRows
    <2> QED
      BY <1>7, <2>1, UpPlain
  <1> QED
    BY <1>1, <1>2, <1>3, <1>4, <1>5, <1>6, <1>7

-----------------------------------------------------------------------------
(* The downgrades                                                          *)

LEMMA PeakDown ==
  ASSUME NEW n \in 1 .. HeadRevision, n # EventTables, NEW d, NEW e,
         e.order.exists = d.order.exists, e.order.revision = d.order.revision
  PROVE  \A p : PeakFits(n, d, p) => PeakFits(n - 1, e, p)
  <1>1. n >= EventTables <=> n - 1 >= EventTables
    BY DEF EventTables, HeadRevision, TraceColumn
  <1> QED
    BY <1>1 DEF PeakFits

LEMMA RestaurantsDown ==
  ASSUME NEW d, RowsSound(RestaurantTable, d), NEW e, e = DownRestaurants(d)
  PROVE  /\ RowsSound(RestaurantTable - 1, e) /\ e.history = d.history
         /\ \A p : PeakFits(RestaurantTable, d, p) => PeakFits(RestaurantTable - 1, e, p)
  <1>1. /\ d \in Rows /\ HistoryFits(RestaurantTable, d) /\ ReferencesFit(RestaurantTable, d)
        /\ TenancyFits(RestaurantTable, d) /\ OrderFits(RestaurantTable, d)
    BY DEF RowsSound
  <1>2. /\ RestaurantTable \in 1 .. HeadRevision
        /\ RestaurantTable \notin {TenancyTables, OrderStock, EventTables, AnalyticsTables,
                          AlertTables, MaintenanceTable}
    BY DEF RestaurantTable, HeadRevision, TraceColumn, TenancyTables, OrderStock, EventTables,
           AnalyticsTables, AlertTables, MaintenanceTable
  <1>3. /\ e \in Rows /\ e.organizations = d.organizations /\ e.number = d.number
        /\ e.sequence = d.sequence /\ e.accounts = d.accounts
        /\ e.memberships = d.memberships /\ e.item = d.item /\ e.order = d.order
        /\ e.ingredient = d.ingredient /\ e.tracked = d.tracked /\ e.history = d.history
        /\ e.restaurant = "absent"
    BY <1>1 DEF Rows, DownRestaurants
  <1>4. HistoryFits(RestaurantTable, e)
    BY <1>1, <1>3, SameHistory
  <1>5. ReferencesFit(RestaurantTable, e)
    BY <1>1, <1>3, SameReferences
  <1>6. TenancyFits(RestaurantTable, e)
    BY <1>1, <1>3 DEF TenancyFits, TenancyTables, Ownership, OneMembershipEach, RestaurantTable
  <1>7. OrderFits(RestaurantTable, e)
    BY <1>1, <1>3, SameOrder
  <1>8. RowsSound(RestaurantTable, e)
    BY <1>3, <1>4, <1>5, <1>6, <1>7 DEF RowsSound
  <1>9. RestaurantTable \notin {EpisodeTable, RecipeTable}
    BY DEF RestaurantTable, EpisodeTable, RecipeTable
  <1>10. RowsSound(RestaurantTable - 1, e)
    BY <1>2, <1>8, <1>9, DownPlain
  <1>11. \A p : PeakFits(RestaurantTable, d, p) => PeakFits(RestaurantTable - 1, e, p)
    BY <1>2, <1>3, PeakDown
  <1> QED
    BY <1>3, <1>10, <1>11

LEMMA MenusDown ==
  ASSUME NEW d, RowsSound(MenuTables, d), NEW e, e = DownMenus(d)
  PROVE  /\ RowsSound(MenuTables - 1, e) /\ e.history = d.history
         /\ \A p : PeakFits(MenuTables, d, p) => PeakFits(MenuTables - 1, e, p)
  <1>1. /\ d \in Rows /\ HistoryFits(MenuTables, d) /\ ReferencesFit(MenuTables, d)
        /\ TenancyFits(MenuTables, d) /\ OrderFits(MenuTables, d)
    BY DEF RowsSound
  <1>2. /\ MenuTables \in 1 .. HeadRevision
        /\ MenuTables \notin {TenancyTables, OrderStock, EventTables, AnalyticsTables,
                          AlertTables, MaintenanceTable}
    BY DEF MenuTables, HeadRevision, TraceColumn, TenancyTables, OrderStock, EventTables,
           AnalyticsTables, AlertTables, MaintenanceTable
  <1>3. /\ e \in Rows /\ e.restaurant = d.restaurant /\ e.organizations = d.organizations
        /\ e.number = d.number /\ e.sequence = d.sequence /\ e.accounts = d.accounts
        /\ e.memberships = d.memberships /\ e.order = d.order /\ e.ingredient = d.ingredient
        /\ e.tracked = d.tracked /\ e.history = d.history /\ e.item = "absent"
    BY <1>1 DEF Rows, DownMenus
  <1>4. HistoryFits(MenuTables, e)
    BY <1>1, <1>3, SameHistory
  <1>5. ReferencesFit(MenuTables, e)
    BY <1>1, <1>3 DEF ReferencesFit, RecipeTable, TenancyTables, MenuTables
  <1>6. TenancyFits(MenuTables, e)
    BY <1>1, <1>3, SameTenancy
  <1>7. OrderFits(MenuTables, e)
    BY <1>1, <1>3, SameOrder
  <1>8. RowsSound(MenuTables, e)
    BY <1>3, <1>4, <1>5, <1>6, <1>7 DEF RowsSound
  <1>9. MenuTables \notin {EpisodeTable, RecipeTable}
    BY DEF MenuTables, EpisodeTable, RecipeTable
  <1>10. RowsSound(MenuTables - 1, e)
    BY <1>2, <1>8, <1>9, DownPlain
  <1>11. \A p : PeakFits(MenuTables, d, p) => PeakFits(MenuTables - 1, e, p)
    BY <1>2, <1>3, PeakDown
  <1> QED
    BY <1>3, <1>10, <1>11

LEMMA OrdersDown ==
  ASSUME NEW d, RowsSound(OrderTables, d), NEW e, e = DownOrders(d)
  PROVE  /\ RowsSound(OrderTables - 1, e) /\ e.history = d.history
         /\ \A p : PeakFits(OrderTables, d, p) => PeakFits(OrderTables - 1, e, p)
  <1>1. /\ d \in Rows /\ HistoryFits(OrderTables, d) /\ ReferencesFit(OrderTables, d)
        /\ TenancyFits(OrderTables, d) /\ OrderFits(OrderTables, d)
    BY DEF RowsSound
  <1>2. /\ OrderTables \in 1 .. HeadRevision
        /\ OrderTables \notin {TenancyTables, OrderStock, EventTables, AnalyticsTables,
                          AlertTables, MaintenanceTable}
    BY DEF OrderTables, HeadRevision, TraceColumn, TenancyTables, OrderStock, EventTables,
           AnalyticsTables, AlertTables, MaintenanceTable
  <1>3. /\ e \in Rows /\ e.restaurant = d.restaurant /\ e.organizations = d.organizations
        /\ e.number = d.number /\ e.sequence = d.sequence /\ e.accounts = d.accounts
        /\ e.memberships = d.memberships /\ e.item = d.item /\ e.ingredient = d.ingredient
        /\ e.tracked = d.tracked /\ e.history = d.history /\ e.order = NoOrder
    <2>1. NoOrder \in OrderRows
      BY StopsAssumption DEF NoOrder, OrderRows
    <2> HIDE DEF NoOrder
    <2> QED
      BY <1>1, <2>1 DEF Rows, DownOrders
  <1>4. HistoryFits(OrderTables, e)
    BY <1>1, <1>3, SameHistory
  <1>5. ReferencesFit(OrderTables, e)
    BY <1>1, <1>3, SameReferences
  <1>6. TenancyFits(OrderTables, e)
    BY <1>1, <1>3, SameTenancy
  <1>7. OrderFits(OrderTables, e)
    BY <1>1, <1>3 DEF OrderFits, NoOrder, Lifecycle, EventTables, OrderTables
  <1>8. RowsSound(OrderTables, e)
    BY <1>3, <1>4, <1>5, <1>6, <1>7 DEF RowsSound
  <1>9. OrderTables \notin {EpisodeTable, RecipeTable}
    BY DEF OrderTables, EpisodeTable, RecipeTable
  <1>10. RowsSound(OrderTables - 1, e)
    BY <1>2, <1>8, <1>9, DownPlain
  <1>11. ASSUME NEW p PROVE PeakFits(OrderTables - 1, e, p)
    BY <1>3 DEF PeakFits, NoOrder
  <1> QED
    BY <1>3, <1>10, <1>11

LEMMA AuthDown ==
  ASSUME NEW d, RowsSound(AuthTables, d), NEW e, e = DownAuth(d)
  PROVE  /\ RowsSound(AuthTables - 1, e) /\ e.history = d.history
         /\ \A p : PeakFits(AuthTables, d, p) => PeakFits(AuthTables - 1, e, p)
  <1>1. /\ d \in Rows /\ HistoryFits(AuthTables, d) /\ ReferencesFit(AuthTables, d)
        /\ TenancyFits(AuthTables, d) /\ OrderFits(AuthTables, d)
    BY DEF RowsSound
  <1>2. /\ AuthTables \in 1 .. HeadRevision
        /\ AuthTables \notin {TenancyTables, OrderStock, EventTables, AnalyticsTables,
                          AlertTables, MaintenanceTable}
    BY DEF AuthTables, HeadRevision, TraceColumn, TenancyTables, OrderStock, EventTables,
           AnalyticsTables, AlertTables, MaintenanceTable
  <1>3. /\ e \in Rows /\ e.restaurant = d.restaurant /\ e.organizations = d.organizations
        /\ e.number = d.number /\ e.sequence = d.sequence /\ e.memberships = d.memberships
        /\ e.item = d.item /\ e.order = d.order /\ e.ingredient = d.ingredient
        /\ e.tracked = d.tracked /\ e.history = d.history /\ e.accounts = {}
    BY <1>1 DEF Rows, DownAuth
  <1>4. HistoryFits(AuthTables, e)
    BY <1>1, <1>3, SameHistory
  <1>5. ReferencesFit(AuthTables, e)
    BY <1>1, <1>3 DEF ReferencesFit, RecipeTable, TenancyTables, AuthTables
  <1>6. TenancyFits(AuthTables, e)
    BY <1>1, <1>3, SameTenancy
  <1>7. OrderFits(AuthTables, e)
    BY <1>1, <1>3, SameOrder
  <1>8. RowsSound(AuthTables, e)
    BY <1>3, <1>4, <1>5, <1>6, <1>7 DEF RowsSound
  <1>9. AuthTables \notin {EpisodeTable, RecipeTable}
    BY DEF AuthTables, EpisodeTable, RecipeTable
  <1>10. RowsSound(AuthTables - 1, e)
    BY <1>2, <1>8, <1>9, DownPlain
  <1>11. \A p : PeakFits(AuthTables, d, p) => PeakFits(AuthTables - 1, e, p)
    BY <1>2, <1>3, PeakDown
  <1> QED
    BY <1>3, <1>10, <1>11

LEMMA InventoryDown ==
  ASSUME NEW d, RowsSound(InventoryTables, d), NEW e, e = DownInventory(d)
  PROVE  /\ RowsSound(InventoryTables - 1, e) /\ e.history = d.history
         /\ \A p : PeakFits(InventoryTables, d, p) => PeakFits(InventoryTables - 1, e, p)
  <1>1. /\ d \in Rows /\ HistoryFits(InventoryTables, d) /\ ReferencesFit(InventoryTables, d)
        /\ TenancyFits(InventoryTables, d) /\ OrderFits(InventoryTables, d)
    BY DEF RowsSound
  <1>2. /\ InventoryTables \in 1 .. HeadRevision
        /\ InventoryTables \notin {TenancyTables, OrderStock, EventTables, AnalyticsTables,
                          AlertTables, MaintenanceTable}
    BY DEF InventoryTables, HeadRevision, TraceColumn, TenancyTables, OrderStock, EventTables,
           AnalyticsTables, AlertTables, MaintenanceTable
  <1>3. /\ e \in Rows /\ e.restaurant = d.restaurant /\ e.organizations = d.organizations
        /\ e.number = d.number /\ e.sequence = d.sequence /\ e.accounts = d.accounts
        /\ e.memberships = d.memberships /\ e.item = d.item /\ e.order = d.order
        /\ e.tracked = d.tracked /\ e.history = d.history /\ e.ingredient = FALSE
    BY <1>1 DEF Rows, DownInventory
  <1>4. HistoryFits(InventoryTables, e)
    BY <1>1, <1>3, SameHistory
  <1>5. ReferencesFit(InventoryTables, e)
    BY <1>1, <1>3 DEF ReferencesFit, RecipeTable, TenancyTables, InventoryTables
  <1>6. TenancyFits(InventoryTables, e)
    BY <1>1, <1>3, SameTenancy
  <1>7. OrderFits(InventoryTables, e)
    BY <1>1, <1>3, SameOrder
  <1>8. RowsSound(InventoryTables, e)
    BY <1>3, <1>4, <1>5, <1>6, <1>7 DEF RowsSound
  <1>9. InventoryTables \notin {EpisodeTable, RecipeTable}
    BY DEF InventoryTables, EpisodeTable, RecipeTable
  <1>10. RowsSound(InventoryTables - 1, e)
    BY <1>2, <1>8, <1>9, DownPlain
  <1>11. \A p : PeakFits(InventoryTables, d, p) => PeakFits(InventoryTables - 1, e, p)
    BY <1>2, <1>3, PeakDown
  <1> QED
    BY <1>3, <1>10, <1>11

LEMMA RecipesDown ==
  ASSUME NEW d, RowsSound(RecipeTable, d), NEW e, e = DownRecipes(d)
  PROVE  /\ RowsSound(RecipeTable - 1, e) /\ e.history = d.history
         /\ \A p : PeakFits(RecipeTable, d, p) => PeakFits(RecipeTable - 1, e, p)
  <1>1. /\ d \in Rows /\ HistoryFits(RecipeTable, d) /\ ReferencesFit(RecipeTable, d)
        /\ TenancyFits(RecipeTable, d) /\ OrderFits(RecipeTable, d)
    BY DEF RowsSound
  <1>2. /\ RecipeTable \in 1 .. HeadRevision
        /\ RecipeTable \notin {TenancyTables, OrderStock, EventTables, AnalyticsTables,
                          AlertTables, MaintenanceTable}
    BY DEF RecipeTable, HeadRevision, TraceColumn, TenancyTables, OrderStock, EventTables,
           AnalyticsTables, AlertTables, MaintenanceTable
  <1>3. /\ e \in Rows /\ e.restaurant = d.restaurant /\ e.organizations = d.organizations
        /\ e.number = d.number /\ e.sequence = d.sequence /\ e.accounts = d.accounts
        /\ e.memberships = d.memberships /\ e.item = d.item /\ e.order = d.order
        /\ e.ingredient = d.ingredient /\ e.history = d.history /\ e.tracked = FALSE
    BY <1>1 DEF Rows, DownRecipes
  <1>4. HistoryFits(RecipeTable, e)
    BY <1>1, <1>3, SameHistory
  <1>5. ReferencesFit(RecipeTable, e)
    BY <1>1, <1>3 DEF ReferencesFit, RecipeTable, TenancyTables, RecipeTable
  <1>6. TenancyFits(RecipeTable, e)
    BY <1>1, <1>3, SameTenancy
  <1>7. OrderFits(RecipeTable, e)
    BY <1>1, <1>3, SameOrder
  <1>8. RowsSound(RecipeTable, e)
    BY <1>3, <1>4, <1>5, <1>6, <1>7 DEF RowsSound
  <1>9. RecipeTable # EpisodeTable
    BY DEF RecipeTable, EpisodeTable
  <1>10. RowsSound(RecipeTable - 1, e)
    BY <1>2, <1>8, <1>3, <1>9, DownPlain
  <1>11. \A p : PeakFits(RecipeTable, d, p) => PeakFits(RecipeTable - 1, e, p)
    BY <1>2, <1>3, PeakDown
  <1> QED
    BY <1>3, <1>10, <1>11

LEMMA LifecycleDown ==
  ASSUME NEW d, RowsSound(Lifecycle, d), NEW e, e = DownLifecycle(d)
  PROVE  /\ RowsSound(Lifecycle - 1, e) /\ e.history = d.history
         /\ \A p : PeakFits(Lifecycle, d, p) => PeakFits(Lifecycle - 1, e, p)
  <1>1. /\ Lifecycle \in 1 .. HeadRevision
        /\ Lifecycle \notin {TenancyTables, OrderStock, EventTables, EpisodeTable,
                             AnalyticsTables, AlertTables, MaintenanceTable, RecipeTable}
    BY DEF Lifecycle, HeadRevision, TraceColumn, TenancyTables, OrderStock, EventTables,
           EpisodeTable, AnalyticsTables, AlertTables, MaintenanceTable, RecipeTable
  <1>2. RowsSound(Lifecycle - 1, d)
    BY <1>1, DownPlain
  <1>3. PICK r : r = Lifecycle - 1
    OBVIOUS
  <1>4. /\ d \in Rows /\ d.order \in OrderRows
        /\ HistoryFits(r, d) /\ ReferencesFit(r, d) /\ TenancyFits(r, d) /\ OrderFits(r, d)
    BY <1>2, <1>3 DEF RowsSound, Rows
  <1>5. PICK o : o = [d.order EXCEPT !.named = FALSE]
    OBVIOUS
  <1>6. /\ o \in OrderRows /\ o.exists = d.order.exists /\ o.status = d.order.status
        /\ o.revision = d.order.revision
    BY <1>4, <1>5 DEF OrderRows
  <1>7. e = [d EXCEPT !.order = o]
    BY <1>4, <1>5 DEF DownLifecycle, Rows, OrderRows
  <1>8. /\ e \in Rows /\ e.order = o /\ e.history = d.history /\ e.tracked = d.tracked
        /\ e.ingredient = d.ingredient /\ e.item = d.item /\ e.memberships = d.memberships
        /\ e.accounts = d.accounts /\ e.restaurant = d.restaurant
        /\ e.organizations = d.organizations /\ e.number = d.number
        /\ e.sequence = d.sequence
    BY <1>4, <1>6, <1>7 DEF Rows
  <1>9. HistoryFits(r, e) /\ ReferencesFit(r, e) /\ TenancyFits(r, e)
    BY <1>4, <1>8, SameHistory, SameReferences, SameTenancy
  <1>10. OrderFits(r, e)
    BY <1>3, <1>4, <1>6, <1>8 DEF OrderFits, Lifecycle
  <1>11. RowsSound(Lifecycle - 1, e)
    BY <1>3, <1>8, <1>9, <1>10 DEF RowsSound
  <1>12. \A p : PeakFits(Lifecycle, d, p) => PeakFits(Lifecycle - 1, e, p)
    BY <1>1, <1>6, <1>8, PeakDown
  <1> QED
    BY <1>8, <1>11, <1>12

LEMMA TenancyDown ==
  ASSUME NEW d, RowsSound(TenancyTables, d), NEW e, e = DownTenancy(d)
  PROVE  /\ RowsSound(TenancyTables - 1, e) /\ e.history = d.history
         /\ \A p : PeakFits(TenancyTables, d, p) => PeakFits(TenancyTables - 1, e, p)
  <1>1. /\ d \in Rows /\ HistoryFits(TenancyTables, d) /\ ReferencesFit(TenancyTables, d)
        /\ OrderFits(TenancyTables, d)
    BY DEF RowsSound
  <1>2. PICK x, os : /\ x = IF d.restaurant = "absent" THEN d.restaurant ELSE "unscoped"
                     /\ os = <<>>
    OBVIOUS
  <1>3. x \in {"absent", "unscoped"} /\ os \in Seq(Organizations)
    BY <1>2
  <1>4. e = [d EXCEPT !.organizations = os, !.memberships = {}, !.restaurant = x]
    BY <1>1, <1>2 DEF DownTenancy, Rows
  <1>5. /\ e \in Rows /\ e.order = d.order /\ e.history = d.history /\ e.tracked = d.tracked
        /\ e.ingredient = d.ingredient /\ e.item = d.item /\ e.memberships = {}
        /\ e.accounts = d.accounts /\ e.restaurant = x /\ e.organizations = os
    BY <1>1, <1>3, <1>4 DEF Rows
  <1>6. HistoryFits(TenancyTables - 1, e)
    BY <1>1, <1>5 DEF HistoryFits, TenancyTables, OrderStock, EventTables, EpisodeTable,
                      AnalyticsTables, AlertTables, MaintenanceTable
  <1>7. ReferencesFit(TenancyTables - 1, e)
    BY <1>1, <1>5 DEF ReferencesFit, TenancyTables, RecipeTable
  <1>8. TenancyFits(TenancyTables - 1, e)
    BY <1>2, <1>3, <1>5 DEF TenancyFits, TenancyTables, Ownership
  <1>9. OrderFits(TenancyTables - 1, e)
    BY <1>1, <1>5 DEF OrderFits, TenancyTables, Lifecycle, EventTables
  <1>10. TenancyTables \in 1 .. HeadRevision /\ TenancyTables # EventTables
    BY DEF TenancyTables, HeadRevision, TraceColumn, EventTables
  <1>11. \A p : PeakFits(TenancyTables, d, p) => PeakFits(TenancyTables - 1, e, p)
    BY <1>5, <1>10, PeakDown
  <1> QED
    BY <1>5, <1>6, <1>7, <1>8, <1>9, <1>11 DEF RowsSound

LEMMA OwnershipDown ==
  ASSUME NEW d, RowsSound(Ownership, d), NEW e, e = DownOwnership(d)
  PROVE  /\ RowsSound(Ownership - 1, e) /\ e.history = d.history
         /\ \A p : PeakFits(Ownership, d, p) => PeakFits(Ownership - 1, e, p)
  <1>1. /\ Ownership \in 1 .. HeadRevision
        /\ Ownership \notin {TenancyTables, OrderStock, EventTables, EpisodeTable,
                             AnalyticsTables, AlertTables, MaintenanceTable, RecipeTable}
    BY DEF Ownership, HeadRevision, TraceColumn, TenancyTables, OrderStock, EventTables,
           EpisodeTable, AnalyticsTables, AlertTables, MaintenanceTable, RecipeTable
  <1>2. RowsSound(Ownership - 1, d)
    BY <1>1, DownPlain
  <1>3. PICK r : r = Ownership - 1
    OBVIOUS
  <1>4. /\ d \in Rows
        /\ HistoryFits(r, d) /\ ReferencesFit(r, d) /\ TenancyFits(r, d) /\ OrderFits(r, d)
    BY <1>2, <1>3 DEF RowsSound
  <1>5. PICK f \in [Organizations -> Nat] : f = [o \in Organizations |-> 0]
    <2>1. [o \in Organizations |-> 0] \in [Organizations -> Nat]
      OBVIOUS
    <2> QED
      BY <2>1
  <1>6. /\ e \in Rows /\ e.order = d.order /\ e.history = d.history /\ e.tracked = d.tracked
        /\ e.ingredient = d.ingredient /\ e.item = d.item /\ e.memberships = d.memberships
        /\ e.accounts = d.accounts /\ e.restaurant = d.restaurant
        /\ e.organizations = d.organizations
    BY <1>4, <1>5 DEF Rows, DownOwnership
  <1>7. HistoryFits(r, e) /\ ReferencesFit(r, e) /\ OrderFits(r, e)
    BY <1>4, <1>6, SameHistory, SameReferences, SameOrder
  <1>8. TenancyFits(r, e)
    BY <1>3, <1>4, <1>6 DEF TenancyFits, TenancyTables, Ownership
  <1>9. RowsSound(Ownership - 1, e)
    BY <1>3, <1>6, <1>7, <1>8 DEF RowsSound
  <1>10. \A p : PeakFits(Ownership, d, p) => PeakFits(Ownership - 1, e, p)
    BY <1>1, <1>6, PeakDown
  <1> QED
    BY <1>6, <1>9, <1>10

\* The guard leaves no fact that the tables kept: those of later revisions are gone already.
LEMMA OrderStockDown ==
  ASSUME NEW d, RowsSound(OrderStock, d), NoOrderStock(d), NEW e, e = DownOrderStock(d)
  PROVE  /\ RowsSound(OrderStock - 1, e) /\ e.history = d.history
         /\ \A p : PeakFits(OrderStock, d, p) => PeakFits(OrderStock - 1, e, p)
  <1>1. /\ OrderStock \in 1 .. HeadRevision
        /\ OrderStock \notin {TenancyTables, EventTables, EpisodeTable, AnalyticsTables,
                              AlertTables, MaintenanceTable, RecipeTable}
    BY DEF OrderStock, HeadRevision, TraceColumn, TenancyTables, EventTables, EpisodeTable,
           AnalyticsTables, AlertTables, MaintenanceTable, RecipeTable
  <1>2. /\ d \in Rows /\ d.order \in OrderRows /\ d.history \subseteq Facts
        /\ HistoryFits(OrderStock, d) /\ ReferencesFit(OrderStock, d)
        /\ TenancyFits(OrderStock, d) /\ OrderFits(OrderStock, d)
    BY DEF RowsSound, Rows
  <1>3. d.history = {}
    <2>1. /\ d.history \cap Events = {} /\ Fact("episodes") \notin d.history
          /\ Fact("contributions") \notin d.history /\ Fact("alerts") \notin d.history
          /\ Fact("maintenance") \notin d.history
      BY <1>2 DEF HistoryFits, OrderStock, EventTables, EpisodeTable, AnalyticsTables,
                  AlertTables, MaintenanceTable
    <2>2. Fact("consumption") \notin d.history /\ Fact("submissions") \notin d.history
      BY DEF NoOrderStock
    <2> QED
      BY <1>2, <2>1, <2>2 DEF Facts
  <1>4. PICK o : o = [d.order EXCEPT !.processed = FALSE]
    OBVIOUS
  <1>5. /\ o \in OrderRows /\ o.exists = d.order.exists /\ o.status = d.order.status
        /\ o.named = d.order.named /\ o.revision = d.order.revision
    BY <1>2, <1>4 DEF OrderRows
  <1>6. e = [d EXCEPT !.order = o]
    <2>1. e = [d EXCEPT !.history = @ \ {Fact("consumption"), Fact("submissions")}, !.order = o]
      BY <1>2, <1>4 DEF DownOrderStock, Rows, OrderRows
    <2>2. d.history \ {Fact("consumption"), Fact("submissions")} = d.history
      BY <1>3
    <2> QED
      BY <1>2, <2>1, <2>2 DEF Rows
  <1>7. /\ e \in Rows /\ e.order = o /\ e.history = d.history /\ e.tracked = d.tracked
        /\ e.ingredient = d.ingredient /\ e.item = d.item /\ e.memberships = d.memberships
        /\ e.accounts = d.accounts /\ e.restaurant = d.restaurant
        /\ e.organizations = d.organizations /\ e.number = d.number
        /\ e.sequence = d.sequence
    BY <1>2, <1>5, <1>6 DEF Rows
  <1>8. /\ HistoryFits(OrderStock, e) /\ ReferencesFit(OrderStock, e)
        /\ TenancyFits(OrderStock, e)
    BY <1>2, <1>7, SameHistory, SameReferences, SameTenancy
  <1>9. OrderFits(OrderStock, e)
    BY <1>2, <1>5, <1>7 DEF OrderFits
  <1>10. RowsSound(OrderStock, e)
    BY <1>7, <1>8, <1>9 DEF RowsSound
  <1>11. RowsSound(OrderStock - 1, e)
    BY <1>1, <1>3, <1>7, <1>10, DownPlain
  <1>12. \A p : PeakFits(OrderStock, d, p) => PeakFits(OrderStock - 1, e, p)
    BY <1>1, <1>5, <1>7, PeakDown
  <1> QED
    BY <1>7, <1>11, <1>12

\* The guard also refuses an order that advanced, told or not.
LEMMA EventsDown ==
  ASSUME NEW d, RowsSound(EventTables, d), NoEventHistory(d), NEW e, e = DownEvents(d)
  PROVE  /\ RowsSound(EventTables - 1, e) /\ e.history = d.history
         /\ \A p : PeakFits(EventTables, d, p) => PeakFits(EventTables - 1, e, p)
  <1>1. /\ EventTables \in 1 .. HeadRevision
        /\ EventTables \notin {TenancyTables, OrderStock, EpisodeTable, AnalyticsTables,
                               AlertTables, MaintenanceTable, RecipeTable}
    BY DEF OrderStock, HeadRevision, TraceColumn, TenancyTables, EventTables, EpisodeTable,
           AnalyticsTables, AlertTables, MaintenanceTable, RecipeTable
  <1>2. /\ d \in Rows /\ d.order \in OrderRows
        /\ HistoryFits(EventTables, d) /\ ReferencesFit(EventTables, d)
        /\ TenancyFits(EventTables, d) /\ OrderFits(EventTables, d)
        /\ d.history \cap Events = {} /\ (d.order.exists => d.order.revision = 1)
    BY DEF RowsSound, Rows, NoEventHistory
  <1>3. PICK o : o = [d.order EXCEPT !.revision = 0]
    OBVIOUS
  <1>4. /\ o \in OrderRows /\ o.exists = d.order.exists /\ o.status = d.order.status
        /\ o.named = d.order.named /\ o.revision = 0
    <2>1. 0 \in 0 .. MaxRevision
      BY StopsAssumption
    <2> QED
      BY <1>2, <1>3, <2>1 DEF OrderRows
  <1>5. e = [d EXCEPT !.order = o]
    <2>1. e = [d EXCEPT !.history = @ \ Events, !.order = o]
      BY <1>2, <1>3 DEF DownEvents, Rows, OrderRows
    <2>2. d.history \ Events = d.history
      BY <1>2
    <2> QED
      BY <1>2, <2>1, <2>2 DEF Rows
  <1>6. /\ e \in Rows /\ e.order = o /\ e.history = d.history /\ e.tracked = d.tracked
        /\ e.ingredient = d.ingredient /\ e.item = d.item /\ e.memberships = d.memberships
        /\ e.accounts = d.accounts /\ e.restaurant = d.restaurant
        /\ e.organizations = d.organizations /\ e.number = d.number
        /\ e.sequence = d.sequence
    BY <1>2, <1>4, <1>5 DEF Rows
  <1>7. /\ HistoryFits(EventTables, e) /\ ReferencesFit(EventTables, e)
        /\ TenancyFits(EventTables, e)
    BY <1>2, <1>6, SameHistory, SameReferences, SameTenancy
  <1>8. OrderFits(EventTables, e)
    BY <1>2, <1>4, <1>6 DEF OrderFits
  <1>9. RowsSound(EventTables, e)
    BY <1>6, <1>7, <1>8 DEF RowsSound
  <1>10. RowsSound(EventTables - 1, e)
    BY <1>1, <1>2, <1>4, <1>6, <1>9, DownPlain
  <1>11. ASSUME NEW p, PeakFits(EventTables, d, p) PROVE PeakFits(EventTables - 1, e, p)
    BY <1>2, <1>4, <1>6, <1>11 DEF PeakFits, EventTables
  <1> QED
    BY <1>6, <1>10, <1>11

LEMMA EpisodesDown ==
  ASSUME NEW d, RowsSound(EpisodeTable, d), NoEpisodes(d), NEW e, e = DownEpisodes(d)
  PROVE  /\ RowsSound(EpisodeTable - 1, e) /\ e.history = d.history
         /\ \A p : PeakFits(EpisodeTable, d, p) => PeakFits(EpisodeTable - 1, e, p)
  <1>1. /\ EpisodeTable \in 1 .. HeadRevision
        /\ EpisodeTable \notin {TenancyTables, OrderStock, EventTables, AnalyticsTables,
                                AlertTables, MaintenanceTable, RecipeTable}
    BY DEF OrderStock, HeadRevision, TraceColumn, TenancyTables, EventTables, EpisodeTable,
           AnalyticsTables, AlertTables, MaintenanceTable, RecipeTable
  <1>2. /\ d \in Rows /\ Fact("episodes") \notin d.history
        /\ HistoryFits(EpisodeTable, d) /\ ReferencesFit(EpisodeTable, d)
        /\ TenancyFits(EpisodeTable, d) /\ OrderFits(EpisodeTable, d)
    BY DEF RowsSound, NoEpisodes
  <1>3. e = [d EXCEPT !.state_revision = 0]
    <2>1. e = [d EXCEPT !.history = d.history \ {Fact("episodes")}, !.state_revision = 0]
      BY DEF DownEpisodes
    <2>2. d.history \ {Fact("episodes")} = d.history
      BY <1>2
    <2> QED
      BY <1>2, <2>1, <2>2 DEF Rows
  <1>4. /\ e \in Rows /\ e.order = d.order /\ e.history = d.history /\ e.tracked = d.tracked
        /\ e.ingredient = d.ingredient /\ e.item = d.item /\ e.memberships = d.memberships
        /\ e.accounts = d.accounts /\ e.restaurant = d.restaurant
        /\ e.organizations = d.organizations /\ e.number = d.number
        /\ e.sequence = d.sequence
    <2>1. 0 \in 0 .. MaxRevision
      BY StopsAssumption
    <2> QED
      BY <1>2, <1>3, <2>1 DEF Rows
  <1>5. RowsSound(EpisodeTable, e)
    BY <1>2, <1>4, SameHistory, SameReferences, SameTenancy, SameOrder DEF RowsSound
  <1>6. RowsSound(EpisodeTable - 1, e)
    BY <1>1, <1>2, <1>4, <1>5, DownPlain
  <1>7. \A p : PeakFits(EpisodeTable, d, p) => PeakFits(EpisodeTable - 1, e, p)
    BY <1>1, <1>4, PeakDown
  <1> QED
    BY <1>4, <1>6, <1>7

\* What a downgrade deletes of the history, its guard found absent.
LEMMA NothingDeleted ==
  ASSUME NEW d \in Rows, NEW f, f \notin d.history, NEW e, e = [d EXCEPT !.history = @ \ {f}]
  PROVE  e = d
  <1>1. d.history \ {f} = d.history
    OBVIOUS
  <1>2. e = [d EXCEPT !.history = d.history]
    BY <1>1
  <1> QED
    BY <1>2 DEF Rows

\* A downgrade that does not raise keeps the history, and every order's revision.
LEMMA DownSound ==
  ASSUME NEW n \in 1 .. HeadRevision, NEW d, RowsSound(n, d), DownAllowed(n, d),
         NEW e, e = DownRows(n, d)
  PROVE  /\ RowsSound(n - 1, e) /\ e.history = d.history
         /\ \A p : PeakFits(n, d, p) => PeakFits(n - 1, e, p)
  <1>0. /\ RestaurantTable = 1 /\ MenuTables = 2 /\ OrderTables = 3 /\ Lifecycle = 4
        /\ AuthTables = 5 /\ TenancyTables = 6 /\ Ownership = 7 /\ PriceCheck = 8
        /\ InventoryTables = 9 /\ RecipeTable = 10 /\ OrderStock = 11 /\ EventTables = 12
        /\ EpisodeTable = 13 /\ AnalyticsTables = 14 /\ AlertTables = 15
        /\ MaintenanceTable = 16 /\ HeadRevision = 17
    BY DEF RestaurantTable, MenuTables, OrderTables, Lifecycle, AuthTables, TenancyTables,
           Ownership, PriceCheck, InventoryTables, RecipeTable, OrderStock, EventTables,
           EpisodeTable, AnalyticsTables, AlertTables, MaintenanceTable, HeadRevision,
           TraceColumn
  <1>1. CASE n = RestaurantTable
    <2>1. e = DownRestaurants(d)
      BY <1>0, <1>1 DEF DownRows
    <2> QED
      BY <1>1, <2>1, RestaurantsDown
  <1>2. CASE n = MenuTables
    <2>1. e = DownMenus(d)
      BY <1>0, <1>2 DEF DownRows
    <2> QED
      BY <1>2, <2>1, MenusDown
  <1>3. CASE n = OrderTables
    <2>1. e = DownOrders(d)
      BY <1>0, <1>3 DEF DownRows
    <2> QED
      BY <1>3, <2>1, OrdersDown
  <1>4. CASE n = Lifecycle
    <2>1. e = DownLifecycle(d)
      BY <1>0, <1>4 DEF DownRows
    <2> QED
      BY <1>4, <2>1, LifecycleDown
  <1>5. CASE n = AuthTables
    <2>1. e = DownAuth(d)
      BY <1>0, <1>5 DEF DownRows
    <2> QED
      BY <1>5, <2>1, AuthDown
  <1>6. CASE n = TenancyTables
    <2>1. e = DownTenancy(d)
      BY <1>0, <1>6 DEF DownRows
    <2> QED
      BY <1>6, <2>1, TenancyDown
  <1>7. CASE n = Ownership
    <2>1. e = DownOwnership(d)
      BY <1>0, <1>7 DEF DownRows
    <2> QED
      BY <1>7, <2>1, OwnershipDown
  <1>8. CASE n = InventoryTables
    <2>1. e = DownInventory(d)
      BY <1>0, <1>8 DEF DownRows
    <2> QED
      BY <1>8, <2>1, InventoryDown
  <1>9. CASE n = RecipeTable
    <2>1. e = DownRecipes(d)
      BY <1>0, <1>9 DEF DownRows
    <2> QED
      BY <1>9, <2>1, RecipesDown
  <1>10. CASE n = OrderStock
    <2>1. e = DownOrderStock(d) /\ NoOrderStock(d)
      BY <1>0, <1>10 DEF DownRows, DownAllowed
    <2> QED
      BY <1>10, <2>1, OrderStockDown
  <1>11. CASE n = EventTables
    <2>1. e = DownEvents(d) /\ NoEventHistory(d)
      BY <1>0, <1>11 DEF DownRows, DownAllowed
    <2> QED
      BY <1>11, <2>1, EventsDown
  <1>12. CASE n = EpisodeTable
    <2>1. e = DownEpisodes(d) /\ NoEpisodes(d)
      BY <1>0, <1>12 DEF DownRows, DownAllowed
    <2> QED
      BY <1>12, <2>1, EpisodesDown
  <1>13. CASE n \in {PriceCheck, AnalyticsTables, AlertTables, MaintenanceTable, TraceColumn}
    <2>0. d \in Rows /\ TraceColumn = 17
      BY DEF RowsSound, TraceColumn
    <2>1. /\ e = d
          /\ n = AnalyticsTables => Fact("contributions") \notin d.history
          /\ n = AlertTables => Fact("alerts") \notin d.history
          /\ n = MaintenanceTable => Fact("maintenance") \notin d.history
      <3>1. CASE n \in {PriceCheck, TraceColumn}
        BY <1>0, <2>0, <3>1 DEF DownRows
      <3>2. CASE n = AnalyticsTables
        <4>1. /\ Fact("contributions") \notin d.history
              /\ e = [d EXCEPT !.history = @ \ {Fact("contributions")}]
          BY <1>0, <3>2 DEF DownRows, DownAllowed, NoContributions
        <4> QED
          BY <1>0, <2>0, <3>2, <4>1, NothingDeleted
      <3>3. CASE n = AlertTables
        <4>1. /\ Fact("alerts") \notin d.history
              /\ e = [d EXCEPT !.history = @ \ {Fact("alerts")}]
          BY <1>0, <3>3 DEF DownRows, DownAllowed, NoAlerts
        <4> QED
          BY <1>0, <2>0, <3>3, <4>1, NothingDeleted
      <3>4. CASE n = MaintenanceTable
        <4>1. /\ Fact("maintenance") \notin d.history
              /\ e = [d EXCEPT !.history = @ \ {Fact("maintenance")}]
          BY <1>0, <3>4 DEF DownRows, DownAllowed, NoMaintenance
        <4> QED
          BY <1>0, <2>0, <3>4, <4>1, NothingDeleted
      <3> QED
        BY <1>13, <3>1, <3>2, <3>3, <3>4
    <2>2. n \notin {TenancyTables, OrderStock, EventTables, EpisodeTable, RecipeTable}
      BY <1>0, <1>13, <2>0
    <2>3. RowsSound(n - 1, d)
      BY <2>1, <2>2, DownPlain
    <2>4. \A p : PeakFits(n, d, p) => PeakFits(n - 1, d, p)
      BY <2>2, PeakDown
    <2> QED
      BY <2>1, <2>3, <2>4
  <1>14. n = RestaurantTable \/ n = MenuTables \/ n = OrderTables \/ n = Lifecycle
         \/ n = AuthTables \/ n = TenancyTables \/ n = Ownership \/ n = InventoryTables
         \/ n = RecipeTable \/ n = OrderStock \/ n = EventTables \/ n = EpisodeTable
         \/ n \in {PriceCheck, AnalyticsTables, AlertTables, MaintenanceTable, TraceColumn}
    <2>1. n \in Nat /\ 1 <= n /\ n <= 17 /\ TraceColumn = 17
      BY <1>0 DEF TraceColumn
    <2> QED
      BY <1>0, <2>1
  <1> QED
    BY <1>1, <1>2, <1>3, <1>4, <1>5, <1>6, <1>7, <1>8, <1>9, <1>10, <1>11, <1>12, <1>13, <1>14

-----------------------------------------------------------------------------
(* The invariant holds at first, and alembic preserves it                  *)

LEMMA MigrationsInitial == MigrationsInit => MigrationsInv
  <1> SUFFICES ASSUME MigrationsInit PROVE MigrationsInv
    OBVIOUS
  <1>1. rev = 0 /\ db = Empty /\ command = Idle /\ recorded = {} /\ peak = 0
    BY DEF MigrationsInit
  <1>2. NoOrder \in OrderRows /\ NoOrder.exists = FALSE /\ NoOrder.revision = 0
    BY StopsAssumption DEF NoOrder, OrderRows
  <1>3. /\ db \in Rows /\ db.history = {} /\ db.tracked = FALSE /\ db.memberships = {}
        /\ db.order = NoOrder /\ db.restaurant = "absent" /\ db.organizations = <<>>
    <2>1. /\ 0 \in 0 .. MaxRevision /\ <<>> \in Seq(Organizations)
          /\ [o \in Organizations |-> 0] \in [Organizations -> Nat]
      BY StopsAssumption
    <2> HIDE DEF NoOrder
    <2> QED
      BY <1>1, <1>2, <2>1 DEF Empty, Rows
  <1>4. RowsSound(rev, db)
    BY <1>1, <1>2, <1>3
       DEF RowsSound, HistoryFits, ReferencesFit, TenancyFits, OrderFits, TenancyTables,
           Ownership, Lifecycle, EventTables
  <1>5. rev \in 0 .. HeadRevision
    BY <1>1 DEF HeadRevision, TraceColumn
  <1> QED
    BY <1>1, <1>2, <1>3, <1>4, <1>5 DEF MigrationsInv, Committed, PeakFits

\* The running command, where there is one.
LEMMA RunningCommand ==
  ASSUME MigrationsInv, command.running
  PROVE  Committed /\ Transaction
  BY DEF MigrationsInv, Idle

LEMMA BeginCommandStep == ASSUME MigrationsInv, BeginCommand PROVE MigrationsInv'
  <1>1. PICK to \in Stops :
          /\ command' = [running |-> TRUE, from |-> rev, to |-> to, rev |-> rev, rows |-> db]
          /\ UNCHANGED <<rev, db, recorded, peak>>
    BY DEF BeginCommand
  <1>2. Committed
    BY DEF MigrationsInv
  <1>3. Committed'
    BY <1>1, <1>2 DEF Committed, RowsSound, HistoryFits, ReferencesFit, TenancyFits,
                      OneMembershipEach, OrderFits, PeakFits
  <1>4. /\ command'.from = rev /\ command'.rev = rev /\ command'.rows = db
        /\ command' \in Commands
    BY <1>1, <1>2, StopsAssumption DEF Committed, RowsSound, Commands
  <1>5. Transaction'
    <2>1. RowsSound(command'.rev, command'.rows)
      BY <1>2, <1>4 DEF Committed
    <2>2. recorded' \subseteq command'.rows.history
          /\ PeakFits(command'.rev, command'.rows, peak')
      BY <1>1, <1>2, <1>4 DEF Committed
    <2> QED
      BY <1>1, <1>4, <2>1, <2>2 DEF Transaction
  <1> QED
    BY <1>3, <1>5 DEF MigrationsInv

LEMMA StillCommitted ==
  ASSUME Committed, UNCHANGED <<rev, db, recorded, peak>>
  PROVE  Committed'
  BY DEF Committed, RowsSound, HistoryFits, ReferencesFit, TenancyFits, OneMembershipEach,
         OrderFits, PeakFits

LEMMA UpStepStep == ASSUME MigrationsInv, UpStep PROVE MigrationsInv'
  <1>1. Committed /\ Transaction
    BY RunningCommand DEF UpStep
  <1>2. PICK n : n = command.rev + 1
    OBVIOUS
  <1>3. PICK e : e = UpRows(n, command.rows)
    OBVIOUS
  <1>4. /\ UpAllowed(n, command.rows) /\ command.rev < command.to
        /\ command' = [command EXCEPT !.rev = n, !.rows = e]
        /\ UNCHANGED <<rev, db, recorded, peak>>
    BY <1>1, <1>2, <1>3 DEF UpStep, Transaction, Commands
  <1>5. /\ command \in Commands /\ command.from = rev
        /\ command.rev \in 0 .. HeadRevision /\ command.to \in 0 .. HeadRevision
    BY <1>1 DEF Transaction, Commands
  <1>6. n \in 1 .. HeadRevision /\ n - 1 = command.rev
    BY <1>2, <1>4, <1>5 DEF HeadRevision, TraceColumn
  <1>7. /\ RowsSound(n, e) /\ e.history = command.rows.history
        /\ PeakFits(n, e, peak)
    <2>1. PICK d : d = command.rows
      OBVIOUS
    <2>2. RowsSound(n - 1, d) /\ UpAllowed(n, d) /\ e = UpRows(n, d) /\ PeakFits(n - 1, d, peak)
      BY <1>1, <1>3, <1>4, <1>6, <2>1 DEF Transaction
    <2>3. /\ RowsSound(n, e) /\ e.history = d.history
          /\ \A p : PeakFits(n - 1, d, p) => PeakFits(n, e, p)
      BY <1>6, <2>2, UpSound
    <2> QED
      BY <2>1, <2>2, <2>3
  <1>8. /\ command' \in Commands /\ command'.from = rev
        /\ command'.rev = n /\ command'.rows = e
    <2>1. e \in Rows /\ n \in 0 .. HeadRevision
      BY <1>6, <1>7 DEF RowsSound
    <2> QED
      BY <1>4, <1>5, <2>1 DEF Commands
  <1>9. Transaction'
    <2>1. recorded \subseteq e.history
      BY <1>1, <1>7 DEF Transaction
    <2> QED
      BY <1>4, <1>7, <1>8, <2>1 DEF Transaction
  <1> QED
    BY <1>1, <1>4, <1>9, StillCommitted DEF MigrationsInv

LEMMA DownStepStep == ASSUME MigrationsInv, DownStep PROVE MigrationsInv'
  <1>1. Committed /\ Transaction
    BY RunningCommand DEF DownStep
  <1>2. PICK n : n = command.rev
    OBVIOUS
  <1>3. PICK e : e = DownRows(n, command.rows)
    OBVIOUS
  <1>4. /\ DownAllowed(n, command.rows) /\ command.rev > command.to
        /\ command' = [command EXCEPT !.rev = n - 1, !.rows = e]
        /\ UNCHANGED <<rev, db, recorded, peak>>
    BY <1>1, <1>2, <1>3 DEF DownStep, Transaction, Commands
  <1>5. /\ command \in Commands /\ command.from = rev
        /\ command.rev \in 0 .. HeadRevision /\ command.to \in 0 .. HeadRevision
    BY <1>1 DEF Transaction, Commands
  <1>6. n \in 1 .. HeadRevision
    BY <1>2, <1>4, <1>5 DEF HeadRevision, TraceColumn
  <1>7. /\ RowsSound(n - 1, e) /\ e.history = command.rows.history
        /\ PeakFits(n - 1, e, peak)
    <2>1. PICK d : d = command.rows
      OBVIOUS
    <2>2. RowsSound(n, d) /\ DownAllowed(n, d) /\ e = DownRows(n, d) /\ PeakFits(n, d, peak)
      BY <1>1, <1>2, <1>3, <1>4, <2>1 DEF Transaction
    <2>3. /\ RowsSound(n - 1, e) /\ e.history = d.history
          /\ \A p : PeakFits(n, d, p) => PeakFits(n - 1, e, p)
      BY <1>6, <2>2, DownSound
    <2> QED
      BY <2>1, <2>2, <2>3
  <1>8. /\ command' \in Commands /\ command'.from = rev
        /\ command'.rev = n - 1 /\ command'.rows = e
    <2>1. e \in Rows /\ n - 1 \in 0 .. HeadRevision
      BY <1>6, <1>7 DEF RowsSound, HeadRevision, TraceColumn
    <2> QED
      BY <1>4, <1>5, <2>1 DEF Commands
  <1>9. Transaction'
    <2>1. recorded \subseteq e.history
      BY <1>1, <1>7 DEF Transaction
    <2> QED
      BY <1>4, <1>7, <1>8, <2>1 DEF Transaction
  <1> QED
    BY <1>1, <1>4, <1>9, StillCommitted DEF MigrationsInv

LEMMA AbortStep == ASSUME MigrationsInv, Abort PROVE MigrationsInv'
  <1>1. UNCHANGED <<rev, db, recorded, peak>> /\ command' = Idle
    BY DEF Abort
  <1> QED
    BY <1>1, StillCommitted DEF MigrationsInv, Idle

LEMMA CommitCommandStep == ASSUME MigrationsInv, CommitCommand PROVE MigrationsInv'
  <1>1. Committed /\ Transaction
    BY RunningCommand DEF CommitCommand
  <1>2. /\ rev' = command.rev /\ db' = command.rows /\ recorded' = recorded /\ command' = Idle
        /\ peak' = IF command.rows.order.exists THEN peak ELSE 0
    BY DEF CommitCommand
  <1>3. /\ RowsSound(rev', db') /\ rev' \in 0 .. HeadRevision
        /\ recorded' \subseteq db'.history /\ peak' \in Nat
    BY <1>1, <1>2 DEF Transaction, Committed, Commands
  <1>4. PeakFits(rev', db', peak')
    <2>1. CASE command.rows.order.exists
      BY <1>1, <1>2, <2>1 DEF Transaction
    <2>2. CASE ~ command.rows.order.exists
      BY <1>2, <2>2 DEF PeakFits
    <2> QED
      BY <2>1, <2>2
  <1>5. Committed'
    BY <1>2, <1>3, <1>4 DEF Committed
  <1> QED
    BY <1>2, <1>5 DEF MigrationsInv, Idle

-----------------------------------------------------------------------------
(* The application preserves it                                            *)

\* The facts F that the application of revision r can commit.
FactsFit(r, F) ==
    /\ F \subseteq Facts
    /\ r < OrderStock => F = {}
    /\ r < EventTables => F \cap Events = {}
    /\ r < EpisodeTable => Fact("episodes") \notin F
    /\ r < AnalyticsTables => Fact("contributions") \notin F
    /\ r < AlertTables => Fact("alerts") \notin F
    /\ r < MaintenanceTable => Fact("maintenance") \notin F

LEMMA NoFacts == ASSUME NEW r PROVE FactsFit(r, {})
  BY DEF FactsFit

LEMMA Written ==
  ASSUME MigrationsInv, NEW d \in Rows, NEW F, Write(d, F), d.history = db.history,
         FactsFit(rev, F), ReferencesFit(rev, d), TenancyFits(rev, d), OrderFits(rev, d),
         PeakFits(rev, d, peak), ~ d.order.exists => peak = 0
  PROVE  MigrationsInv'
  <1>1. PICK H : H = d.history \cup F
    OBVIOUS
  <1>2. /\ ~ command.running /\ db' = [d EXCEPT !.history = H] /\ rev' = rev
        /\ command' = command /\ recorded' = recorded \cup F
        /\ peak' = IF d.order.revision > peak THEN d.order.revision ELSE peak
    BY <1>1 DEF Write, Rows
  <1>3. command = Idle
    BY <1>2 DEF MigrationsInv, Transaction, Commands
  <1>4. /\ Committed /\ rev \in 0 .. HeadRevision /\ peak \in Nat
        /\ recorded \subseteq d.history /\ HistoryFits(rev, db)
    BY DEF MigrationsInv, Committed, RowsSound
  <1>5. H \subseteq Facts /\ d.order \in OrderRows
    BY <1>1 DEF FactsFit, Rows
  <1>6. /\ db' \in Rows /\ db'.history = H /\ db'.order = d.order /\ db'.tracked = d.tracked
        /\ db'.ingredient = d.ingredient /\ db'.item = d.item
        /\ db'.memberships = d.memberships /\ db'.accounts = d.accounts
        /\ db'.restaurant = d.restaurant /\ db'.organizations = d.organizations
        /\ db'.number = d.number /\ db'.sequence = d.sequence
    BY <1>2, <1>5 DEF Rows
  <1>7. PICK e : e = db'
    OBVIOUS
  <1>8. HistoryFits(rev, e)
    BY <1>1, <1>4, <1>6, <1>7 DEF HistoryFits, FactsFit
  <1>9. ReferencesFit(rev, e) /\ TenancyFits(rev, e) /\ OrderFits(rev, e)
    BY <1>6, <1>7, SameReferences, SameTenancy, SameOrder
  <1>10. RowsSound(rev, e)
    BY <1>6, <1>7, <1>8, <1>9 DEF RowsSound
  <1>11. recorded' \subseteq e.history
    BY <1>1, <1>2, <1>4, <1>6, <1>7
  <1>12. d.order.revision \in Nat
    BY <1>5, StopsAssumption DEF OrderRows
  <1>13. peak' \in Nat
    BY <1>2, <1>4, <1>12
  <1>14. PeakFits(rev, e, peak')
    <2> SUFFICES ASSUME e.order.exists
                 PROVE  peak' <= (IF rev >= EventTables THEN e.order.revision ELSE 1)
      BY DEF PeakFits
    <2>1. d.order.exists
      BY <1>6, <1>7
    <2>2. CASE rev >= EventTables
      <3>1. peak <= d.order.revision
        BY <2>1, <2>2 DEF PeakFits
      <3> QED
        BY <1>2, <1>4, <1>6, <1>7, <1>12, <2>2, <3>1
    <2>3. CASE ~ (rev >= EventTables)
      <3>1. peak <= 1
        BY <2>1, <2>3 DEF PeakFits
      <3>2. d.order.revision = 0
        BY <1>4, <2>3 DEF OrderFits, EventTables
      <3> QED
        BY <1>2, <1>4, <2>3, <3>1, <3>2
    <2> QED
      BY <2>2, <2>3
  <1>15. ~ e.order.exists => peak' = 0
    <2> SUFFICES ASSUME ~ e.order.exists PROVE peak' = 0
      OBVIOUS
    <2>1. ~ d.order.exists
      BY <1>6, <1>7
    <2>2. d.order.revision = 0 /\ peak = 0
      BY <2>1 DEF OrderFits
    <2> QED
      BY <1>2, <2>2
  <1>16. Committed'
    BY <1>2, <1>4, <1>7, <1>10, <1>11, <1>13, <1>14, <1>15 DEF Committed
  <1> QED
    BY <1>2, <1>3, <1>16 DEF MigrationsInv, Idle

\* What the committed rows are.
LEMMA CommittedRows ==
  ASSUME MigrationsInv
  PROVE  /\ db \in Rows /\ db.order \in OrderRows /\ rev \in 0 .. HeadRevision
         /\ HistoryFits(rev, db) /\ ReferencesFit(rev, db) /\ TenancyFits(rev, db)
         /\ OrderFits(rev, db) /\ PeakFits(rev, db, peak) /\ (~ db.order.exists => peak = 0)
  BY DEF MigrationsInv, Committed, RowsSound, Rows

LEMMA SamePeak ==
  ASSUME NEW r, NEW d, NEW e, NEW p, PeakFits(r, d, p), ~ d.order.exists => p = 0,
         e.order.exists = d.order.exists, e.order.revision = d.order.revision
  PROVE  PeakFits(r, e, p) /\ (~ e.order.exists => p = 0)
  BY DEF PeakFits

LEMMA AddRestaurantStep == ASSUME MigrationsInv, AddRestaurant PROVE MigrationsInv'
  <1>1. PICK o \in (IF rev < Ownership THEN {"unscoped"} ELSE {}) \union Range(db.organizations) :
          Write([db EXCEPT !.restaurant = o], {})
    BY DEF AddRestaurant
  <1>2. PICK d : d = [db EXCEPT !.restaurant = o]
    OBVIOUS
  <1>3. /\ db \in Rows /\ rev \in 0 .. HeadRevision /\ ReferencesFit(rev, db)
        /\ TenancyFits(rev, db) /\ OrderFits(rev, db) /\ PeakFits(rev, db, peak)
        /\ (~ db.order.exists => peak = 0)
    BY CommittedRows
  <1>4. Range(db.organizations) \subseteq Organizations
    <2>1. db.organizations \in Seq(Organizations)
      BY <1>3 DEF Rows
    <2> QED
      BY <2>1 DEF Range
  <1>5. o \in {"absent", "unscoped"} \cup Organizations
    BY <1>1, <1>4
  <1>6. /\ d \in Rows /\ d.restaurant = o /\ d.history = db.history /\ d.order = db.order
        /\ d.tracked = db.tracked /\ d.ingredient = db.ingredient /\ d.item = db.item
        /\ d.memberships = db.memberships /\ d.accounts = db.accounts
        /\ d.organizations = db.organizations /\ d.number = db.number
        /\ d.sequence = db.sequence
    BY <1>2, <1>3, <1>5 DEF Rows
  <1>7. TenancyFits(rev, d)
    <2>1. rev >= Ownership => o \in Range(db.organizations)
      BY <1>1, <1>3 DEF Ownership, HeadRevision, TraceColumn
    <2> QED
      BY <1>1, <1>3, <1>6, <2>1 DEF TenancyFits, OneMembershipEach
  <1>8. ReferencesFit(rev, d) /\ OrderFits(rev, d)
    BY <1>3, <1>6, SameReferences, SameOrder
  <1>9. PeakFits(rev, d, peak) /\ (~ d.order.exists => peak = 0)
    BY <1>3, <1>6, SamePeak
  <1> QED
    BY <1>1, <1>2, <1>6, <1>7, <1>8, <1>9, NoFacts, Written

LEMMA AddItemStep == ASSUME MigrationsInv, AddItem PROVE MigrationsInv'
  <1>1. PICK p \in {"valid", "invalid"} : Write([db EXCEPT !.item = p], {})
    BY DEF AddItem
  <1>2. PICK d : d = [db EXCEPT !.item = p]
    OBVIOUS
  <1>3. /\ db \in Rows /\ ReferencesFit(rev, db)
        /\ TenancyFits(rev, db) /\ OrderFits(rev, db) /\ PeakFits(rev, db, peak)
        /\ (~ db.order.exists => peak = 0)
    BY CommittedRows
  <1>4. /\ d \in Rows /\ d.item = p /\ d.history = db.history /\ d.order = db.order
        /\ d.tracked = db.tracked /\ d.ingredient = db.ingredient
        /\ d.restaurant = db.restaurant
        /\ d.memberships = db.memberships /\ d.accounts = db.accounts
        /\ d.organizations = db.organizations /\ d.number = db.number
        /\ d.sequence = db.sequence
    BY <1>2, <1>3 DEF Rows
  <1>5. ReferencesFit(rev, d)
    BY <1>3, <1>4 DEF ReferencesFit
  <1>6. TenancyFits(rev, d) /\ OrderFits(rev, d)
    BY <1>3, <1>4, SameTenancy, SameOrder
  <1>7. PeakFits(rev, d, peak) /\ (~ d.order.exists => peak = 0)
    BY <1>3, <1>4, SamePeak
  <1> QED
    BY <1>1, <1>2, <1>4, <1>5, <1>6, <1>7, NoFacts, Written

LEMMA DropItemStep == ASSUME MigrationsInv, DropItem PROVE MigrationsInv'
  <1>1. /\ Write([db EXCEPT !.item = "absent", !.order.item = FALSE, !.tracked = FALSE], {})
        /\ db.order.exists => rev >= Lifecycle
    BY DEF DropItem
  <1>2. PICK d : d = [db EXCEPT !.item = "absent", !.order.item = FALSE, !.tracked = FALSE]
    OBVIOUS
  <1>3. /\ db \in Rows /\ db.order \in OrderRows /\ ReferencesFit(rev, db)
        /\ TenancyFits(rev, db) /\ OrderFits(rev, db) /\ PeakFits(rev, db, peak)
        /\ (~ db.order.exists => peak = 0)
    BY CommittedRows
  <1>4. PICK o : o = [db.order EXCEPT !.item = FALSE]
    OBVIOUS
  <1>5. /\ o \in OrderRows /\ o.exists = db.order.exists /\ o.status = db.order.status
        /\ o.named = db.order.named /\ o.revision = db.order.revision
    BY <1>3, <1>4 DEF OrderRows
  <1>6. d = [db EXCEPT !.item = "absent", !.order = o, !.tracked = FALSE]
    BY <1>2, <1>3, <1>4 DEF Rows, OrderRows
  <1>7. /\ d \in Rows /\ d.item = "absent" /\ d.history = db.history /\ d.order = o
        /\ d.tracked = FALSE /\ d.ingredient = db.ingredient
        /\ d.restaurant = db.restaurant
        /\ d.memberships = db.memberships /\ d.accounts = db.accounts
        /\ d.organizations = db.organizations /\ d.number = db.number
        /\ d.sequence = db.sequence
    BY <1>3, <1>5, <1>6 DEF Rows
  <1>8. ReferencesFit(rev, d)
    BY <1>3, <1>7 DEF ReferencesFit
  <1>9. OrderFits(rev, d)
    BY <1>3, <1>5, <1>7 DEF OrderFits
  <1>10. TenancyFits(rev, d)
    BY <1>3, <1>7, SameTenancy
  <1>11. PeakFits(rev, d, peak) /\ (~ d.order.exists => peak = 0)
    BY <1>3, <1>5, <1>7, SamePeak
  <1> QED
    BY <1>1, <1>2, <1>7, <1>8, <1>9, <1>10, <1>11, NoFacts, Written

LEMMA PlaceOrderStep == ASSUME MigrationsInv, PlaceOrder PROVE MigrationsInv'
  <1>1. PICK s \in IF rev < Lifecycle THEN LegacyStatus ELSE {"DRAFT"} :
          Write([db EXCEPT !.order =
                    [exists |-> TRUE, status |-> s, item |-> TRUE,
                     named |-> rev >= Lifecycle,
                     revision |-> IF rev >= EventTables THEN 1 ELSE 0,
                     processed |-> FALSE]],
                IF rev >= OrderStock THEN {Fact("submissions")} ELSE {})
    BY DEF PlaceOrder
  <1>2. PICK k, b, F : /\ k = IF rev >= EventTables THEN 1 ELSE 0
                       /\ b \in BOOLEAN /\ b = (rev >= Lifecycle)
                       /\ F = IF rev >= OrderStock THEN {Fact("submissions")} ELSE {}
    <2>1. (rev >= Lifecycle) \in BOOLEAN
      OBVIOUS
    <2> QED
      BY <2>1, Zenon
  <1>3. PICK o : o = [exists |-> TRUE, status |-> s, item |-> TRUE, named |-> b,
                      revision |-> k, processed |-> FALSE]
    OBVIOUS
  <1>4. PICK d : d = [db EXCEPT !.order = o]
    OBVIOUS
  <1>5. Write(d, F)
    BY <1>1, <1>2, <1>3, <1>4
  <1>6. /\ db \in Rows /\ rev \in 0 .. HeadRevision /\ ReferencesFit(rev, db)
        /\ TenancyFits(rev, db) /\ (~ db.order.exists => peak = 0) /\ ~ db.order.exists
    BY CommittedRows DEF PlaceOrder
  <1>7. s \in OrderStatus \cup LegacyStatus /\ s # "none" /\ (rev >= Lifecycle => s = "DRAFT")
    BY <1>1, <1>6 DEF OrderStatus, LegacyStatus, Lifecycle, HeadRevision, TraceColumn
  <1>8. k \in 0 .. MaxRevision
    BY <1>2, StopsAssumption
  <1>9. /\ o \in OrderRows /\ o.exists = TRUE /\ o.status = s /\ o.named = b /\ o.revision = k
    BY <1>2, <1>3, <1>7, <1>8 DEF OrderRows
  <1>10. /\ d \in Rows /\ d.item = db.item /\ d.history = db.history /\ d.order = o
         /\ d.tracked = db.tracked /\ d.ingredient = db.ingredient
         /\ d.restaurant = db.restaurant
         /\ d.memberships = db.memberships /\ d.accounts = db.accounts
         /\ d.organizations = db.organizations /\ d.number = db.number
         /\ d.sequence = db.sequence
    BY <1>4, <1>6, <1>9 DEF Rows
  <1>11. OrderFits(rev, d)
    <2>1. rev >= Lifecycle => b
      BY <1>2
    <2>2. rev < EventTables => k = 0
      BY <1>2, <1>6 DEF EventTables, HeadRevision, TraceColumn
    <2>3. "DRAFT" \in OrderStatus
      BY DEF OrderStatus
    <2> QED
      BY <1>7, <1>9, <1>10, <2>1, <2>2, <2>3 DEF OrderFits
  <1>12. ReferencesFit(rev, d) /\ TenancyFits(rev, d)
    BY <1>6, <1>10, SameReferences, SameTenancy
  <1>13. PeakFits(rev, d, peak) /\ (~ d.order.exists => peak = 0)
    BY <1>2, <1>6, <1>9, <1>10 DEF PeakFits
  <1>14. FactsFit(rev, F)
    <2>1. CASE rev >= OrderStock
      <3>1. F = {Fact("submissions")}
        BY <1>2, <2>1
      <3>2. F \cap Events = {}
        BY <3>1 DEF Fact, Events
      <3> QED
        BY <1>6, <2>1, <3>1, <3>2
           DEF FactsFit, Facts, Fact, OrderStock, HeadRevision, TraceColumn
    <2>2. CASE ~ (rev >= OrderStock)
      BY <1>2, <2>2 DEF FactsFit
    <2> QED
      BY <2>1, <2>2
  <1> QED
    BY <1>5, <1>10, <1>11, <1>12, <1>13, <1>14, Written

LEMMA AdvanceOrderStep == ASSUME MigrationsInv, AdvanceOrder PROVE MigrationsInv'
  <1>1. PICK s \in OrderStatus \ {db.order.status, "DRAFT"}, told \in BOOLEAN :
          LET r == IF rev >= EventTables THEN db.order.revision + 1 ELSE 0
              used == s = "ACCEPTED" /\ rev >= OrderStock
          IN /\ ~told => s \in {"PREPARING", "READY"} \/ rev < EventTables
             /\ Write([db EXCEPT !.order.status = s,
                                 !.order.revision = r,
                                 !.order.processed = @ \/ used],
                      (IF rev >= EventTables /\ told THEN {<<"order", r>>} ELSE {})
                      \union (IF used /\ db.tracked THEN {Fact("consumption")} ELSE {}))
    BY DEF AdvanceOrder
  <1>2. (s = "ACCEPTED" /\ rev >= OrderStock) \in BOOLEAN
    OBVIOUS
  <1>3. PICK used \in BOOLEAN : used = (s = "ACCEPTED" /\ rev >= OrderStock)
    BY <1>2, Zenon
  <1>4. PICK k : k = IF rev >= EventTables THEN db.order.revision + 1 ELSE 0
    OBVIOUS
  <1>5. PICK F : F = (IF rev >= EventTables /\ told THEN {<<"order", k>>} ELSE {})
                     \union (IF used /\ db.tracked THEN {Fact("consumption")} ELSE {})
    OBVIOUS
  <1>6. Write([db EXCEPT !.order.status = s, !.order.revision = k,
                         !.order.processed = @ \/ used], F)
    BY <1>1, <1>3, <1>4, <1>5, Zenon
  <1>7. used => rev >= OrderStock
    BY <1>3
  <1>8. /\ db \in Rows /\ db.order \in OrderRows /\ rev \in 0 .. HeadRevision
        /\ ReferencesFit(rev, db) /\ TenancyFits(rev, db) /\ OrderFits(rev, db)
        /\ PeakFits(rev, db, peak) /\ db.order.exists
        /\ rev >= Lifecycle /\ db.order.revision < MaxRevision
    BY CommittedRows DEF AdvanceOrder
  <1>9. PICK w \in BOOLEAN : w = (db.order.processed \/ used)
    <2>1. (db.order.processed \/ used) \in BOOLEAN
      OBVIOUS
    <2> QED
      BY <2>1, Zenon
  <1>10. PICK o : o = [db.order EXCEPT !.status = s, !.revision = k, !.processed = w]
    OBVIOUS
  <1>11. PICK d : d = [db EXCEPT !.order = o]
    OBVIOUS
  <1>12. k \in 0 .. MaxRevision /\ (rev >= EventTables => k \in 1 .. MaxRevision
                                                         /\ k > db.order.revision)
    BY <1>4, <1>5, <1>6, <1>7, <1>8, StopsAssumption DEF OrderRows
  <1>13. /\ o \in OrderRows /\ o.exists = db.order.exists /\ o.status = s
        /\ o.named = db.order.named /\ o.revision = k
    BY <1>8, <1>9, <1>10, <1>12 DEF OrderRows
  <1>14. [db EXCEPT !.order.status = s, !.order.revision = k, !.order.processed = @ \/ used] = d
    BY <1>8, <1>9, <1>10, <1>11 DEF Rows, OrderRows
  <1>15. Write(d, F)
    BY <1>4, <1>5, <1>6, <1>7, <1>14
  <1>16. /\ d \in Rows /\ d.item = db.item /\ d.history = db.history /\ d.order = o
         /\ d.tracked = db.tracked /\ d.ingredient = db.ingredient
         /\ d.restaurant = db.restaurant
         /\ d.memberships = db.memberships /\ d.accounts = db.accounts
         /\ d.organizations = db.organizations /\ d.number = db.number
         /\ d.sequence = db.sequence
    BY <1>8, <1>11, <1>13 DEF Rows
  <1>17. OrderFits(rev, d)
    <2>1. s # "none"
      BY DEF OrderStatus
    <2>2. rev < EventTables => k = 0
      BY <1>4, <1>5, <1>6, <1>7, <1>8 DEF EventTables, HeadRevision, TraceColumn
    <2> QED
      BY <1>8, <1>13, <1>16, <2>1, <2>2 DEF OrderFits
  <1>18. ReferencesFit(rev, d) /\ TenancyFits(rev, d)
    BY <1>8, <1>16, SameReferences, SameTenancy
  <1>19. PeakFits(rev, d, peak)
    <2>1. peak \in Nat /\ k \in Nat /\ db.order.revision \in Nat
      BY <1>8, <1>12, StopsAssumption DEF OrderRows, MigrationsInv, Committed
    <2>2. CASE rev >= EventTables
      <3>1. peak <= db.order.revision /\ db.order.revision < k
        BY <1>8, <1>12, <2>2 DEF PeakFits
      <3> QED
        BY <1>13, <1>16, <2>1, <2>2, <3>1 DEF PeakFits
    <2>3. CASE ~ (rev >= EventTables)
      BY <1>8, <1>13, <1>16, <2>3 DEF PeakFits
    <2> QED
      BY <2>2, <2>3
  <1>20. FactsFit(rev, F)
    <2>1. PICK A, C : /\ A = IF rev >= EventTables /\ told THEN {<<"order", k>>} ELSE {}
                      /\ C = IF used /\ db.tracked THEN {Fact("consumption")} ELSE {}
      OBVIOUS
    <2>2. F = A \cup C
      BY <1>4, <1>5, <1>6, <1>7, <2>1
    <2>3. FactsFit(rev, A)
      <3>1. CASE rev >= EventTables /\ told
        <4>1. A = {<<"order", k>>} /\ <<"order", k>> \in Events
          BY <1>12, <2>1, <3>1 DEF Events
        <4>2. /\ Fact("episodes") \notin A /\ Fact("contributions") \notin A
              /\ Fact("alerts") \notin A /\ Fact("maintenance") \notin A
          BY <1>12, <3>1, <4>1 DEF Fact
        <4> QED
          BY <1>8, <3>1, <4>1, <4>2
             DEF FactsFit, Facts, EventTables, OrderStock, HeadRevision, TraceColumn
      <3>2. CASE ~ (rev >= EventTables /\ told)
        BY <2>1, <3>2, NoFacts
      <3> QED
        BY <3>1, <3>2
    <2>4. FactsFit(rev, C)
      <3>1. CASE used /\ db.tracked
        <4>1. C = {Fact("consumption")}
          BY <2>1, <3>1
        <4>2. C \cap Events = {}
          BY <4>1 DEF Fact, Events
        <4> QED
          BY <1>4, <1>5, <1>6, <1>7, <1>8, <3>1, <4>1, <4>2
             DEF FactsFit, Facts, Fact, OrderStock, HeadRevision, TraceColumn
      <3>2. CASE ~ (used /\ db.tracked)
        BY <2>1, <3>2, NoFacts
      <3> QED
        BY <3>1, <3>2
    <2> QED
      BY <2>2, <2>3, <2>4 DEF FactsFit
  <1>21. d.order.exists
    BY <1>8, <1>13, <1>16
  <1> QED
    BY <1>15, <1>16, <1>17, <1>18, <1>19, <1>20, <1>21, Written

LEMMA AddOrganizationStep == ASSUME MigrationsInv, AddOrganization PROVE MigrationsInv'
  <1>1. PICK o \in Tenants \ Range(db.organizations) :
          Write([db EXCEPT !.organizations = Append(@, o),
                           !.number[o] = IF rev >= Ownership THEN db.sequence + 1 ELSE 0,
                           !.sequence = IF rev >= Ownership THEN @ + 1 ELSE 0], {})
    BY DEF AddOrganization
  <1>2. /\ db \in Rows /\ rev \in 0 .. HeadRevision /\ ReferencesFit(rev, db)
        /\ TenancyFits(rev, db) /\ OrderFits(rev, db) /\ PeakFits(rev, db, peak)
        /\ (~ db.order.exists => peak = 0) /\ rev >= TenancyTables
    BY CommittedRows DEF AddOrganization
  <1>3. PICK os, f, k :
          /\ os = Append(db.organizations, o)
          /\ f = [db.number EXCEPT ![o] = IF rev >= Ownership THEN db.sequence + 1 ELSE 0]
          /\ k = IF rev >= Ownership THEN db.sequence + 1 ELSE 0
    OBVIOUS
  <1>4. o \in Organizations /\ db.organizations \in Seq(Organizations)
        /\ db.number \in [Organizations -> Nat] /\ db.sequence \in Nat
    BY <1>2 DEF Organizations, Rows
  <1>5. /\ os \in Seq(Organizations) /\ Range(db.organizations) \subseteq Range(os)
    <2>1. /\ os \in Seq(Organizations) /\ Len(os) = Len(db.organizations) + 1
          /\ \A i \in 1 .. Len(db.organizations) : os[i] = db.organizations[i]
      BY <1>3, <1>4, AppendProperties
    <2>2. /\ DOMAIN os = 1 .. Len(db.organizations) + 1
          /\ DOMAIN db.organizations = 1 .. Len(db.organizations)
          /\ Len(db.organizations) \in Nat
      BY <1>4, <2>1
    <2>3. DOMAIN db.organizations \subseteq DOMAIN os
      BY <2>2
    <2> QED
      BY <2>1, <2>2, <2>3 DEF Range
  <1>6. f \in [Organizations -> Nat] /\ k \in Nat
    BY <1>3, <1>4
  <1>7. PICK d : d = [db EXCEPT !.organizations = os, !.number = f, !.sequence = k]
    OBVIOUS
  <1>8. Write(d, {})
    <2>1. d = [db EXCEPT !.organizations = Append(@, o),
                         !.number[o] = IF rev >= Ownership THEN db.sequence + 1 ELSE 0,
                         !.sequence = IF rev >= Ownership THEN @ + 1 ELSE 0]
      BY <1>2, <1>3, <1>7 DEF Rows
    <2> QED
      BY <1>1, <2>1
  <1>9. /\ d \in Rows /\ d.item = db.item /\ d.history = db.history /\ d.order = db.order
        /\ d.tracked = db.tracked /\ d.ingredient = db.ingredient
        /\ d.restaurant = db.restaurant
        /\ d.memberships = db.memberships /\ d.accounts = db.accounts
        /\ d.organizations = os /\ d.number = f /\ d.sequence = k
    BY <1>2, <1>5, <1>6, <1>7 DEF Rows
  <1>10. TenancyFits(rev, d)
    <2>1. /\ d.restaurant \in {"absent", "unscoped"} \cup Range(os)
          /\ Dev \in Range(os) /\ ~ (rev < TenancyTables)
      BY <1>2, <1>5, <1>9 DEF TenancyFits, TenancyTables, HeadRevision, TraceColumn
    <2>2. ASSUME rev >= Ownership
          PROVE  /\ d.restaurant \in {"absent"} \cup Range(os) /\ OneMembershipEach(d)
                 /\ \A q \in Organizations : f[q] <= k
      <3>1. /\ db.restaurant \in {"absent"} \cup Range(db.organizations)
            /\ OneMembershipEach(db)
            /\ \A q \in Organizations : db.number[q] <= db.sequence
        BY <1>2, <2>2 DEF TenancyFits
      <3>2. OneMembershipEach(d)
        BY <1>9, <3>1 DEF OneMembershipEach
      <3>3. k = db.sequence + 1 /\ f = [db.number EXCEPT ![o] = db.sequence + 1]
        BY <1>3, <2>2
      <3>4. ASSUME NEW q \in Organizations PROVE f[q] <= k
        <4>1. CASE q = o
          BY <1>4, <3>3, <4>1
        <4>2. CASE q # o
          <5>1. f[q] = db.number[q] /\ db.number[q] \in Nat /\ db.number[q] <= db.sequence
            BY <1>4, <3>1, <3>3, <4>2
          <5> QED
            BY <1>4, <3>3, <5>1
        <4> QED
          BY <4>1, <4>2
      <3> QED
        BY <1>5, <1>9, <3>1, <3>2, <3>4
    <2> QED
      BY <1>9, <2>1, <2>2 DEF TenancyFits
  <1>11. ReferencesFit(rev, d) /\ OrderFits(rev, d)
    BY <1>2, <1>9, SameReferences, SameOrder
  <1>12. PeakFits(rev, d, peak) /\ (~ d.order.exists => peak = 0)
    BY <1>2, <1>9, SamePeak
  <1> QED
    BY <1>8, <1>9, <1>10, <1>11, <1>12, NoFacts, Written

LEMMA AddAccountStep == ASSUME MigrationsInv, AddAccount PROVE MigrationsInv'
  <1>1. PICK u \in Users : Write([db EXCEPT !.accounts = @ \union {u}], {})
    BY DEF AddAccount
  <1>2. PICK d : d = [db EXCEPT !.accounts = @ \union {u}]
    OBVIOUS
  <1>3. /\ db \in Rows /\ ReferencesFit(rev, db)
        /\ TenancyFits(rev, db) /\ OrderFits(rev, db) /\ PeakFits(rev, db, peak)
        /\ (~ db.order.exists => peak = 0)
    BY CommittedRows
  <1>4. /\ d \in Rows /\ d.item = db.item /\ d.history = db.history /\ d.order = db.order
        /\ d.tracked = db.tracked /\ d.ingredient = db.ingredient
        /\ d.restaurant = db.restaurant
        /\ d.memberships = db.memberships /\ d.accounts = db.accounts \cup {u}
        /\ d.organizations = db.organizations /\ d.number = db.number
        /\ d.sequence = db.sequence
    BY <1>2, <1>3 DEF Rows
  <1>5. ReferencesFit(rev, d)
    BY <1>3, <1>4 DEF ReferencesFit
  <1>6. TenancyFits(rev, d) /\ OrderFits(rev, d)
    BY <1>3, <1>4, SameTenancy, SameOrder
  <1>7. PeakFits(rev, d, peak) /\ (~ d.order.exists => peak = 0)
    BY <1>3, <1>4, SamePeak
  <1> QED
    BY <1>1, <1>2, <1>4, <1>5, <1>6, <1>7, NoFacts, Written

LEMMA AddMemberStep == ASSUME MigrationsInv, AddMember PROVE MigrationsInv'
  <1>1. PICK u \in db.accounts, o \in Range(db.organizations) :
          /\ rev >= Ownership => \A m \in db.memberships : m[1] # u
          /\ Write([db EXCEPT !.memberships = @ \union {<<u, o>>}], {})
    BY DEF AddMember
  <1>2. PICK M : M = db.memberships \cup {<<u, o>>}
    OBVIOUS
  <1>3. PICK d : d = [db EXCEPT !.memberships = M]
    OBVIOUS
  <1>4. /\ db \in Rows /\ rev \in 0 .. HeadRevision /\ ReferencesFit(rev, db)
        /\ TenancyFits(rev, db) /\ OrderFits(rev, db) /\ PeakFits(rev, db, peak)
        /\ (~ db.order.exists => peak = 0) /\ rev >= TenancyTables
    BY CommittedRows DEF AddMember
  <1>5. o \in Organizations /\ u \in Users
    <2>1. db.organizations \in Seq(Organizations) /\ db.accounts \subseteq Users
      BY <1>4 DEF Rows
    <2> QED
      BY <2>1 DEF Range
  <1>6. M \subseteq Users \X Organizations
    BY <1>2, <1>4, <1>5 DEF Rows
  <1>7. Write(d, {})
    BY <1>1, <1>2, <1>3
  <1>8. /\ d \in Rows /\ d.item = db.item /\ d.history = db.history /\ d.order = db.order
        /\ d.tracked = db.tracked /\ d.ingredient = db.ingredient
        /\ d.restaurant = db.restaurant /\ d.memberships = M
        /\ d.accounts = db.accounts
        /\ d.organizations = db.organizations /\ d.number = db.number
        /\ d.sequence = db.sequence
    BY <1>3, <1>4, <1>6 DEF Rows
  <1>9. ReferencesFit(rev, d)
    <2>1. M \subseteq db.accounts \X Organizations
      BY <1>2, <1>4, <1>5 DEF ReferencesFit
    <2>2. ~ (rev < TenancyTables)
      BY <1>4 DEF TenancyTables, HeadRevision, TraceColumn
    <2> QED
      BY <1>4, <1>8, <2>1, <2>2 DEF ReferencesFit
  <1>10. rev >= Ownership => OneMembershipEach(d)
    <2> SUFFICES ASSUME rev >= Ownership, NEW m \in M, NEW n \in M, m[1] = n[1] PROVE m = n
      BY <1>8 DEF OneMembershipEach
    <2>1. \A a, b \in db.memberships : a[1] = b[1] => a = b
      BY <1>4 DEF TenancyFits, OneMembershipEach
    <2>2. \A a \in db.memberships : a[1] # u
      BY <1>1
    <2>3. <<u, o>>[1] = u
      OBVIOUS
    <2> QED
      BY <1>2, <2>1, <2>2, <2>3
  <1>11. TenancyFits(rev, d)
    BY <1>4, <1>8, <1>10 DEF TenancyFits
  <1>12. OrderFits(rev, d)
    BY <1>4, <1>8, SameOrder
  <1>13. PeakFits(rev, d, peak) /\ (~ d.order.exists => peak = 0)
    BY <1>4, <1>8, SamePeak
  <1> QED
    BY <1>7, <1>8, <1>9, <1>11, <1>12, <1>13, NoFacts, Written

LEMMA AddIngredientStep == ASSUME MigrationsInv, AddIngredient PROVE MigrationsInv'
  <1>1. PICK k, F : /\ k = IF rev >= EpisodeTable THEN 1 ELSE 0
                    /\ F = IF rev >= EpisodeTable THEN {<<"ingredient", 1>>} ELSE {}
    OBVIOUS
  <1>2. PICK d : d = [db EXCEPT !.ingredient = TRUE, !.state_revision = k]
    OBVIOUS
  <1>3. Write(d, F)
    BY <1>1, <1>2 DEF AddIngredient
  <1>4. /\ db \in Rows /\ rev \in 0 .. HeadRevision /\ ReferencesFit(rev, db)
        /\ TenancyFits(rev, db) /\ OrderFits(rev, db) /\ PeakFits(rev, db, peak)
        /\ (~ db.order.exists => peak = 0)
    BY CommittedRows
  <1>5. k \in 0 .. MaxRevision
    BY <1>1, StopsAssumption
  <1>6. /\ d \in Rows /\ d.item = db.item /\ d.history = db.history /\ d.order = db.order
        /\ d.tracked = db.tracked /\ d.ingredient = TRUE
        /\ d.restaurant = db.restaurant
        /\ d.memberships = db.memberships /\ d.accounts = db.accounts
        /\ d.organizations = db.organizations /\ d.number = db.number
        /\ d.sequence = db.sequence
    BY <1>2, <1>4, <1>5 DEF Rows
  <1>7. ReferencesFit(rev, d)
    BY <1>4, <1>6 DEF ReferencesFit
  <1>8. TenancyFits(rev, d) /\ OrderFits(rev, d)
    BY <1>4, <1>6, SameTenancy, SameOrder
  <1>9. PeakFits(rev, d, peak) /\ (~ d.order.exists => peak = 0)
    BY <1>4, <1>6, SamePeak
  <1>10. FactsFit(rev, F)
    <2>1. CASE rev >= EpisodeTable
      <3>1. F = {<<"ingredient", 1>>} /\ <<"ingredient", 1>> \in Events
        BY <1>1, <2>1, StopsAssumption DEF Events
      <3>2. /\ Fact("episodes") \notin F /\ Fact("contributions") \notin F
            /\ Fact("alerts") \notin F /\ Fact("maintenance") \notin F
        BY <3>1 DEF Fact
      <3> QED
        BY <1>4, <2>1, <3>1, <3>2
           DEF FactsFit, Facts, EpisodeTable, EventTables, OrderStock, HeadRevision, TraceColumn
    <2>2. CASE ~ (rev >= EpisodeTable)
      BY <1>1, <2>2, NoFacts
    <2> QED
      BY <2>1, <2>2
  <1> QED
    BY <1>3, <1>6, <1>7, <1>8, <1>9, <1>10, Written

LEMMA TrackItemStep == ASSUME MigrationsInv, TrackItem PROVE MigrationsInv'
  <1>1. /\ rev >= RecipeTable /\ db.ingredient /\ db.item # "absent"
        /\ Write([db EXCEPT !.tracked = TRUE], {})
    BY DEF TrackItem
  <1>2. PICK d : d = [db EXCEPT !.tracked = TRUE]
    OBVIOUS
  <1>3. /\ db \in Rows /\ rev \in 0 .. HeadRevision /\ ReferencesFit(rev, db)
        /\ TenancyFits(rev, db) /\ OrderFits(rev, db) /\ PeakFits(rev, db, peak)
        /\ (~ db.order.exists => peak = 0)
    BY CommittedRows
  <1>4. /\ d \in Rows /\ d.item = db.item /\ d.history = db.history /\ d.order = db.order
        /\ d.tracked = TRUE /\ d.ingredient = db.ingredient
        /\ d.restaurant = db.restaurant
        /\ d.memberships = db.memberships /\ d.accounts = db.accounts
        /\ d.organizations = db.organizations /\ d.number = db.number
        /\ d.sequence = db.sequence
    BY <1>2, <1>3 DEF Rows
  <1>5. ReferencesFit(rev, d)
    <2>1. ~ (rev < RecipeTable)
      BY <1>1, <1>3 DEF RecipeTable, HeadRevision, TraceColumn
    <2> QED
      BY <1>1, <1>3, <1>4, <2>1 DEF ReferencesFit
  <1>6. TenancyFits(rev, d) /\ OrderFits(rev, d)
    BY <1>3, <1>4, SameTenancy, SameOrder
  <1>7. PeakFits(rev, d, peak) /\ (~ d.order.exists => peak = 0)
    BY <1>3, <1>4, SamePeak
  <1> QED
    BY <1>1, <1>2, <1>4, <1>5, <1>6, <1>7, NoFacts, Written

LEMMA ChangeStockStep == ASSUME MigrationsInv, ChangeStock PROVE MigrationsInv'
  <1>1. PICK low \in BOOLEAN :
          Write([db EXCEPT !.state_revision = @ + 1],
                {<<"ingredient", db.state_revision + 1>>}
                \union (IF low THEN {Fact("episodes")} ELSE {}))
    BY DEF ChangeStock
  <1>2. /\ db \in Rows /\ rev \in 0 .. HeadRevision /\ ReferencesFit(rev, db)
        /\ TenancyFits(rev, db) /\ OrderFits(rev, db) /\ PeakFits(rev, db, peak)
        /\ (~ db.order.exists => peak = 0) /\ rev >= EpisodeTable
        /\ db.state_revision < MaxRevision
    BY CommittedRows DEF ChangeStock
  <1>3. PICK k, F : /\ k = db.state_revision + 1
                    /\ F = {<<"ingredient", k>>} \union (IF low THEN {Fact("episodes")} ELSE {})
    OBVIOUS
  <1>4. k \in 1 .. MaxRevision /\ k \in 0 .. MaxRevision
    BY <1>2, <1>3, StopsAssumption DEF Rows
  <1>5. PICK d : d = [db EXCEPT !.state_revision = k]
    OBVIOUS
  <1>6. Write(d, F)
    BY <1>1, <1>3, <1>5
  <1>7. /\ d \in Rows /\ d.item = db.item /\ d.history = db.history /\ d.order = db.order
        /\ d.tracked = db.tracked /\ d.ingredient = db.ingredient
        /\ d.restaurant = db.restaurant
        /\ d.memberships = db.memberships /\ d.accounts = db.accounts
        /\ d.organizations = db.organizations /\ d.number = db.number
        /\ d.sequence = db.sequence
    BY <1>2, <1>4, <1>5 DEF Rows
  <1>8. ReferencesFit(rev, d) /\ TenancyFits(rev, d) /\ OrderFits(rev, d)
    BY <1>2, <1>7, SameReferences, SameTenancy, SameOrder
  <1>9. PeakFits(rev, d, peak) /\ (~ d.order.exists => peak = 0)
    BY <1>2, <1>7, SamePeak
  <1>10. FactsFit(rev, F)
    <2>1. <<"ingredient", k>> \in Facts /\ Fact("episodes") \in Facts
      BY <1>4 DEF Facts, Events
    <2>2. F \subseteq {<<"ingredient", k>>, Fact("episodes")}
      BY <1>3
    <2>3. /\ Fact("contributions") \notin F /\ Fact("alerts") \notin F
          /\ Fact("maintenance") \notin F
      BY <2>2 DEF Fact
    <2>4. ~ (rev < OrderStock) /\ ~ (rev < EventTables) /\ ~ (rev < EpisodeTable)
      BY <1>2 DEF EpisodeTable, EventTables, OrderStock, HeadRevision, TraceColumn
    <2> QED
      BY <2>1, <2>2, <2>3, <2>4 DEF FactsFit
  <1> QED
    BY <1>6, <1>7, <1>8, <1>9, <1>10, Written

LEMMA ProjectStep == ASSUME MigrationsInv, Project PROVE MigrationsInv'
  <1>1. PICK f \in {"contributions", "alerts", "maintenance"} :
          /\ \/ f = "contributions" /\ rev >= AnalyticsTables
             \/ f = "alerts" /\ rev >= AlertTables
             \/ f = "maintenance" /\ rev >= MaintenanceTable
          /\ Write(db, {Fact(f)})
    BY DEF Project
  <1>2. PICK F : F = {Fact(f)}
    OBVIOUS
  <1>3. /\ db \in Rows /\ rev \in 0 .. HeadRevision /\ ReferencesFit(rev, db)
        /\ TenancyFits(rev, db) /\ OrderFits(rev, db) /\ PeakFits(rev, db, peak)
        /\ (~ db.order.exists => peak = 0)
    BY CommittedRows
  <1>4. FactsFit(rev, F)
    <2>1. F \subseteq Facts
      BY <1>2 DEF Facts
    <2>2. /\ Fact("episodes") \notin F
          /\ Fact("contributions") \in F => f = "contributions"
          /\ Fact("alerts") \in F => f = "alerts"
          /\ Fact("maintenance") \in F => f = "maintenance"
      BY <1>2 DEF Fact
    <2>3. ~ (rev < OrderStock) /\ ~ (rev < EventTables) /\ ~ (rev < EpisodeTable)
          /\ ~ (rev < AnalyticsTables)
      BY <1>1, <1>3 DEF OrderStock, EventTables, EpisodeTable, AnalyticsTables, AlertTables,
                        MaintenanceTable, HeadRevision, TraceColumn
    <2>4. /\ f = "alerts" => ~ (rev < AlertTables)
          /\ f = "maintenance" => ~ (rev < MaintenanceTable)
      BY <1>1, <1>3 DEF AlertTables, MaintenanceTable, HeadRevision, TraceColumn
    <2> QED
      BY <2>1, <2>2, <2>3, <2>4 DEF FactsFit
  <1> QED
    BY <1>1, <1>2, <1>3, <1>4, Written

LEMMA EraseStep == ASSUME MigrationsInv, Erase PROVE MigrationsInv'
  <1>1. PICK f \in db.history \ Undeletable(rev) :
          /\ db' = [db EXCEPT !.history = @ \ {f}]
          /\ recorded' = IF f \in Events \union {Fact("episodes")}
                         THEN recorded ELSE recorded \ {f}
    BY DEF Erase
  <1>2. /\ ~ command.running /\ rev' = rev /\ peak' = peak /\ command' = command
    BY DEF Erase
  <1>3. command = Idle
    BY <1>2 DEF MigrationsInv, Transaction, Commands
  <1>4. /\ db \in Rows /\ rev \in 0 .. HeadRevision /\ HistoryFits(rev, db)
        /\ ReferencesFit(rev, db)
        /\ TenancyFits(rev, db) /\ OrderFits(rev, db) /\ PeakFits(rev, db, peak)
        /\ (~ db.order.exists => peak = 0) /\ recorded \subseteq db.history /\ peak \in Nat
    BY CommittedRows DEF MigrationsInv, Committed
  <1>5. PICK e, H : e = db' /\ H = db.history \ {f}
    OBVIOUS
  <1>6. /\ e \in Rows /\ e.item = db.item /\ e.history = H /\ e.order = db.order
        /\ e.tracked = db.tracked /\ e.ingredient = db.ingredient
        /\ e.restaurant = db.restaurant
        /\ e.memberships = db.memberships /\ e.accounts = db.accounts
        /\ e.organizations = db.organizations /\ e.number = db.number
        /\ e.sequence = db.sequence
    BY <1>1, <1>4, <1>5 DEF Rows
  <1>7. f \notin Events \cup {Fact("episodes")}
    <2>1. f \notin Events
      BY <1>1, <1>4 DEF Undeletable, EventsGuarded, HistoryFits, EventTables, HeadRevision,
                        TraceColumn
    <2>2. f # Fact("episodes")
      BY <1>1, <1>4 DEF Undeletable, EpisodesGuarded, HistoryFits, EpisodeTable, HeadRevision,
                        TraceColumn
    <2> QED
      BY <2>1, <2>2
  <1>8. recorded' \subseteq e.history
    BY <1>1, <1>4, <1>5, <1>6, <1>7
  <1>9. HistoryFits(rev, e)
    BY <1>4, <1>5, <1>6 DEF HistoryFits
  <1>10. ReferencesFit(rev, e) /\ TenancyFits(rev, e) /\ OrderFits(rev, e)
    BY <1>4, <1>6, SameReferences, SameTenancy, SameOrder
  <1>11. RowsSound(rev, e)
    BY <1>6, <1>9, <1>10 DEF RowsSound
  <1>12. PeakFits(rev, e, peak) /\ (~ e.order.exists => peak = 0)
    BY <1>4, <1>6, SamePeak
  <1>13. Committed'
    BY <1>2, <1>4, <1>5, <1>8, <1>11, <1>12 DEF Committed
  <1> QED
    BY <1>2, <1>3, <1>13 DEF MigrationsInv, Idle

LEMMA ApplicationStep == ASSUME MigrationsInv, Application PROVE MigrationsInv'
  <1>1. CASE AddRestaurant
    BY <1>1, AddRestaurantStep
  <1>2. CASE AddItem
    BY <1>2, AddItemStep
  <1>3. CASE DropItem
    BY <1>3, DropItemStep
  <1>4. CASE PlaceOrder
    BY <1>4, PlaceOrderStep
  <1>5. CASE AdvanceOrder
    BY <1>5, AdvanceOrderStep
  <1>6. CASE AddOrganization
    BY <1>6, AddOrganizationStep
  <1>7. CASE AddAccount
    BY <1>7, AddAccountStep
  <1>8. CASE AddMember
    BY <1>8, AddMemberStep
  <1>9. CASE AddIngredient
    BY <1>9, AddIngredientStep
  <1>10. CASE TrackItem
    BY <1>10, TrackItemStep
  <1>11. CASE ChangeStock
    BY <1>11, ChangeStockStep
  <1>12. CASE Project
    BY <1>12, ProjectStep
  <1>13. CASE Erase
    BY <1>13, EraseStep
  <1> QED
    BY <1>1, <1>2, <1>3, <1>4, <1>5, <1>6, <1>7, <1>8, <1>9, <1>10, <1>11, <1>12, <1>13
       DEF Application

LEMMA MigrationsStep ==
  ASSUME MigrationsInv, [MigrationsNext]_migrationsVars
  PROVE  MigrationsInv'
  <1>1. CASE BeginCommand
    BY <1>1, BeginCommandStep
  <1>2. CASE UpStep
    BY <1>2, UpStepStep
  <1>3. CASE DownStep
    BY <1>3, DownStepStep
  <1>4. CASE Abort
    BY <1>4, AbortStep
  <1>5. CASE CommitCommand
    BY <1>5, CommitCommandStep
  <1>6. CASE Application
    BY <1>6, ApplicationStep
  <1>7. CASE UNCHANGED migrationsVars
    <2>1. UNCHANGED <<rev, db, command, recorded, peak>>
      BY <1>7 DEF migrationsVars
    <2>2. Committed'
      BY <2>1, StillCommitted DEF MigrationsInv
    <2>3. CASE command = Idle
      BY <2>1, <2>2, <2>3 DEF MigrationsInv, Idle
    <2>4. CASE Transaction
      <3>1. RowsSound(command'.rev, command'.rows)
        BY <2>1, <2>4 DEF Transaction
      <3>2. PeakFits(command'.rev, command'.rows, peak')
        BY <2>1, <2>4 DEF Transaction
      <3>3. /\ command' \in Commands /\ command'.from = rev'
            /\ recorded' \subseteq command'.rows.history
        BY <2>1, <2>4 DEF Transaction
      <3>4. Transaction'
        BY <3>1, <3>2, <3>3 DEF Transaction
      <3> QED
        BY <2>2, <3>4 DEF MigrationsInv
    <2> QED
      BY <2>3, <2>4 DEF MigrationsInv
  <1> QED
    BY <1>1, <1>2, <1>3, <1>4, <1>5, <1>6, <1>7 DEF MigrationsNext

LEMMA MigrationsInvariant == MigrationsSpec => []MigrationsInv
  BY MigrationsInitial, MigrationsStep, PTL DEF MigrationsSpec

-----------------------------------------------------------------------------
(* What the invariant says of a database                                   *)

LEMMA SoundType ==
  ASSUME NEW r, NEW d, RowsSound(r, d)
  PROVE  RowsTypeOK(r, d)
  <1>1. d \in Rows
    BY DEF RowsSound
  <1>2. d.memberships \subseteq d.accounts \X Organizations
        /\ (d.tracked => d.ingredient /\ d.item # "absent")
    BY DEF RowsSound, ReferencesFit
  <1>3. (r < EventTables => d.history \cap Events = {}) /\ (r < OrderStock => d.history = {})
    BY DEF RowsSound, HistoryFits
  <1> QED
    BY <1>1, <1>2, <1>3 DEF RowsTypeOK, Rows, OrderRows

LEMMA InvType == ASSUME MigrationsInv PROVE MigrationsTypeOK
  <1>1. RowsTypeOK(rev, db) /\ rev \in 0 .. HeadRevision
    BY SoundType DEF MigrationsInv, Committed
  <1>2. recorded \subseteq Facts
    BY DEF MigrationsInv, Committed, RowsSound, Rows
  <1>3. ASSUME command.running PROVE RowsTypeOK(command.rev, command.rows)
    BY <1>3, RunningCommand, SoundType DEF Transaction
  <1> QED
    BY <1>1, <1>2, <1>3 DEF MigrationsTypeOK

LEMMA InvHistory == ASSUME MigrationsInv PROVE HistoryKept
  <1>1. AllOrNothing
    BY RunningCommand DEF AllOrNothing, Transaction
  <1>2. RetainedHistoryKept
    BY DEF RetainedHistoryKept, MigrationsInv, Committed
  <1>3. OrderRevisionsKept
    <2> SUFFICES ASSUME rev >= EventTables PROVE peak <= db.order.revision
      BY DEF OrderRevisionsKept
    <2>1. CASE db.order.exists
      BY <2>1, CommittedRows DEF PeakFits
    <2>2. CASE ~ db.order.exists
      <3>1. peak = 0 /\ db.order.revision = 0
        BY <2>2, CommittedRows DEF OrderFits
      <3> QED
        BY <3>1
    <2> QED
      BY <2>1, <2>2
  <1> QED
    BY <1>1, <1>2, <1>3, InvType DEF HistoryKept

LEMMA InvRows == ASSUME MigrationsInv PROVE RowsFitRevision
  <1>1. TenancyEnforced
    BY CommittedRows DEF TenancyEnforced, TenancyFits
  <1>2. NextNumberFree
    <2> SUFFICES ASSUME rev >= Ownership, NEW o \in Organizations
                 PROVE  db.number[o] # db.sequence + 1
      BY DEF NextNumberFree
    <2>1. db.number[o] <= db.sequence
      BY CommittedRows DEF TenancyFits
    <2>2. db.number[o] \in Nat /\ db.sequence \in Nat
      BY CommittedRows DEF Rows
    <2> QED
      BY <2>1, <2>2
  <1>3. OrderHistoryReadable
    BY CommittedRows DEF OrderHistoryReadable, OrderFits
  <1> QED
    BY <1>1, <1>2, <1>3 DEF RowsFitRevision

\* backend/alembic/env.py runs a whole command in one transaction, so whatever commands
\* an operator runs, refused or killed halfway, the facts the application retained are
\* still there, and no order's revision is behind one it had: the downgrades of e68d,
\* c61a, b8f3, a936, b2c7 and c3d8 refuse while there is anything they would lose.
THEOREM HistoryKeptHolds == MigrationsSpec => []HistoryKept
  BY MigrationsInvariant, InvHistory, PTL

\* Whatever older versions of the application wrote, the upgrades 4a1e and 94d8 leave
\* orders whose status and item name can be read, restaurants that belong to an existing
\* organization, users with one membership, and a number sequence past every
\* organization, also when a downgrade had dropped the numbers.
THEOREM RowsFitRevisionHolds == MigrationsSpec => []RowsFitRevision
  BY MigrationsInvariant, InvRows, PTL

===============================================================================
