---------------------------- MODULE DatabasePool ----------------------------
(***************************************************************************)
(* The API's connection pool as the readiness check (app/db/readiness.py)  *)
(* and the requests (app/db/database.py, get_db) share it, with what       *)
(* app/db/telemetry.py measures on the way: connections being acquired,    *)
(* and transactions that failed.                                           *)
(*                                                                         *)
(* PostgreSQL may be suspended: it then answers nothing until it resumes,  *)
(* and whatever needs an answer waits.  A slot of the pool is the          *)
(* connection in it; a slot whose connection was terminated is discarded   *)
(* when it is returned and connected again for the next borrower.          *)
(***************************************************************************)
EXTENDS Integers, FiniteSets

CONSTANTS
    Slots,       \* pool_size + max_overflow
    Borrowers,   \* requests with a session of their own
    Probes,      \* calls of database_ready
    None

Tasks == Borrowers \cup Probes

ASSUME PoolAssumption ==
    /\ Borrowers \cap Probes = {}
    /\ None \notin Tasks \cup Slots

VARIABLES
    suspended,   \* the database does not answer
    slot,        \* the connections
    pc,          \* where each task is
    cancelled,   \* probes whose task was cancelled
    driver,      \* the connection each probe remembers
    caller,      \* what the caller of database_ready does
    acquiring    \* the gauge restaurantos.pool.acquiring

vars == <<suspended, slot, pc, cancelled, driver, caller, acquiring>>

(* info is the sentinel in conn.info; failed and counted are the history   *)
(* of the transaction: whether it failed, and how often that was recorded. *)
Fresh == [holder |-> None, alive |-> TRUE, tx |-> FALSE,
          info |-> FALSE, failed |-> FALSE, counted |-> 0]

Init ==
    /\ suspended = FALSE
    /\ slot = [s \in Slots |-> Fresh]
    /\ pc = [t \in Tasks |-> "idle"]
    /\ cancelled = {}
    /\ driver = [p \in Probes |-> None]
    /\ caller = [p \in Probes |-> "idle"]
    /\ acquiring = 0

Held(t) == {s \in Slots : slot[s].holder = t}
Of(t) == CHOOSE s \in Slots : slot[s].holder = t

Goto(t, from, to) == pc[t] = from /\ pc' = [pc EXCEPT ![t] = to]

Suspend ==
    /\ suspended' = ~suspended
    /\ UNCHANGED <<slot, pc, cancelled, driver, caller, acquiring>>

-----------------------------------------------------------------------------
(* Engine events: what instrument_engine() records. *)


Begin(c) == [c EXCEPT !.tx = TRUE, !.info = FALSE, !.failed = FALSE, !.counted = 0]

(* handle_error: the first failure of a transaction is recorded. *)
Failure(c) ==
    [c EXCEPT !.failed = TRUE, !.info = TRUE,
              !.counted = IF c.info THEN @ ELSE @ + 1]

\* Mutant: the sentinel is also reset by the commit event.
CommitEventMutant(c) == [c EXCEPT !.info = FALSE]

(* The rollback event precedes the driver's rollback, and so does the      *)
(* commit event, to which nothing listens.                                 *)
RollbackEvent(c) == [c EXCEPT !.info = FALSE]
CommitEvent(c) == c

Closed(c) == [c EXCEPT !.tx = FALSE, !.failed = FALSE, !.counted = 0]

(* A connection goes back to the pool with its info; a dead one is dropped. *)
Returned(c) ==
    IF c.alive THEN [Closed(c) EXCEPT !.holder = None] ELSE [Fresh EXCEPT !.alive = FALSE]

-----------------------------------------------------------------------------
(* ObservedAsyncPool.connect() *)

(* A connection waits in the pool, or a new one is made. *)
Usable(s) == slot[s].holder = None /\ (slot[s].alive \/ ~suspended)

LentTo(t, c) == [(IF c.alive THEN c ELSE Fresh) EXCEPT !.holder = t]

Lend(t, s) ==
    /\ Usable(s)
    /\ slot' = [slot EXCEPT ![s] = LentTo(t, @)]
    /\ acquiring' = acquiring - 1

\* Mutant: the gauge is only taken back when a connection was obtained.
RefusedMutant == acquiring' = acquiring

(* A pool timeout, a failed connection or a cancellation. *)
Refused == acquiring' = acquiring - 1

-----------------------------------------------------------------------------
(* A request: get_db() and the service that uses its session. *)

Ask(b) ==
    /\ Goto(b, "idle", "asking")
    /\ acquiring' = acquiring + 1
    /\ UNCHANGED <<suspended, slot, cancelled, driver, caller>>

Borrow(b) ==
    \/ /\ Goto(b, "asking", "busy")
       /\ \E s \in Slots :
             /\ Usable(s)
             /\ slot' = [slot EXCEPT ![s] = Begin(LentTo(b, @))]
       /\ acquiring' = acquiring - 1
       /\ UNCHANGED <<suspended, cancelled, driver, caller>>
    \/ /\ Goto(b, "asking", "idle")
       /\ Refused
       /\ UNCHANGED <<suspended, slot, cancelled, driver, caller>>

(* A statement fails; the service goes on after a savepoint or gives up. *)
StatementFails(b) ==
    /\ pc[b] = "busy" /\ ~suspended
    /\ slot' = [slot EXCEPT ![Of(b)] = Failure(@)]
    /\ UNCHANGED <<suspended, pc, cancelled, driver, caller, acquiring>>

(* The commit succeeds and the connection goes back. *)
Commit(b) ==
    /\ Goto(b, "busy", "idle") /\ ~suspended
    /\ slot' = [slot EXCEPT ![Of(b)] = Returned(CommitEvent(@))]
    /\ UNCHANGED <<suspended, cancelled, driver, caller, acquiring>>

(* The commit fails, which is a failure of the same transaction. *)
CommitFails(b) ==
    /\ Goto(b, "busy", "rejected") /\ ~suspended
    /\ slot' = [slot EXCEPT ![Of(b)] = Failure(CommitEvent(@))]
    /\ UNCHANGED <<suspended, cancelled, driver, caller, acquiring>>

(* A failed rollback is recorded although the sentinel has just been reset. *)
RollbackFails(b) ==
    /\ Goto(b, "busy", "broken") /\ ~suspended
    /\ slot' = [slot EXCEPT ![Of(b)] = Failure(RollbackEvent(@))]
    /\ UNCHANGED <<suspended, cancelled, driver, caller, acquiring>>

(* After either the pool resets the connection itself: no engine event.    *)
Discard(b) ==
    /\ pc[b] \in {"rejected", "broken"} /\ ~suspended
    /\ pc' = [pc EXCEPT ![b] = "idle"]
    /\ slot' = [slot EXCEPT ![Of(b)] = Returned(@)]
    /\ UNCHANGED <<suspended, cancelled, driver, caller, acquiring>>

(* get_db(): reads and abandoned writes are rolled back. *)
Rollback(b) ==
    /\ Goto(b, "busy", "idle") /\ ~suspended
    /\ slot' = [slot EXCEPT ![Of(b)] = Returned(RollbackEvent(@))]
    /\ UNCHANGED <<suspended, cancelled, driver, caller, acquiring>>

-----------------------------------------------------------------------------
(* database_ready(): the probe task *)

(* The task and its caller start together. *)
Check(p) ==
    /\ caller[p] = "idle"
    /\ caller' = [caller EXCEPT ![p] = "waiting"]
    /\ Goto(p, "idle", "asking")
    /\ acquiring' = acquiring + 1
    /\ UNCHANGED <<suspended, slot, cancelled, driver>>

Lease(p) ==
    /\ Goto(p, "asking", "leased")
    /\ p \notin cancelled
    /\ \E s \in Slots : Lend(p, s)
    /\ UNCHANGED <<suspended, cancelled, driver, caller>>

LeaseRefused(p) ==
    /\ Goto(p, "asking", "done")
    /\ Refused
    /\ UNCHANGED <<suspended, slot, cancelled, driver, caller>>

(* get_raw_connection() needs no answer of the server; the statement       *)
(* begins a transaction.                                                   *)
Drive(p) ==
    /\ Goto(p, "leased", "driven")
    /\ p \notin cancelled
    /\ driver' = [driver EXCEPT ![p] = Of(p)]
    /\ slot' = [slot EXCEPT ![Of(p)] = Begin(@)]
    /\ UNCHANGED <<suspended, cancelled, caller, acquiring>>

Select(p) ==
    /\ Goto(p, "driven", "closing")
    /\ p \notin cancelled /\ ~suspended
    /\ UNCHANGED <<suspended, slot, cancelled, driver, caller, acquiring>>

(* A cancelled task leaves the context; an interrupted statement fails.    *)
Interrupt(p) ==
    /\ p \in cancelled
    /\ \/ Goto(p, "leased", "closing") /\ UNCHANGED slot
       \/ Goto(p, "driven", "closing") /\ slot' = [slot EXCEPT ![Of(p)] = Failure(@)]
    /\ UNCHANGED <<suspended, cancelled, driver, caller, acquiring>>

(* Leaving the context rolls back, in a task of its own that cancellation  *)
(* does not reach, and waits for the server unless no transaction was      *)
(* begun or the connection is dead.  The connection is free and the lease  *)
(* closed before the probe's task runs again.                              *)
Ends(c) == ~c.tx \/ ~c.alive \/ ~suspended

Close(p) ==
    /\ pc[p] \in {"closing", "abandoned"} /\ Held(p) # {}
    /\ Ends(slot[Of(p)])
    /\ pc' = [pc EXCEPT ![p] = IF @ = "closing" THEN "returned" ELSE "done"]
    /\ slot' = [slot EXCEPT ![Of(p)] = Returned(RollbackEvent(@))]
    /\ UNCHANGED <<suspended, cancelled, driver, caller, acquiring>>

Resume(p) ==
    /\ Goto(p, "returned", "done")
    /\ UNCHANGED <<suspended, slot, cancelled, driver, caller, acquiring>>

-----------------------------------------------------------------------------
(* database_ready(): its caller *)

\* Mutant: whatever connection the probe once had is terminated.
LeaseOpenMutant(p) == TRUE

LeaseOpen(p) == pc[p] \notin {"asking", "returned", "done"}

\* Mutant: the connection is left to the graceful close.
TerminatesMutant(p) == {}

(* driver is set, and the lease is not closed. *)
Terminates(p) == IF LeaseOpen(p) THEN {driver[p]} \ {None} ELSE {}

(* The deadline passes, or the request that asked is cancelled, before the *)
(* task is done: terminate, cancel, and await the task.                    *)
Timeout(p) ==
    /\ caller[p] = "waiting" /\ pc[p] # "done"
    /\ slot' = [s \in Slots |-> IF s \in Terminates(p) THEN [slot[s] EXCEPT !.alive = FALSE]
                                ELSE slot[s]]
    /\ cancelled' = cancelled \cup {p}
    /\ caller' = [caller EXCEPT ![p] = "awaiting"]
    (* Cancelled while it awaits the shielded close, the task ends at once. *)
    /\ pc' = IF pc[p] = "closing" THEN [pc EXCEPT ![p] = "abandoned"] ELSE pc
    /\ UNCHANGED <<suspended, driver, acquiring>>

Answer(p) ==
    /\ caller[p] \in {"waiting", "awaiting"}
    /\ pc[p] = "done" \/ (caller[p] = "awaiting" /\ pc[p] = "abandoned")
    /\ caller' = [caller EXCEPT ![p] = "answered"]
    /\ UNCHANGED <<suspended, slot, pc, cancelled, driver, acquiring>>

(* The next check, once nothing of the last one is left. *)
Again(p) ==
    /\ caller[p] = "answered" /\ Goto(p, "done", "idle")
    /\ caller' = [caller EXCEPT ![p] = "idle"]
    /\ cancelled' = cancelled \ {p}
    /\ driver' = [driver EXCEPT ![p] = None]
    /\ UNCHANGED <<suspended, slot, acquiring>>

-----------------------------------------------------------------------------
BorrowerStep(b) ==
    \/ Ask(b) \/ Borrow(b) \/ StatementFails(b)
    \/ Commit(b) \/ CommitFails(b) \/ Rollback(b) \/ RollbackFails(b) \/ Discard(b)

ProbeStep(p) ==
    \/ Lease(p) \/ LeaseRefused(p) \/ Drive(p) \/ Select(p)
    \/ Interrupt(p) \/ Close(p) \/ Resume(p)

Next ==
    \/ Suspend
    \/ \E b \in Borrowers : BorrowerStep(b)
    \/ \E p \in Probes : Check(p) \/ ProbeStep(p) \/ Timeout(p) \/ Answer(p) \/ Again(p)

Spec == Init /\ [][Next]_vars

-----------------------------------------------------------------------------
(* Values of the variables; acquiring counts the tasks inside connect().   *)
PoolTypeOK ==
    /\ suspended \in BOOLEAN
    /\ \A s \in Slots : slot[s].holder \in Tasks \cup {None} /\ slot[s].counted \in 0 .. 2
    /\ \A t \in Tasks : Cardinality(Held(t)) <= 1
    /\ acquiring = Cardinality({t \in Tasks : pc[t] = "asking"})

(* "Never terminate a connection already lent to another user"             *)
(* (app/db/readiness.py): whenever the deadline passes, also between the   *)
(* return of the connection and the end of the task, the connection a      *)
(* request works on stays alive.                                           *)
BorrowersKeepConnection ==
    \A s \in Slots : slot[s].holder \in Borrowers => slot[s].alive

(* Its rollback failed too. *)
Broken(s) == slot[s].holder \in Borrowers /\ pc[slot[s].holder] = "broken"

(* A transaction that failed is recorded once, however many of its         *)
(* statements fail and whether its commit fails too, and one that did not  *)
(* fail is not recorded, on a connection that carries the sentinel from    *)
(* one borrower to the next.  (A rollback that fails itself is recorded    *)
(* besides: the rollback event has already reset the sentinel.)            *)
FailuresCountedOnce ==
    \A s \in Slots : slot[s].tx /\ ~Broken(s) =>
        slot[s].counted = IF slot[s].failed THEN 1 ELSE 0

(* What the two invariants rest on: the values of the connections, who     *)
(* holds one and where it is then, which connection a probe remembers,     *)
(* and that the sentinel tells whether the transaction failed.             *)
Connection == [holder : Tasks \cup {None}, alive : BOOLEAN, tx : BOOLEAN,
               info : BOOLEAN, failed : BOOLEAN, counted : Int]

PoolValues ==
    /\ slot \in [Slots -> Connection]
    /\ pc \in [Tasks -> {"idle", "asking", "busy", "rejected", "broken",
                         "leased", "driven", "closing", "abandoned", "returned", "done"}]
    /\ driver \in [Probes -> Slots \cup {None}]

HoldersAreBusy ==
    /\ \A r, s \in Slots : slot[r].holder = slot[s].holder /\ slot[r].holder # None => r = s
    /\ \A b \in Borrowers :
          pc[b] \in {"idle", "asking", "busy", "rejected", "broken"}
              /\ (pc[b] \in {"busy", "rejected", "broken"} <=> \E s \in Slots : slot[s].holder = b)
    /\ \A p \in Probes :
          pc[p] \in {"leased", "driven", "closing", "abandoned"}
              <=> \E s \in Slots : slot[s].holder = p

DriverIsHeld ==
    \A p \in Probes :
        /\ driver[p] # None /\ LeaseOpen(p) => slot[driver[p]].holder = p
        /\ pc[p] \in {"idle", "asking", "leased"} => driver[p] = None

SentinelTrue ==
    \A s \in Slots :
        /\ slot[s].tx => slot[s].holder # None
        /\ slot[s].tx /\ ~Broken(s) =>
              /\ slot[s].info = slot[s].failed
              /\ slot[s].counted = IF slot[s].failed THEN 1 ELSE 0

PoolInv ==
    PoolValues /\ HoldersAreBusy /\ DriverIsHeld /\ SentinelTrue /\ BorrowersKeepConnection

(* /ready answers, and the probe's connection returns to the pool, while   *)
(* the database stays suspended for ever.                                  *)
ReadinessAnswers ==
    \A p \in Probes : (caller[p] = "waiting") ~> (caller[p] = "answered" /\ Held(p) = {})

=============================================================================
