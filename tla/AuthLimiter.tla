---------------------------- MODULE AuthLimiter ----------------------------
(***************************************************************************)
(* The authentication rate limiter of one API process (auth/rate_limit.py) *)
(* over a Redis that may fail at any command (redis/adapter.py).  Login    *)
(* and refresh requests reserve a place in their buckets, in Redis while   *)
(* it is healthy and in the process's own memory while it is not, and are  *)
(* finalized as counted or not (auth/service.py, finish_admissions).       *)
(*                                                                         *)
(* Everything between two awaits of the event loop is one step, and so is  *)
(* each Lua script.  A command that fails or is cancelled stays in late:   *)
(* Redis may run it at any later moment, or never.                         *)
(*                                                                         *)
(* Time is kept as answers: a reservation's 10 s lease and the end of a    *)
(* window are steps of their own, and _clean, which the code calls before  *)
(* every decision, leaves nothing else to observe.                         *)
(***************************************************************************)
EXTENDS Naturals, FiniteSets

CONSTANTS
    Requests,       \* slots: a slot is used again once nothing refers to it
    Buckets,
    BucketsOf,      \* the buckets of each request: pair and address, or family
    Maximum, LocalMaximum,  \* limits of a bucket in Redis and in memory
    MaxEntries,     \* auth_local_max_entries
    StableProbes,   \* successful probes that end degraded mode (3 in the code)
    MaxGeneration   \* bound: failures in a behaviour

ASSUME BucketsAssumption ==
    /\ BucketsOf \in [Requests -> SUBSET Buckets]
    /\ \A r \in Requests : IsFiniteSet(BucketsOf[r])
ASSUME LimitsAssumption ==
    /\ Maximum \in [Buckets -> Nat \ {0}] /\ LocalMaximum \in [Buckets -> Nat \ {0}]
    /\ {MaxEntries, StableProbes, MaxGeneration} \subseteq Nat \ {0}

VARIABLES
    req,    \* each request: where it waits, what it holds, what it will report
    local,  \* LocalBucket of each bucket in memory
    redis,  \* the sorted set of each bucket in Redis
    late,   \* commands without an answer that Redis may still run
    mode,   \* _degraded_at, _probing, _successes, _generation, _next_probe
    clean   \* ghost: probes in a row that saw no failure since they began

limiterVars == <<req, local, redis, late, mode, clean>>

\* A request.  undo: its count was cancelled and is to be taken back; seen:
\* the generation its probe began in; unharmed: ghost, no failure since then.
Request == [phase: {"idle", "probing", "admitting", "granted", "finalizing", "done"},
            backend: {"redis", "local"}, count: BOOLEAN, undo: BOOLEAN,
            seen: 0 .. MaxGeneration, unharmed: BOOLEAN]
Idle == [phase |-> "idle", backend |-> "local", count |-> FALSE, undo |-> FALSE,
         seen |-> 0, unharmed |-> FALSE]

Bucket == [failures: SUBSET Requests, reservations: SUBSET Requests]
EmptyBucket == [failures |-> {}, reservations |-> {}]
Members(b) == b.failures \cup b.reservations
Size(b) == Cardinality(b.failures) + Cardinality(b.reservations)

-----------------------------------------------------------------------------
(* Redis scripts *)

\* ADMIT: every bucket is checked before any reservation is made.
AdmitRefuses(r) == \E b \in BucketsOf[r] : Size(redis[b]) >= Maximum[b]

Admitted(r) ==
    IF AdmitRefuses(r) THEN redis
    ELSE [b \in Buckets |->
            IF b \in BucketsOf[r] THEN [redis[b] EXCEPT !.reservations = @ \cup {r}]
            ELSE redis[b]]

\* Mutant: a failure is added whether or not its reservation was still there.
FinalizedAnyway(r, count, discard) ==
    [b \in Buckets |->
        IF b \notin BucketsOf[r] THEN redis[b]
        ELSE [reservations |-> redis[b].reservations \ {r},
              failures |-> (IF discard THEN redis[b].failures \ {r} ELSE redis[b].failures)
                           \cup (IF count THEN {r} ELSE {})]]

\* FINALIZE: the reservation goes, and becomes a failure if it was still there.
Finalized(r, count, discard) ==
    [b \in Buckets |->
        IF b \notin BucketsOf[r] THEN redis[b]
        ELSE [reservations |-> redis[b].reservations \ {r},
              failures |-> (IF discard THEN redis[b].failures \ {r} ELSE redis[b].failures)
                           \cup (IF count THEN redis[b].reservations \cap {r} ELSE {})]]

\* A command whose caller gave up runs after all.
LateCommand(r, command) ==
    /\ <<r, command>> \in late
    /\ late' = late \ {<<r, command>>}
    /\ redis' = CASE command = "admit" -> Admitted(r)
                  [] command = "count" -> Finalized(r, TRUE, FALSE)
                  [] command = "release" -> Finalized(r, FALSE, FALSE)
                  [] command = "discard" -> Finalized(r, FALSE, TRUE)
    /\ UNCHANGED <<req, local, mode, clean>>

Command(r) ==
    IF req[r].undo THEN "discard" ELSE IF req[r].count THEN "count" ELSE "release"

-----------------------------------------------------------------------------
(* Memory of the process *)

Entries(loc) == {b \in Buckets : Members(loc[b]) # {}}

\* Buckets to reserve: behind a healthy Redis only those that survive from a
\* degraded period, and never one that has counted the request already.
Tracked(r, guard, loc) ==
    {b \in BucketsOf[r] : (guard => b \in Entries(loc)) /\ r \notin loc[b].failures}

\* Mutant: a bucket is full only beyond its limit.
LocalRefusesBeyond(r, guard, loc) ==
    \/ \E b \in Tracked(r, guard, loc) : Size(loc[b]) > LocalMaximum[b]
    \/ Cardinality(Entries(loc) \cup Tracked(r, guard, loc)) > MaxEntries

\* Mutant: the entries still missing are not counted against the capacity.
LocalRefusesLate(r, guard, loc) ==
    \/ \E b \in Tracked(r, guard, loc) : Size(loc[b]) >= LocalMaximum[b]
    \/ Cardinality(Entries(loc)) > MaxEntries

\* _local_admit raises RateLimitError: a full bucket, or no room for new entries.
LocalRefuses(r, guard, loc) ==
    \/ \E b \in Tracked(r, guard, loc) : Size(loc[b]) >= LocalMaximum[b]
    \/ Cardinality(Entries(loc) \cup Tracked(r, guard, loc)) > MaxEntries

LocalAdmitted(r, guard, loc) ==
    [b \in Buckets |->
        IF b \in Tracked(r, guard, loc) THEN [loc[b] EXCEPT !.reservations = @ \cup {r}]
        ELSE loc[b]]

LocalFinalized(r, count, discard, loc) ==
    [b \in Buckets |->
        IF b \notin BucketsOf[r] THEN loc[b]
        ELSE [reservations |-> loc[b].reservations \ {r},
              failures |-> (IF discard THEN loc[b].failures \ {r} ELSE loc[b].failures)
                           \cup (IF count THEN loc[b].reservations \cap {r} ELSE {})]]

\* _degrade: a new generation, and the next probe only after 5 seconds.
Degrade ==
    /\ mode.generation < MaxGeneration
    /\ mode' = [mode EXCEPT !.degraded = TRUE, !.successes = 0, !.due = FALSE,
                            !.generation = @ + 1]
    /\ clean' = 0

\* The requests after a failure, with r as given.
Harmed(r, new) ==
    [q \in Requests |-> IF q = r THEN new ELSE [req[q] EXCEPT !.unharmed = FALSE]]

-----------------------------------------------------------------------------
(* Requests *)

\* admit once the mode is known: degraded requests stay in memory, the others
\* pass the surviving local buckets and then ask Redis.
Admission(r, degraded) ==
    LET guard == ~degraded IN
    IF LocalRefuses(r, guard, local)
    THEN req' = [req EXCEPT ![r] = Idle] /\ UNCHANGED local
    ELSE /\ local' = LocalAdmitted(r, guard, local)
         /\ req' = [req EXCEPT ![r] =
                      IF degraded THEN [Idle EXCEPT !.phase = "granted"]
                      ELSE [Idle EXCEPT !.phase = "admitting", !.backend = "redis"]]

ShouldProbe == mode.degraded /\ ~mode.probing /\ mode.due

\* A request arrives and finds no probe to make.
Arrive(r) ==
    /\ req[r].phase = "idle"
    /\ ~ShouldProbe
    /\ Admission(r, mode.degraded)
    /\ UNCHANGED <<redis, late, mode, clean>>

\* A request arrives and probes first; the others do not wait for it.
Probe(r) ==
    /\ req[r].phase = "idle"
    /\ ShouldProbe
    /\ mode' = [mode EXCEPT !.probing = TRUE, !.due = FALSE]
    /\ req' = [req EXCEPT ![r] = [Idle EXCEPT !.phase = "probing", !.unharmed = TRUE,
                                              !.seen = mode.generation]]
    /\ UNCHANGED <<local, redis, late, clean>>

\* Mutant: every answered probe counts.
ModeAfterAnyProbe(r) ==
    LET n == mode.successes + 1 IN
    [mode EXCEPT !.probing = FALSE, !.successes = n, !.degraded = @ /\ n < StableProbes]

\* The probe was answered: it counts only if nothing failed while it waited.
ModeAfterProbe(r) ==
    LET n == IF req[r].seen = mode.generation THEN mode.successes + 1
             ELSE mode.successes
    IN [mode EXCEPT !.probing = FALSE, !.successes = n,
                    !.degraded = @ /\ n < StableProbes]

ProbeSucceeds(r) ==
    /\ req[r].phase = "probing"
    /\ mode' = ModeAfterProbe(r)
    /\ clean' = IF req[r].unharmed THEN clean + 1 ELSE clean
    /\ Admission(r, mode'.degraded)
    /\ UNCHANGED <<redis, late>>

\* The probe failed: the request is admitted in memory.
ProbeFails(r) ==
    /\ req[r].phase = "probing"
    /\ mode.generation < MaxGeneration
    /\ mode' = [mode EXCEPT !.successes = 0, !.due = FALSE, !.probing = FALSE,
                            !.generation = @ + 1]
    /\ clean' = 0
    /\ IF LocalRefuses(r, FALSE, local)
       THEN req' = Harmed(r, Idle) /\ UNCHANGED local
       ELSE /\ local' = LocalAdmitted(r, FALSE, local)
            /\ req' = Harmed(r, [Idle EXCEPT !.phase = "granted"])
    /\ UNCHANGED <<redis, late>>

\* Mutant: a cancelled probe is not marked as over.
ProbeCancelledProbing(r) ==
    /\ req[r].phase = "probing"
    /\ Degrade
    /\ req' = Harmed(r, Idle)
    /\ UNCHANGED <<local, redis, late>>

\* The request is cancelled while it probes.
ProbeCancelled(r) ==
    /\ req[r].phase = "probing"
    /\ mode.generation < MaxGeneration
    /\ mode' = [mode EXCEPT !.successes = 0, !.due = FALSE, !.probing = FALSE,
                            !.generation = @ + 1]
    /\ clean' = 0
    /\ req' = Harmed(r, Idle)
    /\ UNCHANGED <<local, redis, late>>

\* Redis answers ADMIT.
AdmitAnswered(r) ==
    /\ req[r].phase = "admitting"
    /\ redis' = Admitted(r)
    /\ IF AdmitRefuses(r)
       THEN /\ local' = LocalFinalized(r, FALSE, FALSE, local)
            /\ req' = [req EXCEPT ![r] = [@ EXCEPT !.phase = "done", !.count = FALSE]]
       ELSE /\ req' = [req EXCEPT ![r].phase = "granted"]
            /\ UNCHANGED local
    /\ UNCHANGED <<late, mode, clean>>

\* ADMIT fails: the reservation moves to memory, as in degraded mode.
AdmitFails(r) ==
    /\ req[r].phase = "admitting"
    /\ Degrade
    /\ late' = late \cup {<<r, "admit">>}
    /\ LET loc == LocalFinalized(r, FALSE, FALSE, local) IN
       IF LocalRefuses(r, FALSE, loc)
       THEN local' = loc /\ req' = Harmed(r, [Idle EXCEPT !.phase = "done"])
       ELSE /\ local' = LocalAdmitted(r, FALSE, loc)
            /\ req' = Harmed(r, [Idle EXCEPT !.phase = "granted"])
    /\ UNCHANGED redis

\* The request is cancelled while ADMIT runs; Redis keeps at most a lease.
AdmitCancelled(r) ==
    /\ req[r].phase = "admitting"
    /\ late' = late \cup {<<r, "admit">>}
    /\ local' = LocalFinalized(r, FALSE, FALSE, local)
    /\ req' = [req EXCEPT ![r].phase = "done"]
    /\ UNCHANGED <<redis, mode, clean>>

\* finalize: memory first; a request that Redis admitted then asks Redis.
Finalize(r, count) ==
    /\ req[r].phase = "granted"
    /\ req[r].undo => ~count
    /\ local' = LocalFinalized(r, count, req[r].undo, local)
    /\ req' = [req EXCEPT ![r].count = count,
                          ![r].phase = IF @ = "granted" /\ req[r].backend = "redis"
                                       THEN "finalizing" ELSE "done"]
    /\ UNCHANGED <<redis, late, mode, clean>>

FinalizeAnswered(r) ==
    /\ req[r].phase = "finalizing"
    /\ redis' = Finalized(r, req[r].count, req[r].undo)
    /\ req' = [req EXCEPT ![r].phase = "done"]
    /\ UNCHANGED <<local, late, mode, clean>>

\* Mutant: a failed finalization is not counted in memory.
CountedLocallyNever(r) == local

\* The count of a failed finalization, as far as memory has room for it.
CountedLocally(r) ==
    IF ~req[r].count \/ LocalRefuses(r, FALSE, local) THEN local
    ELSE LocalFinalized(r, TRUE, FALSE, LocalAdmitted(r, FALSE, local))

FinalizeFails(r) ==
    /\ req[r].phase = "finalizing"
    /\ Degrade
    /\ late' = late \cup {<<r, Command(r)>>}
    /\ local' = CountedLocally(r)
    /\ req' = Harmed(r, [req[r] EXCEPT !.phase = "done"])
    /\ UNCHANGED redis

\* finish_admissions is cancelled: what was counted is taken back, unless the
\* compensation is cancelled as well.
FinalizeCancelled(r) ==
    /\ req[r].phase = "finalizing"
    /\ late' = late \cup {<<r, Command(r)>>}
    /\ req' = [req EXCEPT ![r].phase = IF req[r].undo THEN "done" ELSE "granted",
                          ![r].undo = TRUE, ![r].count = FALSE]
    /\ UNCHANGED <<local, redis, mode, clean>>

\* abandon_delivery: a successful answer came too late to be sent.
AbandonDelivery(r) ==
    /\ req[r].phase = "done" /\ req[r].count /\ ~req[r].undo
    /\ req' = [req EXCEPT ![r].phase = "granted", ![r].undo = TRUE, ![r].count = FALSE]
    /\ UNCHANGED <<local, redis, late, mode, clean>>

\* The slot is used again: identifiers are new for every request.
Reuse(r) ==
    /\ req[r].phase = "done"
    /\ \A b \in Buckets : r \notin Members(redis[b]) \cup Members(local[b])
    /\ \A c \in late : c[1] # r
    /\ req' = [req EXCEPT ![r] = Idle]
    /\ UNCHANGED <<local, redis, late, mode, clean>>

-----------------------------------------------------------------------------
(* Clock *)

ProbeDue ==
    /\ mode.degraded /\ ~mode.due
    /\ mode' = [mode EXCEPT !.due = TRUE]
    /\ UNCHANGED <<req, local, redis, late, clean>>

\* The lease of a reservation runs out.  Requests end before theirs: only what a
\* finished request left behind lapses.
LeaseEnds(r, b) ==
    /\ req[r].phase = "done"
    /\ r \in redis[b].reservations
    /\ redis' = [redis EXCEPT ![b].reservations = @ \ {r}]
    /\ UNCHANGED <<req, local, late, mode, clean>>

\* A window ends, in Redis or in memory: their clocks are not the same.
WindowEnds(b) ==
    \/ /\ redis[b].failures # {}
       /\ redis' = [redis EXCEPT ![b].failures = {}]
       /\ UNCHANGED <<req, local, late, mode, clean>>
    \/ /\ local[b].failures # {}
       /\ local' = [local EXCEPT ![b].failures = {}]
       /\ UNCHANGED <<req, redis, late, mode, clean>>

\* Redis gives up on a command it never received.
CommandLost(c) ==
    /\ c \in late
    /\ late' = late \ {c}
    /\ UNCHANGED <<req, local, redis, mode, clean>>

-----------------------------------------------------------------------------
LimiterInit ==
    /\ req = [r \in Requests |-> Idle]
    /\ local = [b \in Buckets |-> EmptyBucket]
    /\ redis = [b \in Buckets |-> EmptyBucket]
    /\ late = {}
    /\ mode = [degraded |-> FALSE, probing |-> FALSE, due |-> FALSE, successes |-> 0,
               generation |-> 0]
    /\ clean = 0

RequestStep(r) ==
    \/ Arrive(r) \/ Probe(r)
    \/ ProbeSucceeds(r) \/ ProbeFails(r) \/ ProbeCancelled(r)
    \/ AdmitAnswered(r) \/ AdmitFails(r) \/ AdmitCancelled(r)
    \/ \E count \in BOOLEAN : Finalize(r, count)
    \/ FinalizeAnswered(r) \/ FinalizeFails(r) \/ FinalizeCancelled(r)
    \/ Reuse(r)

RedisStep ==
    \/ \E c \in late : LateCommand(c[1], c[2]) \/ CommandLost(c)
    \/ \E b \in Buckets : WindowEnds(b) \/ \E r \in Requests : LeaseEnds(r, b)

LimiterNext ==
    \/ \E r \in Requests : RequestStep(r) \/ AbandonDelivery(r)
    \/ RedisStep
    \/ ProbeDue

LimiterSpec == LimiterInit /\ [][LimiterNext]_limiterVars

\* Requests keep coming and go on, windows and leases end, unanswered commands
\* run or are lost.
LimiterFairness ==
    /\ \A r \in Requests : WF_limiterVars(RequestStep(r))
    /\ WF_limiterVars(ProbeDue)
    /\ WF_limiterVars(RedisStep)

FairLimiterSpec == LimiterSpec /\ LimiterFairness

-----------------------------------------------------------------------------
(* Properties *)

\* Every variable keeps its type.
LimiterTypeOK ==
    /\ req \in [Requests -> Request]
    /\ local \in [Buckets -> Bucket] /\ redis \in [Buckets -> Bucket]
    /\ late \subseteq Requests \X {"admit", "count", "release", "discard"}
    /\ mode \in [degraded: BOOLEAN, probing: BOOLEAN, due: BOOLEAN,
                 successes: 0 .. StableProbes, generation: 0 .. MaxGeneration]

\* The limit of a bucket in Redis is never exceeded, by failures and requests in
\* flight together, also by scripts that run after their caller gave up.
RedisLimitHolds == \A b \in Buckets : Size(redis[b]) <= Maximum[b]

\* Neither is the limit of a bucket in memory, across guarded admissions, degraded
\* ones and conservative finalizations.
LocalLimitHolds == \A b \in Buckets : Size(local[b]) <= LocalMaximum[b]

\* Memory holds no more than auth_local_max_entries buckets.
MemoryBounded == Cardinality(Entries(local)) <= MaxEntries

\* A request that is over, on whatever path, reserves nothing in memory.
NoReservationLeaks ==
    \A r \in Requests, b \in Buckets :
        r \in local[b].reservations => req[r].phase \in {"admitting", "granted"}

\* The limits hold wherever they are kept, whatever was cancelled, late or lost.
LimitsHold ==
    /\ LimiterTypeOK
    /\ RedisLimitHolds
    /\ LocalLimitHolds
    /\ MemoryBounded
    /\ NoReservationLeaks

\* A failure that Redis may not have counted is counted in memory, in every bucket
\* of the request that memory had room for (finalize, Track conservatively).
FailureNotForgotten ==
    [][\A r \in Requests :
          /\ req[r].phase = "finalizing" /\ req[r].count
          /\ req'[r].phase = "done" /\ req'[r].count
          => \/ LocalRefuses(r, FALSE, local)
             \/ \A b \in BucketsOf[r] :
                  \/ r \in local'[b].failures \cup redis'[b].failures
                  \/ redis' # redis /\ r \notin redis[b].reservations]_limiterVars

\* Degraded mode ends only after StableProbes probes in a row during which nothing
\* failed, neither the probe nor anything beside it (_mode, generation).
HealthyIsEarned ==
    [][mode.degraded /\ ~mode'.degraded => clean' >= StableProbes]_limiterVars

\* No failure is lost on the way between the two counts, and none is overlooked when
\* Redis is trusted again.
FailuresCount ==
    /\ FailureNotForgotten
    /\ HealthyIsEarned

\* While requests keep coming, degraded mode ends once Redis stops failing.
RecoversEventually == mode.degraded ~> ~mode.degraded

=============================================================================
