----------------------------- MODULE ApiProcess -----------------------------
(***************************************************************************)
(* One API process: the connection pool and the readiness check            *)
(* (DatabasePool) under the lifespans, the telemetry pipeline and the      *)
(* observed requests (TelemetryPipeline).  Every user of the pool is a     *)
(* request that the middleware observes, a request ends only when it is    *)
(* done with the pool, and what the pool measures is recorded by whichever *)
(* pipeline is current at that moment (app/core/diagnostics.py, record).   *)
(***************************************************************************)
EXTENDS DatabasePool

CONSTANTS Lifespans, Loops, FailsAfter, Unstoppable, BreaksAt    \* of TelemetryPipeline

VARIABLES
    runtime, owners, retiring, retired, thread, runtimes, live,
    place,                                \* where each lifespan is
    held, shared, loop, open, redisLifespans, redis,
    req, inflight, spans,
    gauge                                 \* pool.acquiring of the current runtime

T == INSTANCE TelemetryPipeline WITH Requests <- Tasks, pc <- place

\* Finitely many tasks and entries of the lifespan; a construction fails after some of
\* its steps; None is neither a lifespan, a runtime nor an observation.
ASSUME ProcessAssumption ==
    /\ IsFiniteSet(Tasks) /\ IsFiniteSet(Lifespans)
    /\ FailsAfter \subseteq {0} \cup DOMAIN T!Construction
    /\ None \notin Lifespans \cup T!Runtimes
    /\ None \notin [in : Lifespans, runtime : T!Runtimes \cup {None}, progress : T!Progress]

telemetry == <<runtime, owners, retiring, retired, thread, runtimes, live, place, held,
               shared, loop, open, redisLifespans, redis, req, inflight, spans>>
apiVars == <<vars, telemetry, gauge>>

ApiInit ==
    /\ Init
    /\ T!Init
    /\ gauge = 0

-----------------------------------------------------------------------------
(* diagnostics.record *)

\* Mutant: what ends without a result is not taken back.
RecordMutant(n) == gauge' = IF runtime = None \/ n < 0 THEN gauge ELSE gauge + n

\* An observation is recorded by the current runtime; without one it is dropped.
Record(n) == gauge' = IF runtime = None THEN gauge ELSE gauge + n

Pool == Record(acquiring' - acquiring) /\ UNCHANGED telemetry

-----------------------------------------------------------------------------
(* The handlers, inside the middleware *)

RequestStep(b) ==
    /\ pc[b] = "idle" => req[b] # None
    /\ BorrowerStep(b)
    /\ Pool

ReadyStep(p) ==
    /\ \/ req[p] # None /\ Check(p)
       \/ ProbeStep(p) \/ Timeout(p) \/ Answer(p) \/ Again(p)
    /\ Pool

\* The handler of t has returned or not yet begun.
Handled(t) == IF t \in Probes THEN caller[t] \in {"idle", "answered"} ELSE pc[t] = "idle"

Arrives(t) ==
    /\ Handled(t)
    /\ \E l \in Lifespans, progress \in T!Progress : T!Observe(t, l, progress)
    /\ UNCHANGED <<vars, gauge>>

Leaves(t) ==
    /\ Handled(t)
    /\ T!Finish(t)
    /\ UNCHANGED <<vars, gauge>>

-----------------------------------------------------------------------------
PipelineStep ==
    /\ \/ \E l \in Lifespans : T!LifespanStep(l)
       \/ T!ShutdownResource
       \/ T!StopEnds
    /\ gauge' = IF runtime' = runtime THEN gauge ELSE 0
    /\ UNCHANGED vars

DatabaseStep == Suspend /\ Pool

ApiNext ==
    \/ PipelineStep
    \/ DatabaseStep
    \/ \E b \in Borrowers : RequestStep(b)
    \/ \E p \in Probes : ReadyStep(p)
    \/ \E t \in Tasks : Arrives(t) \/ Leaves(t)

ApiSpec == ApiInit /\ [][ApiNext]_apiVars

\* The event loop runs what can run and the deadline passes.  Nothing is assumed of
\* the database, of the requests, of the lifespans or of the pool: only a cancelled
\* checkout ends without an answer.
ApiFairSpec ==
    /\ ApiSpec
    /\ \A p \in Probes :
          /\ WF_apiVars((Timeout(p) \/ Answer(p)) /\ Pool)
          /\ WF_apiVars(p \in cancelled /\ LeaseRefused(p) /\ Pool)
          /\ WF_apiVars((Interrupt(p) \/ Close(p) \/ Resume(p)) /\ Pool)

-----------------------------------------------------------------------------
(* Properties *)

\* A pipeline never reports more acquisitions in progress than there are, whichever
\* pipelines came and went while they waited.
GaugeNeverAbove ==
    runtime # None => gauge <= Cardinality({t \in Tasks : pc[t] = "asking"})

\* "Acquisitions in progress" (monitoring/database-redis.md).
GaugeExact ==
    runtime # None => gauge = Cardinality({t \in Tasks : pc[t] = "asking"})

\* The lifespans of one process share one pipeline, whoever fails, retires or closes:
\* nothing runs that nobody will stop, owners keep what they acquired, observations
\* end where they began, the loops find their Redis and no count runs away.
PipelineShared ==
    /\ PoolTypeOK
    /\ T!TelemetryTypeOK
    /\ T!OnePipeline
    /\ T!OwnersKeepPipeline
    /\ T!ObservationsBalance
    /\ T!RedisServed
    /\ GaugeNeverAbove

=============================================================================
