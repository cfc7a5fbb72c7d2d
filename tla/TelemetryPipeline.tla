------------------------- MODULE TelemetryPipeline -------------------------
(***************************************************************************)
(* The process-wide resources of the API and who owns them: the optional  *)
(* telemetry pipeline of app/core/telemetry.py, which overlapping          *)
(* lifespans share by reference count and a daemon thread takes down; the  *)
(* Redis adapters the lifespans register in application.state; and the     *)
(* HTTP observations that pin a pipeline for as long as a request runs.    *)
(*                                                                         *)
(* A runtime is the object Telemetry(settings) builds.  It is identified   *)
(* by the order of construction; live[r] is which of its resources         *)
(* (exporters, processors, the reader, the providers) are still running.   *)
(***************************************************************************)
EXTENDS Integers, Sequences, SequencesExt, FiniteSets

CONSTANTS
    Lifespans,   \* entries of the lifespan context manager, each used once
    Requests,    \* HTTP requests, each used any number of times
    Loops,       \* event loops the lifespans run on
    FailsAfter,  \* bound: steps after which a construction may fail
    Unstoppable, \* bound: resources whose shutdown may fail
    BreaksAt,    \* bound: how far a failing observation gets
    None

VARIABLES
    runtime, owners, retiring, retired,   \* TelemetryLifecycle
    thread,                               \* the shutdown thread
    runtimes, live,                       \* how many were built, and their resources
    pc, held, shared, loop, open,         \* one lifespan each
    redisLifespans, redis,                \* application.state
    req, inflight, spans                  \* requests and what they recorded

cycleVars == <<runtime, owners, retiring, retired, thread, runtimes, live>>
spanVars == <<pc, held, shared, loop, open, redisLifespans, redis>>
reqVars == <<req, inflight, spans>>
vars == <<cycleVars, spanVars, reqVars>>

Runtimes == 1 .. Cardinality(Lifespans)

(***************************************************************************)
(* Telemetry.__init__: what each step makes, and which resources a parent  *)
(* adopts by it.  What is made and not yet adopted is in `pending`, unless *)
(* it is a provider.                                                       *)
(***************************************************************************)
Step(makes, parent, adopts) == [makes |-> makes, parent |-> parent, adopts |-> adopts]

Construction == <<
    Step({"traces"}, "traces", {}),
    Step({"traceExporter"}, "traceExporter", {}),
    Step({"traceProcessor"}, "traceProcessor", {"traceExporter"}),
    Step({}, "traces", {"traceProcessor"}),
    Step({"logs"}, "logs", {}),
    Step({"logExporter"}, "logExporter", {}),
    Step({"logProcessor"}, "logProcessor", {"logExporter"}),
    Step({}, "logs", {"logProcessor"}),
    Step({"metricExporter"}, "metricExporter", {}),
    Step({"reader"}, "reader", {"metricExporter"}),
    Step({"metrics"}, "metrics", {"reader"}),
    Step({}, "metrics", {}) >>           \* diagnostics and instruments

Providers == {"traces", "logs", "metrics"}

Made(k) == UNION {Construction[i].makes : i \in 1 .. k}
Adopted(k) == UNION {Construction[i].adopts : i \in 1 .. k}

Resources == Made(Len(Construction))

\* Mutant: the reader is not kept until its provider adopts it.
PendingMutant(k) == (Made(k) \ Adopted(k)) \ (Providers \cup {"reader"})

(* pending after k steps: _own() appends, adoption removes. *)
Pending(k) == (Made(k) \ Adopted(k)) \ Providers

(* Taking a resource down takes down what it adopted. *)
Children(k, rs) ==
    UNION {Construction[i].adopts :
             i \in {j \in 1 .. k : Construction[j].parent \in rs}}
Below(k, r) == LET cs == Children(k, {r}) IN {r} \cup cs \cup Children(k, cs)

(* What shutdown() visits: the resources of pending, then the providers, *)
(* in each the last made first.                                           *)
Visited(k) == Pending(k) \cup (Made(k) \cap Providers)

ShutdownOrder == <<"reader", "metricExporter", "logProcessor", "logExporter",
                   "traceProcessor", "traceExporter", "metrics", "logs", "traces">>

IsNext(r, left) ==
    \E i \in DOMAIN ShutdownOrder :
        ShutdownOrder[i] = r /\ \A j \in 1 .. i - 1 : ShutdownOrder[j] \notin left

-----------------------------------------------------------------------------
Init ==
    /\ runtime = None /\ owners = 0 /\ retiring = None /\ retired = TRUE
    /\ thread = None
    /\ runtimes = 0
    /\ live = [r \in Runtimes |-> {}]
    /\ pc = [l \in Lifespans |-> "new"]
    /\ held = [l \in Lifespans |-> None]
    /\ shared = [l \in Lifespans |-> FALSE]
    /\ loop \in [Lifespans -> Loops]
    /\ open = [l \in Lifespans |-> FALSE]
    /\ redisLifespans = <<>> /\ redis = None
    /\ req = [q \in Requests |-> None]
    /\ inflight = [r \in Runtimes |-> 0]
    /\ spans = [r \in Runtimes |-> 0]

Goto(l, from, to) == pc[l] = from /\ pc' = [pc EXCEPT ![l] = to]

-----------------------------------------------------------------------------
(* TelemetryLifecycle *)

(* _retire: the runtime is fenced first; the thread may not start. *)
Retire(r, k) ==
    /\ retiring' = r
    /\ retired' = FALSE
    /\ thread' \in {None, [steps |-> k, left |-> Visited(k), complete |-> TRUE]}

(* Telemetry(settings) fails after k of its steps, or is complete. *)
Construct(r, k) ==
    /\ runtimes' = r
    /\ live' = [live EXCEPT ![r] = Made(k)]

Fresh == runtimes + 1

(* A pipeline that retires, or whose cleanup failed, is never replaced. *)
Available == retired

Acquire(l) ==
    /\ Goto(l, "new", "acquired")
    /\ open' = [open EXCEPT ![l] = TRUE]          \* await adapter.open()
    /\ \/ /\ ~Available
          /\ UNCHANGED <<cycleVars, held>>
       \/ /\ Available /\ runtime # None
          /\ owners' = owners + 1
          /\ held' = [held EXCEPT ![l] = runtime]
          /\ UNCHANGED <<runtime, retiring, retired, thread, runtimes, live>>
       \/ /\ Available /\ runtime = None
          /\ Construct(Fresh, Len(Construction))
          /\ runtime' = Fresh
          /\ owners' = owners + 1
          /\ held' = [held EXCEPT ![l] = Fresh]
          /\ UNCHANGED <<retiring, retired, thread>>
       \/ /\ Available /\ runtime = None
          /\ \E k \in FailsAfter \ {Len(Construction)} :
                Construct(Fresh, k) /\ Retire(Fresh, k)
          /\ UNCHANGED <<runtime, owners, held>>
    /\ UNCHANGED <<shared, loop, redisLifespans, redis, reqVars>>

\* Mutant: the owners are not counted, any release retires the pipeline.
LastOwnerMutant(l) == TRUE

(* The event release() returns is the lifecycle's own only for the last    *)
(* owner; every other lifespan gets one that is already set.               *)
LastOwner(l) == owners = 1

Release(l) ==
    /\ Goto(l, "unregistered", "waiting")
    /\ held' = [held EXCEPT ![l] = None]
    /\ \/ /\ held[l] = None \/ held[l] # runtime
          /\ UNCHANGED <<cycleVars, shared>>
       \/ /\ held[l] # None /\ held[l] = runtime /\ ~LastOwner(l)
          /\ owners' = owners - 1
          /\ UNCHANGED <<runtime, retiring, retired, thread, runtimes, live, shared>>
       \/ /\ held[l] # None /\ held[l] = runtime /\ LastOwner(l)
          /\ owners' = owners - 1
          /\ runtime' = None
          /\ Retire(runtime, Len(Construction))
          /\ shared' = [shared EXCEPT ![l] = TRUE]
          /\ UNCHANGED <<runtimes, live>>
    /\ UNCHANGED <<loop, open, redisLifespans, redis, reqVars>>

(* shutdown(): one resource of the list; an exception is logged and the    *)
(* next one is still visited.                                              *)
ShutdownResource ==
    /\ thread # None
    /\ \E r \in thread.left :
          /\ IsNext(r, thread.left)
          /\ \/ /\ live' = [live EXCEPT ![retiring] = @ \ Below(thread.steps, r)]
                /\ thread' = [thread EXCEPT !.left = @ \ {r}]
             \/ /\ r \in Unstoppable
                /\ thread' = [thread EXCEPT !.left = @ \ {r}, !.complete = FALSE]
                /\ UNCHANGED live
    /\ UNCHANGED <<runtime, owners, retiring, retired, runtimes, spanVars, reqVars>>

(* stop(): only a complete shutdown lifts the fence. *)
Stopped(complete) == complete

StopEnds ==
    /\ thread # None /\ thread.left = {}
    /\ thread' = None
    /\ IF Stopped(thread.complete)
       THEN retiring' = None /\ retired' = TRUE
       ELSE UNCHANGED <<retiring, retired>>
    /\ UNCHANGED <<runtime, owners, runtimes, live, spanVars, reqVars>>

-----------------------------------------------------------------------------
(* lifespan(): it opens its adapter, without any I/O, and acquires the    *)
(* pipeline before another coroutine can see the adapter.                  *)

Register(l) ==
    /\ Goto(l, "acquired", "running")
    /\ redisLifespans' = Append(redisLifespans, l)
    /\ redis' = l
    /\ UNCHANGED <<cycleVars, held, shared, loop, open, reqVars>>

Active == {q \in Requests : req[q] # None}

(* The server ends its requests before it leaves the lifespan.  close()    *)
(* gives the client up first and then awaits it; a failure is logged.      *)
Close(l) ==
    /\ Goto(l, "running", "closing")
    /\ \A q \in Active : req[q].in # l
    /\ open' = [open EXCEPT ![l] = FALSE]
    /\ UNCHANGED <<cycleVars, held, shared, loop, redisLifespans, redis, reqVars>>

Newest(ls) == IF ls = <<>> THEN None ELSE Last(ls)

\* Mutant: the adapter that was current stays current.
UnregisterMutant(l) ==
    /\ Goto(l, "closing", "unregistered")
    /\ \E i \in DOMAIN redisLifespans :
          redisLifespans[i] = l /\ redisLifespans' = RemoveAt(redisLifespans, i)
    /\ redis' = IF redisLifespans' = <<>> THEN None ELSE redis
    /\ UNCHANGED <<cycleVars, held, shared, loop, open, reqVars>>

Unregister(l) ==
    /\ Goto(l, "closing", "unregistered")
    /\ \E i \in DOMAIN redisLifespans :
          redisLifespans[i] = l /\ redisLifespans' = RemoveAt(redisLifespans, i)
    /\ redis' = Newest(redisLifespans')
    /\ UNCHANGED <<cycleVars, held, shared, loop, open, reqVars>>

(* retired.wait(monitoring_shutdown_seconds): set, or timed out. *)
Wait(l) ==
    /\ Goto(l, "waiting", "ended")
    /\ shared' = [shared EXCEPT ![l] = FALSE]
    /\ UNCHANGED <<cycleVars, held, loop, open, redisLifespans, redis, reqVars>>

(* auth_redis(): the newest registered adapter that is open on this loop. *)
AuthRedis(on) ==
    LET here == {i \in DOMAIN redisLifespans :
                   open[redisLifespans[i]] /\ loop[redisLifespans[i]] = on}
    IN IF here = {} THEN None ELSE redisLifespans[Max(here)]

-----------------------------------------------------------------------------
(* RequestIdMiddleware and HttpObservation *)

(* The constructor may fail before the span is started, or between the     *)
(* span and the in-flight counter; the request goes on in either case.     *)
Progress == {"nothing", "span", "counted"}

Observe(q, l, p) ==
    /\ pc[l] = "running" /\ req[q] = None
    /\ p \in IF runtime = None THEN {"nothing"} ELSE BreaksAt \cup {"counted"}
    /\ req' = [req EXCEPT ![q] = [in |-> l, runtime |-> runtime, progress |-> p]]
    /\ spans' = IF p = "nothing" THEN spans
                ELSE [spans EXCEPT ![runtime] = @ + 1]
    /\ inflight' = IF p # "counted" THEN inflight
                   ELSE [inflight EXCEPT ![runtime] = @ + 1]
    /\ UNCHANGED <<cycleVars, spanVars>>

\* Mutant: the counter is taken back from whatever runtime is current.
ObservedByMutant(q) == runtime

(* finish() in the middleware's finally: after a response, an exception or *)
(* a cancellation.  The stack ends the span whatever failed before.        *)
ObservedBy(q) == req[q].runtime

Finish(q) ==
    /\ req[q] # None
    /\ req' = [req EXCEPT ![q] = None]
    /\ inflight' = IF req[q].progress # "counted" \/ ObservedBy(q) = None THEN inflight
                   ELSE [inflight EXCEPT ![ObservedBy(q)] = @ - 1]
    /\ spans' = IF req[q].progress = "nothing" THEN spans
                ELSE [spans EXCEPT ![req[q].runtime] = @ - 1]
    /\ UNCHANGED <<cycleVars, spanVars>>

-----------------------------------------------------------------------------
(* Nothing is left to run but the waits, which end the process. *)
Done ==
    /\ \A l \in Lifespans : pc[l] \in {"waiting", "ended"}
    /\ thread = None
    /\ UNCHANGED vars

LifespanStep(l) ==
    Acquire(l) \/ Register(l) \/ Close(l) \/ Unregister(l) \/ Release(l) \/ Wait(l)

Next ==
    \/ \E l \in Lifespans : LifespanStep(l)
    \/ ShutdownResource
    \/ StopEnds
    \/ \E q \in Requests, l \in Lifespans, p \in Progress : Observe(q, l, p)
    \/ \E q \in Requests : Finish(q)
    \/ Done

Spec == Init /\ [][Next]_vars

-----------------------------------------------------------------------------
(* Values of the variables. *)
TelemetryTypeOK ==
    /\ runtime \in Runtimes \cup {None} /\ retiring \in Runtimes \cup {None}
    /\ owners = Cardinality({l \in Lifespans : held[l] # None})
    /\ retired \in BOOLEAN /\ (retired <=> retiring = None)
    /\ thread # None => ~retired
    /\ runtimes \in 0 .. Cardinality(Lifespans)
    /\ live \in [Runtimes -> SUBSET Resources]
    /\ redis \in Lifespans \cup {None}

(* "Preventing accumulating exporter threads" (app/core/telemetry.py):     *)
(* whatever fails in a constructor, in the start of the shutdown thread or *)
(* in a cleanup, the running resources all belong to one runtime, which    *)
(* the lifecycle still refers to: nothing runs that nobody will stop.      *)
OnePipeline ==
    /\ Cardinality({r \in Runtimes : live[r] # {}}) <= 1
    /\ \A r \in Runtimes : live[r] # {} => r \in {runtime, retiring}

(* No lifespan loses the pipeline it acquired to another one's shutdown:   *)
(* until it releases it, all its resources run and it is the one requests  *)
(* are observed by.                                                        *)
OwnersKeepPipeline ==
    \A l \in Lifespans : held[l] # None =>
        held[l] = runtime /\ live[held[l]] = Resources

(* The in-flight counter and the open spans of every runtime are those of  *)
(* the requests that started under it, also when the pipeline was replaced *)
(* or retired while they ran.                                              *)
ObservationsBalance ==
    \A r \in Runtimes :
        /\ inflight[r] = Cardinality({q \in Active :
                            req[q].runtime = r /\ req[q].progress = "counted"})
        /\ spans[r] = Cardinality({q \in Active :
                            req[q].runtime = r /\ req[q].progress # "nothing"})

(* Lifespans that overlap and close in any order never leave a running     *)
(* one without Redis: its loop finds an open adapter of that loop, and     *)
(* between two closings application.state.redis is an open adapter.        *)
RedisServed ==
    /\ \A l \in Lifespans : pc[l] = "running" =>
          LET a == AuthRedis(loop[l]) IN a # None /\ open[a] /\ loop[a] = loop[l]
    /\ (\E l \in Lifespans : pc[l] = "running") /\ (\A l \in Lifespans : pc[l] # "closing")
          => redis # None /\ open[redis]

=============================================================================
