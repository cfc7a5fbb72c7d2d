--------------------------- MODULE EventTransport ---------------------------
(***************************************************************************)
(* The Redis half of the event pipeline for ONE consumer group: the stream *)
(* and the group's pending list (worker/streams.py), and the three loops   *)
(* of a worker process that use them (worker/runtime.py): the relay, the   *)
(* recovery of a lost stream, and the consumer.  EventDelivery models what *)
(* execution does to a row; here a row only keeps what decides whether its *)
(* reference is published, routed and acknowledged.                        *)
(*                                                                         *)
(* Time is kept as answers, as in EventDelivery.  published_at <= cutoff   *)
(* becomes membership: a cutoff is the set of events published when it was *)
(* taken, and a later publication of an event leaves that set.             *)
(*                                                                         *)
(* Processes.  The loops of one process share nothing, so each is a process *)
(* of its own here and ends on its own; a process that dies is all of its  *)
(* loops ending.                                                           *)
(*                                                                         *)
(* Faults.  Everything that may go wrong, and every duplicate publication, *)
(* is counted in faults, so that MaxFaults bounds them and liveness asks   *)
(* what happens once they stop.                                            *)
(***************************************************************************)
EXTENDS Naturals, FiniteSets, FiniteSetsExt

CONSTANTS
    Subscribed,     \* events with a delivery row for this group
    Foreign,        \* events on the stream that this group does not subscribe to
    Strays,         \* events whose reference execution leaves pending forever
    Relays, Scanners, Consumers,    \* the three loops of the worker processes
    NoWorker,       \* the owner of nothing
    BatchSize,      \* event_worker_recovery_batch_size
    BusyLimit,      \* revisits of a busy reference (20 in the code)
    MaxMessages,    \* bound: stream entries ever added
    MaxFaults       \* bound: faults in a behaviour

ASSUME BatchAssumption == BatchSize \in Nat \ {0} /\ BusyLimit \in Nat
ASSUME TransportBounds == MaxMessages \in Nat /\ MaxFaults \in Nat
ASSUME EventsDistinct ==
    /\ Subscribed \cap (Foreign \cup Strays) = {}
    /\ Foreign \cap Strays = {}
ASSUME NoWorkerDistinct == NoWorker \notin Relays \cup Consumers \cup {"departed"}

VARIABLES
    row,        \* the delivery row of each subscribed event
    entry,      \* the event each stream id was added for
    stream,     \* the ids that Redis holds
    lastId,     \* the last stream id Redis handed out
    group,      \* the consumer group: does it exist, and its last-delivered id
    pel,        \* its pending entries: owner, and idle for pending_idle_ms
    relay,      \* what each relay loop is publishing
    recovery,   \* each recovery loop: its next step, _stream_loss_cutoff
    loop,       \* the local variables of each consumer loop
    faults      \* faults so far

redisStream == <<entry, stream, lastId, group, pel>>
transportVars == <<row, entry, stream, lastId, group, pel, relay, recovery, loop, faults>>

Events == Subscribed \cup Foreign \cup Strays
Ids == 1 .. MaxMessages
NoEvent == "no event"
Departed == "departed"      \* the name of a consumer that ended: names are not reused
NotPending == [owner |-> NoWorker, idle |-> FALSE]

\* One row: processing and done stand for what execution makes of it, claim for
\* claim_token with claim_owner.
Row == [status: {"pending", "processing", "done"}, due: BOOLEAN,
        pub: {"none", "fresh", "stale"}, claim: Relays \cup Consumers \cup {NoWorker}]
NewRow == [status |-> "pending", due |-> TRUE, pub |-> "none", claim |-> NoWorker]

\* The consumer loop: its next step, ids read and not yet routed and where they
\* come from, the cursor of the pending scan, retries (their delay is all the
\* counts decide), and busy_retries with the busy count of the id being routed.
Loop == [phase: {"down", "top", "page", "read", "route", "execute"},
         batch: SUBSET Ids, from: {"retry", "busy", "claimed", "new"},
         cursor: 0 .. MaxMessages, count: 0 .. BusyLimit, retries: SUBSET Ids,
         busy: [Ids -> [count: 0 .. BusyLimit, ready: BOOLEAN]]]
NotBusy == [count |-> 0, ready |-> FALSE]
LoopTop == [phase |-> "top", batch |-> {}, from |-> "new", cursor |-> 0, count |-> 0,
            retries |-> {}, busy |-> [id \in Ids |-> NotBusy]]

\* The recovery loop: its next step, and the events published before the cutoff.
Recovery == [step: {"probe", "reset"}, taken: BOOLEAN, before: SUBSET Subscribed]
RecoveryTop == [step |-> "probe", taken |-> FALSE, before |-> {}]

Fault == faults < MaxFaults /\ faults' = faults + 1
PendingIds == {id \in Ids : pel[id].owner # NoWorker}
Unread == {id \in stream : id > group.last}
First(S, n) == {id \in S : Cardinality({x \in S : x < id}) < n}

\* Some reference to e can still be given to the group.
Reachable(e) ==
    \E id \in stream : entry[id] = e /\ (id > group.last \/ id \in PendingIds)

-----------------------------------------------------------------------------
(* Redis *)

\* XADD with an id of Redis's choosing.
XAdd(e) ==
    /\ lastId < MaxMessages
    /\ lastId' = lastId + 1
    /\ entry' = [entry EXCEPT ![lastId + 1] = e]
    /\ stream' = stream \cup {lastId + 1}
    /\ UNCHANGED <<group, pel>>

\* XACK.
Acknowledged(id) == pel' = [pel EXCEPT ![id] = NotPending]

\* Mutant: an absent group is created at the end of the stream.
EnsureGroupsAtEnd ==
    /\ group' = IF group.exists THEN group ELSE [exists |-> TRUE, last |-> lastId]
    /\ UNCHANGED <<entry, stream, lastId, pel>>

\* ensure_groups: an absent group is created from the start of the stream.  A
\* group that another worker creates first answers BUSYGROUP and is kept.
EnsureGroups ==
    /\ group' = [group EXCEPT !.exists = TRUE]
    /\ UNCHANGED <<entry, stream, lastId, pel>>

\* Redis loses its content: entries, groups and pending lists.
RedisLosesStream ==
    /\ Fault
    /\ stream # {}
    /\ stream' = {}
    /\ group' = [exists |-> FALSE, last |-> 0]
    /\ pel' = [id \in Ids |-> NotPending]
    /\ UNCHANGED <<row, entry, lastId, relay, recovery, loop>>

\* An entry has been pending without a claim for pending_idle_ms.
EntryIdles(id) ==
    /\ id \in PendingIds /\ ~pel[id].idle
    /\ pel' = [pel EXCEPT ![id].idle = TRUE]
    /\ UNCHANGED <<row, entry, stream, lastId, group, relay, recovery, loop, faults>>

\* Another group's relay, or a foreign writer, adds an entry (once, as a bound).
PublishOther(e) ==
    /\ e \notin {entry[id] : id \in Ids}
    /\ XAdd(e)
    /\ UNCHANGED <<row, relay, recovery, loop, faults>>

-----------------------------------------------------------------------------
(* Relay loop *)

Claimable(e) ==
    /\ row[e].status = "pending" /\ row[e].due
    /\ row[e].claim = NoWorker
    /\ row[e].pub # "fresh"

\* claim_due_deliveries: a batch of due rows that no transaction holds, once the
\* last batch is done.
RelayClaim(w) ==
    /\ \A e \in Subscribed : relay[w][e] = "none"
    /\ \E batch \in SUBSET {e \in Subscribed : Claimable(e)} :
         /\ batch # {}
         /\ row' = [e \in Subscribed |->
                      IF e \in batch THEN [row[e] EXCEPT !.claim = w] ELSE row[e]]
         /\ relay' = [relay EXCEPT ![w] =
                        [e \in Subscribed |-> IF e \in batch THEN "claimed" ELSE "none"]]
    /\ UNCHANGED <<redisStream, recovery, loop, faults>>

\* streams.publish.
RelayPublish(w, e) ==
    /\ relay[w][e] = "claimed"
    /\ XAdd(e)
    /\ relay' = [relay EXCEPT ![w][e] = "published"]
    /\ UNCHANGED <<row, recovery, loop, faults>>

\* observe_publication, fenced by the claim.  A publication after a cutoff was
\* taken is not before it.
RelayObserve(w, e) ==
    /\ relay[w][e] = "published"
    /\ relay' = [relay EXCEPT ![w][e] = "none"]
    /\ IF row[e].status = "pending" /\ row[e].claim = w
       THEN /\ row' = [row EXCEPT ![e].pub = "fresh", ![e].claim = NoWorker]
            /\ recovery' = [v \in Scanners |-> [recovery[v] EXCEPT !.before = @ \ {e}]]
       ELSE UNCHANGED <<row, recovery>>
    /\ UNCHANGED <<redisStream, loop, faults>>

\* The publication failed, or its reply or its observation was lost.  The claim
\* is left to its (shortened) lease.
RelayFail(w, e) ==
    /\ Fault
    /\ \/ relay[w][e] = "claimed" /\ UNCHANGED redisStream
       \/ relay[w][e] = "claimed" /\ XAdd(e)
       \/ relay[w][e] = "published" /\ UNCHANGED redisStream
    /\ relay' = [relay EXCEPT ![w][e] = "none"]
    /\ UNCHANGED <<row, recovery, loop>>

\* Work of a claim's owner that its lease still covers.
Working(e) ==
    LET w == row[e].claim IN
    IF row[e].status = "processing"
    THEN loop[w].phase = "execute" /\ entry[Min(loop[w].batch)] = e
    ELSE relay[w][e] # "none"

\* Mutant: only the claims of relays lapse; nothing returns a processing row.
LeaseLapsesPending(e) ==
    /\ row[e].claim # NoWorker /\ row[e].status = "pending"
    /\ IF Working(e) THEN Fault ELSE UNCHANGED faults
    /\ row' = [row EXCEPT ![e].claim = NoWorker]
    /\ UNCHANGED <<redisStream, relay, recovery, loop>>

\* A lease lapses, and recover_expired returns a processing row.  A lease that
\* lapses under a worker still at work is a fault.
LeaseLapses(e) ==
    /\ row[e].claim # NoWorker
    /\ IF Working(e) THEN Fault ELSE UNCHANGED faults
    /\ row' = [row EXCEPT ![e] =
                 IF @.status = "processing" THEN NewRow ELSE [@ EXCEPT !.claim = NoWorker]]
    /\ UNCHANGED <<redisStream, relay, recovery, loop>>

\* republish_after_seconds pass since the publication.  Repeating one whose
\* reference still exists only adds a duplicate; those are counted.
PublicationStalls(e) ==
    /\ row[e].status = "pending" /\ row[e].pub = "fresh"
    /\ IF Reachable(e) THEN Fault ELSE UNCHANGED faults
    /\ row' = [row EXCEPT ![e].pub = "stale"]
    /\ UNCHANGED <<redisStream, relay, recovery, loop>>

\* next_attempt_at is reached.
BackoffElapses(e) ==
    /\ row[e].status = "pending" /\ ~row[e].due
    /\ row' = [row EXCEPT ![e].due = TRUE]
    /\ UNCHANGED <<redisStream, relay, recovery, loop, faults>>

-----------------------------------------------------------------------------
(* Recovery loop *)

\* ensure_groups and length: an empty stream means lost content; a cutoff that
\* was taken is worked off whatever the length is.
RecoveryProbe(w) ==
    /\ recovery[w].step = "probe"
    /\ EnsureGroups
    /\ recovery' = [recovery EXCEPT ![w].step =
          IF recovery[w].taken \/ stream = {} THEN "reset" ELSE "probe"]
    /\ UNCHANGED <<row, relay, loop, faults>>

Resettable(e) ==
    /\ row[e].status = "pending" /\ row[e].due
    /\ row[e].pub # "none"
    /\ row[e].claim = NoWorker

\* The cutoff of this scan: database_time, so everything published up to now,
\* unless an earlier scan left one.
BeforeCutoff(w) ==
    IF recovery[w].taken THEN recovery[w].before
    ELSE {e \in Subscribed : row[e].pub # "none"}

\* A full batch keeps the cutoff for the next scan.
CutoffAfter(w, rows) ==
    IF Cardinality(rows) < BatchSize THEN RecoveryTop
    ELSE [step |-> "probe", taken |-> TRUE, before |-> BeforeCutoff(w)]

\* reset_observations_before: one batch of the rows published before the cutoff.
\* SKIP LOCKED passes over held rows: a holder that commits comes first here, one
\* that rolls back is a fault.
RecoveryReset(w) ==
    /\ recovery[w].step = "reset"
    /\ LET due == {e \in BeforeCutoff(w) : Resettable(e)} IN
       \E held \in SUBSET due :
       \E rows \in kSubset(Min({BatchSize, Cardinality(due \ held)}), due \ held) :
         /\ row' = [e \in Subscribed |->
                      IF e \in rows THEN [row[e] EXCEPT !.pub = "none"] ELSE row[e]]
         /\ recovery' = [recovery EXCEPT ![w] = CutoffAfter(w, rows)]
         /\ IF held = {} THEN UNCHANGED faults ELSE Fault
    /\ UNCHANGED <<redisStream, relay, loop>>

\* Redis or PostgreSQL fails, before the cutoff was taken or after it: the scan
\* starts over, and keeps a cutoff that it has.
RecoveryFail(w) ==
    /\ recovery[w].step # "probe"
    /\ Fault
    /\ \E cutoff \in {RecoveryTop, [step |-> "probe", taken |-> TRUE, before |-> BeforeCutoff(w)]} :
         /\ recovery[w].taken => cutoff.taken
         /\ recovery' = [recovery EXCEPT ![w] = cutoff]
    /\ UNCHANGED <<row, redisStream, relay, loop>>

-----------------------------------------------------------------------------
(* Consumer loop *)

GoTo(w, phase) == loop' = [loop EXCEPT ![w].phase = phase]

\* pending_reference: the entry, while this consumer still owns it.
Owned(w, id) == id \in stream /\ pel[id].owner = w

\* A reference whose retry is due.  While there is one, nothing else is read.
RevisitRetry(w) ==
    /\ loop[w].phase = "top"
    /\ EnsureGroups
    /\ \E id \in loop[w].retries :
         loop' = [loop EXCEPT ![w] =
           IF Owned(w, id)
           THEN [@ EXCEPT !.phase = "route", !.batch = {id}, !.from = "retry"]
           ELSE [@ EXCEPT !.phase = "top", !.retries = loop[w].retries \ {id}]]
    /\ UNCHANGED <<row, relay, recovery, faults>>

\* At most one busy reference whose delay has passed, then the ordinary pass.  One
\* that cannot be looked up becomes a retry.
RevisitBusy(w) ==
    /\ loop[w].phase = "top"
    /\ EnsureGroups
    /\ loop[w].retries = {}
    /\ LET ready == {id \in Ids : loop[w].busy[id].ready} IN
       \/ /\ ready = {}
          /\ GoTo(w, "page")
          /\ UNCHANGED faults
       \/ \E id \in ready :
            /\ loop' = [loop EXCEPT ![w] =
                 IF Owned(w, id)
                 THEN [@ EXCEPT !.phase = "route", !.batch = {id}, !.from = "busy",
                                !.count = loop[w].busy[id].count, !.busy[id] = NotBusy]
                 ELSE [@ EXCEPT !.phase = "page", !.busy[id] = NotBusy]]
            /\ UNCHANGED faults
       \/ \E id \in ready :
            /\ Fault
            /\ loop' = [loop EXCEPT ![w].retries = @ \cup {id}, ![w].busy[id] = NotBusy]
    /\ UNCHANGED <<row, relay, recovery>>

\* The short delay of a busy reference has passed.
BusyReady(w, id) ==
    /\ loop[w].busy[id].count > 0 /\ ~loop[w].busy[id].ready
    /\ loop' = [loop EXCEPT ![w].busy[id].ready = TRUE]
    /\ UNCHANGED <<row, redisStream, relay, recovery, faults>>

\* Mutant: only this consumer's own entries are claimed.
ClaimPendingOwn(w, page) == {id \in page : pel[id].idle /\ pel[id].owner = w}

\* XCLAIM with min_idle_ms, which Redis checks again: also this consumer's own.
ClaimPending(w, page) == {id \in page : pel[id].idle}

\* pending_page and _claim_abandoned: of the next page of the group's entries, of
\* every owner, the idle ones become this consumer's and are routed, unless they
\* wait in busy_retries.  After the last page the scan starts over.
PendingPage(w) ==
    /\ loop[w].phase = "page"
    /\ group.exists
    /\ LET page == First({id \in PendingIds : id > loop[w].cursor}, BatchSize)
           claimed == ClaimPending(w, page)
           routed == {id \in claimed : loop[w].busy[id].count = 0}
       IN /\ pel' = [id \in Ids |->
                       IF id \in claimed THEN [owner |-> w, idle |-> FALSE] ELSE pel[id]]
          /\ loop' = [loop EXCEPT ![w] =
               [@ EXCEPT !.cursor = IF page = {} THEN 0 ELSE Max(page),
                         !.batch = routed,
                         !.from = IF routed = {} THEN "new" ELSE "claimed",
                         !.phase = IF routed = {} THEN "read" ELSE "route"]]
    /\ UNCHANGED <<row, entry, stream, lastId, group, relay, recovery, faults>>

\* read_new: XREADGROUP ">".  The reply may be lost after Redis has made the
\* entries this consumer's.
ReadNew(w) ==
    /\ loop[w].phase = "read"
    /\ group.exists
    /\ LET ids == First(Unread, BatchSize) IN
       /\ group' = IF ids = {} THEN group ELSE [group EXCEPT !.last = Max(ids)]
       /\ pel' = [id \in Ids |->
                    IF id \in ids THEN [owner |-> w, idle |-> FALSE] ELSE pel[id]]
       /\ \/ /\ loop' = [loop EXCEPT ![w] =
                  [@ EXCEPT !.batch = ids, !.phase = IF ids = {} THEN "top" ELSE "route"]]
             /\ UNCHANGED faults
          \/ /\ ids # {}
             /\ Fault
             /\ GoTo(w, "top")
    /\ UNCHANGED <<row, entry, stream, lastId, relay, recovery>>

\* A command fails, or finds its group gone: back to the head of the loop.
ConsumerFail(w) ==
    /\ loop[w].phase \in {"page", "read"}
    /\ IF group.exists THEN Fault ELSE UNCHANGED faults
    /\ loop' = [loop EXCEPT ![w].phase = "top"]
    /\ UNCHANGED <<row, redisStream, relay, recovery>>

-----------------------------------------------------------------------------
(* Routing one reference *)

\* Where the loop goes when its batch is routed: retries come first.
AfterBatch(from, retries) ==
    CASE from \in {"retry", "new"} \/ retries # {} -> "top"
      [] from = "busy" /\ retries = {} -> "page"
      [] from = "claimed" /\ retries = {} -> "read"

\* The loop when id has been routed; failed: an exception put it into retries.
Routed(l, id, failed) ==
    LET rest == l.batch \ {id}
        retries == IF failed THEN l.retries \cup {id}
                   ELSE IF l.from = "retry" THEN l.retries \ {id} ELSE l.retries
    IN [l EXCEPT !.batch = rest, !.retries = retries, !.count = 0,
                 !.from = IF rest = {} THEN "new" ELSE l.from,
                 !.phase = IF rest = {} THEN AfterBatch(l.from, retries) ELSE "route"]

\* busy_retries: bounded in revisits and in size; what does not fit is dropped.
WithBusy(l, id) ==
    IF /\ l.count + 1 <= BusyLimit
       /\ Cardinality({x \in Ids : l.busy[x].count > 0}) < BatchSize
    THEN [l EXCEPT !.busy[id] = [count |-> l.count + 1, ready |-> FALSE]]
    ELSE l

Finished(e) == e \in Foreign \/ (e \in Subscribed /\ row[e].status = "done")

\* Mutant: an unfinished delivery is acknowledged when it is not due.
RouteFinishedOrLate(w) ==
    /\ loop[w].phase = "route"
    /\ LET id == Min(loop[w].batch) IN
       /\ \/ Finished(entry[id])
          \/ entry[id] \in Subscribed /\ ~row[entry[id]].due
       /\ \/ Acknowledged(id) /\ loop' = [loop EXCEPT ![w] = Routed(@, id, FALSE)] /\ UNCHANGED faults
          \/ Fault /\ loop' = [loop EXCEPT ![w] = Routed(@, id, TRUE)] /\ UNCHANGED pel
    /\ UNCHANGED <<row, entry, stream, lastId, group, relay, recovery>>

\* A durable receipt, a durable failure or no subscription: acknowledge.
RouteFinished(w) ==
    /\ loop[w].phase = "route"
    /\ LET id == Min(loop[w].batch) IN
       /\ Finished(entry[id])
       /\ \/ Acknowledged(id) /\ loop' = [loop EXCEPT ![w] = Routed(@, id, FALSE)] /\ UNCHANGED faults
          \/ Fault /\ loop' = [loop EXCEPT ![w] = Routed(@, id, TRUE)] /\ UNCHANGED pel
    /\ UNCHANGED <<row, entry, stream, lastId, group, relay, recovery>>

\* Left pending: a bad reference, not yet due, or claimed by another consumer.
RouteLeft(w) ==
    /\ loop[w].phase = "route"
    /\ LET id == Min(loop[w].batch)
           e == entry[id]
       IN /\ \/ e \in Strays
             \/ e \in Subscribed /\ (row[e].status = "processing" \/ ~row[e].due)
                /\ row[e].status # "done"
          /\ loop' = [loop EXCEPT ![w] = Routed(@, id, FALSE)]
    /\ UNCHANGED <<row, redisStream, relay, recovery, faults>>

\* Another transaction holds the row: delivery_missing_or_busy.  A handler does so
\* while it runs; a claim, an observation or a scan does at any moment.
RouteBusy(w) ==
    /\ loop[w].phase = "route"
    /\ LET id == Min(loop[w].batch)
           e == entry[id]
       IN /\ e \in Subscribed /\ row[e].status # "done"
          /\ IF row[e].status = "processing" THEN UNCHANGED faults ELSE Fault
          /\ loop' = [loop EXCEPT ![w] = Routed(WithBusy(@, id), id, FALSE)]
    /\ UNCHANGED <<row, redisStream, relay, recovery>>

\* PostgreSQL fails before anything is started; an exception of another kind also
\* drops the rest of the batch.
RouteFail(w) ==
    /\ loop[w].phase = "route"
    /\ Fault
    /\ \/ loop' = [loop EXCEPT ![w] = Routed(@, Min(loop[w].batch), TRUE)]
       \/ loop' = [loop EXCEPT ![w].phase = "top", ![w].batch = {}, ![w].from = "new",
                               ![w].count = 0]
    /\ UNCHANGED <<row, redisStream, relay, recovery>>

\* _start claims a due row, also over the claim of a relay.
RouteStart(w) ==
    /\ loop[w].phase = "route"
    /\ LET e == entry[Min(loop[w].batch)] IN
       /\ e \in Subscribed
       /\ row[e].status = "pending" /\ row[e].due
       /\ row' = [row EXCEPT ![e].status = "processing", ![e].claim = w]
    /\ GoTo(w, "execute")
    /\ UNCHANGED <<redisStream, relay, recovery, faults>>

\* The attempt ends.  Success, or a superseded claim, costs nothing; a failed
\* attempt is retried from its row, an outage also from the reference.
RouteExecuted(w) ==
    /\ loop[w].phase = "execute"
    /\ LET id == Min(loop[w].batch)
           e == entry[id]
           owner == row[e].status = "processing" /\ row[e].claim = w
           after(status, due) == [row EXCEPT ![e] =
                      [@ EXCEPT !.status = status, !.due = due, !.claim = NoWorker,
                                !.pub = IF status = "done" THEN row[e].pub ELSE "none"]]
       IN \/ /\ owner
             /\ row' = after("done", TRUE)
             /\ \/ Acknowledged(id) /\ loop' = [loop EXCEPT ![w] = Routed(@, id, FALSE)]
                   /\ UNCHANGED faults
                \/ Fault /\ loop' = [loop EXCEPT ![w] = Routed(@, id, TRUE)]
                   /\ UNCHANGED pel
          \/ /\ ~owner
             /\ loop' = [loop EXCEPT ![w] = Routed(@, id, FALSE)]
             /\ UNCHANGED <<row, pel, faults>>
          \/ /\ owner /\ Fault
             /\ row' = after("pending", FALSE)
             /\ \E outage \in BOOLEAN : loop' = [loop EXCEPT ![w] = Routed(@, id, outage)]
             /\ UNCHANGED pel
    /\ UNCHANGED <<entry, stream, lastId, group, relay, recovery>>

-----------------------------------------------------------------------------
(* Processes *)

\* A loop ends: its process is killed, or stopped and the loop cancelled after
\* the grace.  Its claims and its pending entries stay behind, the latter under a
\* name that no new process takes.
StopConsumer(w) ==
    /\ loop[w].phase # "down"
    /\ Fault
    /\ loop' = [loop EXCEPT ![w] = [LoopTop EXCEPT !.phase = "down"]]
    /\ pel' = [id \in Ids |-> IF pel[id].owner = w THEN [pel[id] EXCEPT !.owner = Departed]
                              ELSE pel[id]]
    /\ UNCHANGED <<row, entry, stream, lastId, group, relay, recovery>>

\* A relay that ends forgets what it was publishing; a new one may start at once.
StopRelay(w) ==
    /\ \E e \in Subscribed : relay[w][e] # "none"
    /\ Fault
    /\ relay' = [relay EXCEPT ![w] = [e \in Subscribed |-> "none"]]
    /\ UNCHANGED <<row, redisStream, recovery, loop>>

\* A scan that ends forgets its cutoff.
StopScanner(w) ==
    /\ recovery[w] # RecoveryTop
    /\ Fault
    /\ recovery' = [recovery EXCEPT ![w] = RecoveryTop]
    /\ UNCHANGED <<row, redisStream, relay, loop>>

\* run: a new process, with empty maps.
StartConsumer(w) ==
    /\ loop[w].phase = "down"
    /\ loop' = [loop EXCEPT ![w] = LoopTop]
    /\ UNCHANGED <<row, redisStream, relay, recovery, faults>>

TransportInit ==
    /\ row = [e \in Subscribed |-> NewRow]
    /\ entry = [id \in Ids |-> NoEvent]
    /\ stream = {}
    /\ lastId = 0
    /\ group = [exists |-> FALSE, last |-> 0]
    /\ pel = [id \in Ids |-> NotPending]
    /\ relay = [w \in Relays |-> [e \in Subscribed |-> "none"]]
    /\ recovery = [w \in Scanners |-> RecoveryTop]
    /\ loop = [w \in Consumers |-> LoopTop]
    /\ faults = 0

RelayStep(w) ==
    \/ RelayClaim(w)
    \/ \E e \in Subscribed : RelayPublish(w, e) \/ RelayObserve(w, e) \/ RelayFail(w, e)

RecoveryStep(w) ==
    RecoveryProbe(w) \/ RecoveryReset(w) \/ RecoveryFail(w)

ConsumerStep(w) ==
    \/ RevisitRetry(w) \/ RevisitBusy(w)
    \/ PendingPage(w) \/ ReadNew(w) \/ ConsumerFail(w)
    \/ RouteFinished(w) \/ RouteLeft(w) \/ RouteBusy(w) \/ RouteFail(w)
    \/ RouteStart(w) \/ RouteExecuted(w)

ClockStep ==
    \/ \E e \in Subscribed : LeaseLapses(e) \/ PublicationStalls(e) \/ BackoffElapses(e)
    \/ \E id \in Ids : EntryIdles(id) \/ \E w \in Consumers : BusyReady(w, id)

TransportNext ==
    \/ \E w \in Relays : RelayStep(w) \/ StopRelay(w)
    \/ \E w \in Scanners : RecoveryStep(w) \/ StopScanner(w)
    \/ \E w \in Consumers : ConsumerStep(w) \/ StopConsumer(w) \/ StartConsumer(w)
    \/ ClockStep
    \/ \E e \in Foreign \cup Strays : PublishOther(e)
    \/ RedisLosesStream

TransportSpec == TransportInit /\ [][TransportNext]_transportVars

\* Every loop of a running worker takes its next step, time passes, and a
\* consumer that ended is started again.
TransportFairness ==
    /\ \A w \in Scanners : WF_transportVars(RecoveryStep(w))
    /\ \A w \in Consumers : WF_transportVars(ConsumerStep(w)) /\ WF_transportVars(StartConsumer(w))
    /\ \A w \in Relays : WF_transportVars(RelayStep(w))
    /\ \A e \in Subscribed :
         /\ WF_transportVars(LeaseLapses(e)) /\ WF_transportVars(PublicationStalls(e))
         /\ WF_transportVars(BackoffElapses(e))
    /\ \A id \in Ids :
         WF_transportVars(EntryIdles(id)) /\ \A w \in Consumers : WF_transportVars(BusyReady(w, id))

FairTransportSpec == TransportSpec /\ TransportFairness

-----------------------------------------------------------------------------
(* Properties *)

\* Every variable keeps its type.
TransportTypeOK ==
    /\ row \in [Subscribed -> Row]
    /\ entry \in [Ids -> Events \cup {NoEvent}]
    /\ stream \subseteq 1 .. lastId
    /\ lastId \in 0 .. MaxMessages
    /\ group \in [exists: BOOLEAN, last: 0 .. MaxMessages]
    /\ pel \in [Ids -> [owner: Consumers \cup {NoWorker, Departed}, idle: BOOLEAN]]
    /\ relay \in [Relays -> [Subscribed -> {"none", "claimed", "published"}]]
    /\ recovery \in [Scanners -> Recovery]
    /\ loop \in [Consumers -> Loop]
    /\ faults \in 0 .. MaxFaults

\* A reference that the group was given and that is no longer pending has been
\* acknowledged for good: its delivery is finished, or is none of this group's
\* (_route_message acknowledges only durable results; groups start at 0-0).
AcknowledgedIsFinished ==
    \A id \in stream : id <= group.last /\ id \notin PendingIds => Finished(entry[id])

\* No reference is lost to the group: whatever it dropped is durably done with.
ReferencesKept ==
    /\ TransportTypeOK
    /\ AcknowledgedIsFinished

\* Every delivery is finished in the end, whatever was lost, as long as faults
\* are finite: what Redis forgets is published again.
EveryDeliveryFinishes == \A e \in Subscribed : <>(row[e].status = "done")

\* The pending list does not leak: references that were read, dropped from
\* busy_retries, or left behind by a dead consumer are acknowledged in the end, so
\* the list is empty again and again but for entries nobody can parse.
PendingDrains == []<>(\A id \in PendingIds : entry[id] \in Strays)

=============================================================================
