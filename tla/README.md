# RestaurantOS: TLA+ models, checks and proofs

RestaurantOS is a FastAPI back end on PostgreSQL with a separate event worker,
Redis, and a Next.js front end. Commands change a restaurant's rows and, in the
same transaction, write events to an outbox; a worker publishes references to
those events on a Redis stream, and consumer loops apply each event once per
consumer group. Redis is a transport, a cache and a rate limiter. Everything
that must be right is in PostgreSQL.

This directory models the parts of that program where correctness depends on the
order of steps: which rows a transaction reads and writes, under which lock, and
what happens when a process dies, a reply is lost, a lease lapses, a task is
cancelled, or a client tries again.

## 1. Inventory of the system

Paths are relative to `src/backend/app/modules/` unless they say otherwise.
`PROJECT.json` lists the same parts with their status.

| Component | State | Operations | What must hold |
|---|---|---|---|
| Deliveries (`events/execution.py`, `events/repo/`, `events/operator.py`) | `event_deliveries`, `event_delivery_attempts`, `event_receipts`; in memory: running claims, `_unsettled`, the relay's claims | append, claim, observe, defer, reset, start, effect, settle failure, recover, replay | one effect per event and consumer; attempts and claims agree; allowance charged truly; terminal statuses final; nothing stays claimed |
| Worker and transport (`events/worker/`, `app/worker.py`) | Redis stream, pending list, retry maps, stream-loss cutoff | XADD, XREADGROUP, XCLAIM, XACK, recreate groups, reset observations | a reference is acknowledged only when the row is final; a lost stream is published again; the pending list empties |
| Outbox producer (`events/service.py`, `events/domain/`) | `outbox_events` | append in the caller's transaction | event and deliveries commit with the command |
| Maintenance (`events/maintenance.py`) | initialization marker | initialize, rebuild | once per restaurant, no event invented |
| Inventory (`inventory/`) | ingredient, balance, movements, low-stock episodes, revisions | create, update, archive, receipt, waste, count | movements explain the balance; keys applied once; one open episode exactly while stock is low; events tell the state |
| Orders (`orders/`) | order, lines, submission keys, revision | create, update, accept, delete | stock taken once, all or nothing; statuses move forward; events ordered by revision |
| Recipes (`recipes/`) | recipe components, tracking mode | replace | only active ingredients of the restaurant |
| Catalog (`catalog/service.py`) | menus, menu items | create, update, delete or deactivate | what was ordered is never deleted |
| Menu cache (`catalog/menu_cache.py`, `app/redis/`) | cached lists, circuit breaker | look up, store, invalidate, probe | staleness bounded by the source's age; one probe at a time |
| Alerts (`alerts/`) | projected episodes and ingredient states | handle event, rebuild | follows the ledger; never goes back to an older revision |
| Notifications (`notifications/`) | stubs, diagnostics | handle event | one outcome per episode |
| Analytics (`analytics/`) | contributions, daily sales | handle event, rebuild, compare | totals = completed orders; deletion is terminal |
| Sessions (`auth/service.py`, `auth/cli.py`; browser: `src/frontend/lib/api/client.ts`) | families, refresh tokens; cookies, Web Lock | register, log in, refresh, log out, disable, clean up | a family is one chain; a replayed token ends it; disabling ends all |
| Auth limiter (`auth/rate_limit.py`) | local and Redis buckets, degraded mode | admit, finalize, probe | limits hold in both places; no failure is forgotten; degraded mode ends |
| Tenancy (`tenancy/`), restaurants (`restaurants/`), audit (`audit/`) | organizations, memberships, assignments, restaurants, audit entries | invite, update, revoke, assign; create, update, delete; record | an organization keeps an owner; what a command decided on still holds at its commit; tenants stay apart |
| Database pool and readiness (`src/backend/app/db/`) | connections, transaction sentinel, gauge | check out, begin, fail, roll back, return; probe with a deadline | a probe's deadline never terminates a borrowed connection; failures counted once |
| HTTP layer and telemetry (`src/backend/app/main.py`, `http/`, `core/`) | telemetry pipeline with reference count, Redis adapters, observations | acquire, release, retire, observe | overlapping lifespans share one pipeline; nothing runs that nobody stops |
| Migrations (`src/backend/alembic/`) | revision, rows | upgrade, downgrade | retained history survives; rows fit the revision |
| Local gateway (`src/scripts/local-gateway.py`, `src/deploy/local/`) | private state directory, lock, containers, schema | init, build, migrate, up, check, restart, down | one operation at a time; writers match the schema |
| Front end (`src/frontend/`) | pages, pending submissions | load, save, retry | an unchanged retry is recorded once; answers do not go back |
| Measurement and verification scripts (`src/scripts/`) | none of the system's | start, measure, exit | not modelled, see section 8 |

**How they interact.** A stock or order command locks its restaurant's row, changes
inventory and order rows, and appends outbox events, all in one transaction. The
worker's relay loop claims due deliveries and publishes references; consumer
loops, one per group, start an attempt in one transaction, run the handler
(alerts, notifications, analytics) in a second, and record a failure in a third.
A recovery loop returns lapsed claims and notices a lost stream. Workers share
nothing but PostgreSQL rows, row locks, and the database clock. Every business
command reads its context (membership, assignment) under shared locks that
administration takes exclusively. The API process shares one connection pool and
one telemetry pipeline among its requests and lifespans; the pool records what it
measures in whichever pipeline is current.

**What is hard.** Between the worker's three transactions it may be slow, die, or
not learn that its commit succeeded; another worker may take the delivery over;
the operator may replay it. Stock checked when an order is made is not the stock
that exists when it is accepted. Low-stock episodes began to exist after
ingredients did. Events reach a projection in any order, next to a rebuild.
Clients repeat commands, also after what they created was deleted. Redis may run
a command after its caller gave up on it. Tasks are cancelled between any two
awaits. The list of such places, by line, is `hazards` in `PROJECT.json`.

## 2. Plan

Done: every component above is modelled and checked as far as section 3 and 4
say, in this order: deliveries, stock and orders, projections, transport,
sessions, limiter, tenancy, cache, database pool, telemetry, gateway, inventory
screen, migrations. Proved: every safety property the runs check (section 6),
except the ones that section 7 names with the reason.

The orders page and the forms of the front end are the parts of the program that
a further module could still take in.

## 3. Modules

| Module | Models | Uses |
|---|---|---|
| `DurableEffect` | what a consumer group is promised: queued, applied once, or rejected; only a rejected event is queued again | |
| `EventDelivery` | the delivery rows of one consumer group and the worker processes | instance of `DurableEffect` |
| `EventDeliveryProofs` | theorems about `EventDelivery` | `EventDelivery` |
| `EventTransport` | the Redis stream of that group and the three loops of a worker | |
| `RedisProofs` | theorems about what the API keeps in Redis and beside it | `EventTransport`, `MenuCache`, `AuthLimiter` |
| `InventoryLedger`, `InventoryLedgerProofs` | one restaurant's stock | |
| `OrderStock` | the same restaurant with orders, recipes and menu items | `InventoryLedger` |
| `AlertProjection`, `AlertProjectionProofs` | alerts and low-stock notifications, fed by the ledger's events | `InventoryLedger` |
| `SalesProjection`, `SalesProjectionProofs` | analytics, fed by the orders' events, and maintenance rebuilds; the theorems about orders are in its proofs | `OrderStock` |
| `AuthLimiter` | the rate limiter of one API process | |
| `AuthSessions` | refresh token families, and the tabs of a browser | |
| `BrowserProofs` | theorems about the tabs of a browser, their sessions and the inventory page | `AuthSessions`, `InventoryScreen` |
| `Tenancy`, `TenancyProofs` | organizations, memberships, restaurants, audit, under row locks | |
| `MenuCache` | menu lists and menu items cached in Redis | |
| `DatabasePool` | connections shared by requests and readiness checks | |
| `TelemetryPipeline` | the telemetry pipeline and Redis adapters of overlapping lifespans | |
| `ApiProcess` | one API process: pool and pipeline together | `DatabasePool`, instance of `TelemetryPipeline` |
| `InventoryScreen` | the inventory page with its alerts | |
| `Migrations` | the chain of Alembic revisions | |
| `LocalGateway` | the helper of the HTTPS rehearsal stack | |
| `OperationsProofs` | theorems about running the system | `ApiProcess`, `LocalGateway`, `Migrations` |

`MC<Module>` with its `.cfg` is the instance TLC checks; the ledger is checked
inside `MCAlertProjection` and `MCSalesProjection`, the orders inside the latter,
the pool and the pipeline inside `MCApiProcess`.

Definitions whose comment begins with "Mutant" are wrong on purpose: each is a
plausible slip in the definition that follows it, and shows that some property
would notice. No specification uses them.

### EventDelivery

`delivery[d]` is the row of `event_deliveries`: status, `attempt_count` (`count`),
`retry_cycle` (`cycle`), claim token, and the *answers* to the comparisons the
code makes with the database clock: `due` for `next_attempt_at <= now`, `expired`
for `claim_expires_at <= now`, and `pub` for `published_at` (none, recent, or
older than `republish_after_seconds`). `LeaseExpires`, `BackoffElapses` and
`PublicationStalls` turn those answers at any moment, so every relative speed of
clock and process is covered. `attempts` and `receipt` are the two other tables;
`effects` counts committed handler effects and is there for the properties.

`lock` is the row lock that an effect transaction holds while the handler runs;
every other transaction is one step. `claims`, `unsettled` and `relay` are the
memory of a worker: the `AttemptClaim` it executes, the dictionary `_unsettled`,
and the `DeliveryClaim`s its relay loop is publishing.

| Action | Code |
|---|---|
| `Append` | `append_event` |
| `ClaimDueDelivery`, `ObservePublication`, `AbandonPublication` | `claim_due_deliveries`, `observe_publication`, a failed XADD or observation with `defer_claim_after_transport_failure` |
| `ResetObservation` | `reset_observations_before` |
| `StartAttempt`, `StartExhausted`, `RejectContract` | the three ways `_start` writes |
| `EffectBegin`, `EffectCommit`, `EffectFail` | `_effect` and `_execute_claim` |
| `FinishFailure` | `_finish_failure`, called directly or by `settle_failures` |
| `RecoverExpired` | `recover_expired` |
| `Replay` | `EventOperator.replay` |
| `Crash` | a process ends; PostgreSQL rolls its transaction back |

Wherever a commit may succeed without the process learning of it, the action has
a disjunct for that: the claim is forgotten (`ClaimDueDelivery`, `StartAttempt`),
the success is taken for an outage (`EffectCommit`), the entry stays in
`_unsettled` (`FinishFailure`).

The transport is the weakest one possible here: a consumer may start any delivery
at any moment. That covers lost, repeated, delayed and reordered references, and
is why the safety results do not depend on Redis.

### EventTransport

The other half of the same pipeline: `stream`, `group` and `pel` are what Redis
holds, `entry` says which event an id was added for, `row` keeps of a delivery
only what decides whether its reference is published and acknowledged. `relay`,
`recovery` and `loop` are the locals of `_relay_loop`, `_recovery_loop` and
`_consumer_loop`. The loops of a process share nothing, so each is a process that
ends on its own; a worker that dies is all of its loops ending.

| Action | Code |
|---|---|
| `RelayClaim`, `RelayPublish`, `RelayObserve`, `RelayFail` | `_relay_loop`, `_publish_claim`, `_publish_observed` |
| `RecoveryProbe`, `RecoveryReset`, `RecoveryFail` | `_recovery_loop`: the probe for content loss, the cutoff, `reset_observations_before` in batches |
| `RevisitRetry`, `RevisitBusy`, `PendingPage`, `ReadNew` | the four sources a consumer takes references from, in the loop's order |
| `RouteFinished`, `RouteLeft`, `RouteBusy`, `RouteStart`, `RouteExecuted`, `RouteFail` | `_route_message` and what `execute` returns |
| `StopRelay`, `StopScanner`, `StopConsumer`, `StartConsumer` | the end of a process and its restart |
| `RedisLosesStream`, `EntryIdles`, `PublishOther` | Redis and the other groups |

`published_at <= cutoff` is membership: a cutoff is the set of events that had
been published when it was taken. Faults are counted, so that liveness asks what
happens once they stop.

### InventoryLedger

An ingredient with its balance is one row; `movements`, `episodes` and `events`
are sequences per ingredient. Every command locks the restaurant's row before it
reads what it decides on, so a command is one step. `RecordTransition` is
`record_inventory_transition`: revision, episode boundary, state event, low-stock
event. The `RuntimeError` it may raise is a guard (`EpisodesConsistent`), and the
episodes' invariant implies that it never bites. `Legacy` ingredients exist in the
initial state, low or not, active or not, with a revision but without an episode;
`Initialize` may come at any later moment.

A replayed idempotency key is either answered with the stored movement or refused
with a conflict; both leave the state alone, so the model has only the guard. The
`expected_version` of a count and of a recipe is an optimistic guard: the step
that is modelled is the one with the current version.

### OrderStock

`order` is the row with its lines (`basket`: portions per menu item), `processed`
for `inventory_processed_at`, and one `detail` for everything else a client may
change (notes, table, payment), so that "some change without a status" exists.
`submission` is the table of submission keys; the foreign key to the order is SET
NULL on delete. `AcceptOrder` is `update` when it moves an order to `ACCEPTED`;
what it takes, `Required`, is the sum over the basket's tracked items of portions
times need, and it uses the ledger's `Consume`, which makes one movement per
ingredient and records the transition of each. `UpdateOrder` is every other
`update`: it may change the status, the lines and the detail in one command, in
the order in which the code does so. `DeleteMenuItem` deletes or deactivates.

### AlertProjection and SalesProjection

Both compose a producer with its consumers. A handler runs in `EventDelivery`'s
effect transaction; from there it inherits "at most once per consumer, in any
order, perhaps never", which is the set `handled` (`applied` for analytics), and
nothing more. Handlers lock the restaurant's row before they read, so each is one
step. An event is its place in the producer's sequence, and the episode it names
is found through the revision of its boundary.

`ApplyStateChanged` and `ApplyLow` are `apply_alert_event`, `ApplyNotification` is
the low-stock branch of `apply_notification_event`, `ApplyOrderEvent` is
`apply_order_event`. `InitializeAlerts` and `InitializeSales` are the maintenance
operation "initialize" with the rebuild of the respective projection;
`MaintenanceRebuild` is "analytics_rebuild". The code asks operators to stop
workers before maintenance; the model does not rely on it and lets events be
handled before and after at will. `SalesProjection` may start with orders
completed before the outbox existed: they have no event, and only the rebuild
knows them.

### AuthSessions

One account: `family` is `auth_sessions`, `token` is `auth_refresh_tokens`, `lock`
the row lock of the user, which every command takes before it reads what it
decides on. `call` are the requests at the server: they go on when their tab is
reloaded or gives up (`Abandon`, `LoseReply`). `cookie`, `webLock` and `tab` are
the browser: `Want`, `Acquire`, `Recheck`, `Send` and `Deliver` are
`renewSession` under the Web Lock. `RefreshVerdict` is the decision of
`refresh_session`: rotate, or end the family because a consumed token came back;
that revocation is committed before the failure is reported (`Commit`).
`DisableUser` and `Cleanup` are the operator's commands. `replayed` is a ghost.

### AuthLimiter

`redis` and `local` hold the counted failures and reservations of each bucket;
`req` is where each request waits. Everything between two awaits is one step, and
so is each Lua script (`Admitted`, `Finalized` for ADMIT and FINALIZE). A command
that failed or was cancelled stays in `late`: Redis may run it at any later
moment, or never. `mode` is `_degraded_at`, `_probing`, `_successes` and
`_generation`; a probe counts only if nothing failed beside it.

### Tenancy

Transactions take row locks one by one; which ones follows from `tx[x].phase`.
Administration locks its organization, then shares its own membership, then locks
the membership it changes (`LockOrganization`, `ReadContext`, `LockMembership`,
`CommitInvite`, `CommitMembership`); a business write shares its own membership
and needs the organization for its inserts (`CreateRestaurant`,
`UpdateRestaurant`, `DeleteRestaurant`). `BreakDeadlock` is PostgreSQL ending one
of a circle. `audit` is the latest entry, `refs` the restaurants some entry refers
to, which a deletion is refused for.

### MenuCache

A key's content in PostgreSQL is a version that every write moves on. A reader
looks up, queries and stores in three steps; a writer commits and deletes keys in
two. `lateFills` are commands whose caller gave up. `openUntil` and `probing` are the
circuit; time is counted in ticks, since the age of the source is part of what is
stored.

### DatabasePool, TelemetryPipeline and ApiProcess

`DatabasePool` is `get_db` and `database_ready` on a pool of `slot`s, with the
events of `instrument_engine` (begin, error, commit, rollback) that keep the
sentinel of a failed transaction in `conn.info`; PostgreSQL may be suspended, and
then answers nothing. `TelemetryPipeline` is `TelemetryLifecycle` with its shutdown
thread, the lifespans that acquire and release it, the Redis adapters they
register, and `HttpObservation`. `ApiProcess` runs both: every user of the pool is
an observed request, and `Record` counts what the pool measures in the pipeline
that is current at that moment.

### InventoryScreen, Migrations and LocalGateway

`InventoryScreen` is `InventoryManagerContent` with `useInventoryAlerts`: loads
with their generations, forms with the key kept for a payload, the history panel
and the alert views. The server is a version, the recorded movements, and whether
the user still has access. A command goes through phases, one per await of the
code: `sent`, `refetch` (a stock form whose row has its movements open reads them
again before anything else), `reload` (the load that `run` ends with), or `history`.
`Applied` is what the action of `run` does before `run` looks at `accessLost`: a
recount sets its rows and the selected one even then. `near` and `wide` are ghosts:
which submissions repeat one decision unchanged, and which do so with other actions
in between; `saved` is the version of the last save the table was loaded again for.

`Migrations` runs `upgrade` and `downgrade` to the revisions in `Stops`. A command
is one transaction that crosses one revision per step (`UpStep`, `DownStep`) and
commits or is aborted. `UpRows` and `DownRows` say what each revision does to the
rows later ones depend on, `DownAllowed` which downgrades refuse. Between commands
the application of the current revision writes (external, from the schema).

`LocalGateway` works off the list of steps of each command (`Script`); every step
may fail and the process may be killed between two. Files, lock, containers,
schema and running migrations outlive it.

### Assumptions about the surroundings

- *Migrations*: the application is stopped while a command runs, as the runbook
  asks; what older versions of the program wrote is external.
- *LocalGateway*: the working tree only moves forward, so later builds have later
  heads; the `docker compose` client dies with its script, what it started does
  not; `down` ends running migrations; an operator removes a lock only after
  looking for the process and its containers. Each `compose up` is one step: one that
  is cut off in the middle leaves some of the containers on an image that the schema
  check has already accepted, as the step itself does.
- *DatabasePool*: SQLAlchemy and asyncpg are external. Closing a session is
  shielded; a return to the pool and the mark on the record are one step; events
  run before the driver's commit or rollback; a rollback that fails itself is
  recorded once more.
- *EventTransport*: an entry of the stream stays until Redis loses its whole
  content (the worker never trims it); an operator's replay that reopens a failed row
  is left to `EventDelivery`, which has it.
- *AuthLimiter*: Redis keeps its buckets until their windows end.

## 4. Runs

| Run | Instance | Distinct states | Question |
|---|---|---|---|
| `delivery` | 2 deliveries (one does not deserialize), 2 workers, allowance 2, 3 tokens, 1 replay | 74 759 | one effect, true history and allowance, the refinement, nothing stays claimed, under crashes, lost replies and takeovers |
| `transport` | 1 delivery of the group and 1 of another, 1 relay, 1 scanner, 1 consumer, 4 stream ids, batches of 1, 1 fault | 217 566 | is anything acknowledged too early, or forgotten for ever? |
| `alerts` | 1 legacy ingredient, 2 keys, quantities and thresholds 0..1, 4 revisions, both consumers | 550 767 | the ledger alone, and events in any order next to an initialization |
| `sales` | 1 new order and 1 that may be a legacy one, of different dates, over 2 legacy ingredients, 1 menu item | 298 875 | acceptance, keys, deletion; late events and rebuilds |
| `limiter` | 2 requests for 2 accounts from one address, limits of 1, 2 entries in memory, 3 probes | 132 377 | limits and evidence while Redis fails, is late or is cancelled |
| `sessions` | 2 tabs, 2 calls, 2 families, 5 tokens, 1 fault | 1 316 893 | renewals, replays, sign-outs and the operator |
| `tenancy` | 2 users, 2 organizations, 2 restaurants, 2 transactions, 3 commands | 2 110 368 | administration and business writes in every interleaving |
| `cache` | 1 menu of 1 item, 2 readers, 1 writer, age limit 2, 1 failed command besides those of probes | 3 961 460 | fills that race writes, late commands, cancelled probes |
| `screen` | 2 rows, 1 payload, 2 pages, the view of past alerts, 2 loads at a time, 2 keys, 1 fault | 2 535 775 | late and lost answers on one page |
| `migrations` | 10 stops of 18, 4 commands, 6 writes | 1 134 222 | what downgrades keep and upgrades make of old rows |
| `gateway` | 2 processes, 7 runs, 3 builds (the last with a new schema), 1 kill, 1 crash | 3 168 752 | overlapping and killed commands |
| `api` | 1 connection, 1 request, 1 readiness check, 2 lifespans, no observation that fails half way | 408 102 | pool, pipeline and what one records in the other |

**Why the bounds are enough.** Two deliveries show what one loop does about two,
and one of them every race for a row; two workers give an owner and a usurper.
Three tokens use up an allowance of two and let another start follow a replay. In the
transport run one fault is a lost stream, a lost reply, an ended loop or a
duplicate publication at any step; a batch of one makes every loop over a page go
round. Quantities 0 and 1 with thresholds 0 and 1 give low, not low, equal to the
threshold, empty and full; `MAX_QUANTITY` is the upper end, so exceeding it is
reachable. Ingredients are projected independently, so one is enough for `alerts`;
four revisions open, resolve and open an episode again. In `sales` one order
is new and takes the last unit of two ingredients; the other may have been completed
before the outbox existed, so that only an initialization or a rebuild counts it. An
order keeps its lines under these bounds: `OrdersAreAccounted` (section 6) covers
changes of lines, for all bounds.
`MaxOrderRevision = 7` covers the
longest path through `ORDER_TRANSITIONS`, and a portion costs 2, so that counts
and sums differ; two orders of one date add up as one order does. Two requests of
one address share one bucket and have one each; memory has room for two of three. Five tokens are two families of two and one
renewal more; two tabs are enough to overtake each other. Two users, two
organizations and two transactions give every pair of commands, across and within
a tenant; a third command shows what the first two left. A cache entry lives two
ticks, so it may be read old and expire; the failed command that opens the circuit
is counted, the probes that follow may fail or be cancelled without limit. In `api`
no observation fails half way: `BreaksAt` is empty, which the length of the run asks
for; with `BreaksAt = {"span"}` TLC finds 598 062 states and no error either. In `screen` the active alerts are not in
the instance: the view of past alerts goes through the same code and can also be
opened and closed. The stops of `migrations` lie on either side of every guard and
conversion; two commands can go down and up again, twice. Seven runs set the
gateway up, build, migrate, start, build anew and leave two commands to collide.
All bounds are constants that appear in guards; the theorems of section 6 hold
for every value of them.

**Symmetry** is used for idempotency keys (`alerts`), for new orders, order keys,
dates and ingredients (`sales`, where all ingredients are legacy), for tabs and
calls (`sessions`), users and transactions (`tenancy`), readers (`cache`), rows
and payloads (`screen`). The runs that check liveness use none.

**Deadlock** is checked in `alerts` and `sales`: an initialized restaurant always
accepts some command. The other systems may come to rest: a pipeline in which
every event was applied, requests that were all answered, commands that were all
given.

**Fairness.** In `delivery`: of `LeaseExpires`, since time passes; of
`RecoverExpired`, since the relay loop of any running worker calls
`recover_expired` on every round, catches every exception, and waits a bounded
time (`worker/runtime.py`); of the end of a handler's transaction, since a handler
is a finite sequence of statements that waits only for locks of other finite
transactions, and a lost connection ends it. None is assumed for starting work,
publishing, settling failures, the operator, or Redis: those may stop forever and
`ClaimsAreTemporary` still holds. In `transport`: of every loop's next step, of
time, and of the restart of a consumer that ended (by compose, `deploy/local/compose.yaml:3`, or by the operator);
faults are finite. In `limiter`: requests keep arriving and go on, and a command
of Redis ends; without traffic nothing probes and degraded mode stays, as the code
has it. In `api`: the event loop runs what can run and the deadline passes;
nothing is assumed of the database, the requests, the lifespans or the pool.

**Where documents and code differ.** Seven sentences of the repository are wider
than the code. Each is a formula of its module, in no run, since it does not
hold; adding it to the module's `.cfg` gives the behaviour.

- `ObservedOutageNotCharged` (`EventDelivery`; `docs/api/events.md:159`, "observed
  shared outages retain diagnostic history without consuming allowance"). A worker
  observes an outage, files it in `_unsettled`, and cannot reach PostgreSQL until
  its lease has lapsed; another worker recovers the claim and marks the attempt
  `worker_interrupted`, which is charged (`events/execution.py:498`); the later
  settlement finds the claim superseded and records nothing. Charging the claim of
  a worker that may be dead is deliberate, and the allowance bounds the effect.
- `NoAutomaticReplay` (`AuthSessions`; `client.ts:67`, "never let another request
  automatically replay that token"). A renewal's reply is lost and its tab is
  reloaded, or another tab renews: the memory of the failed refresh was the first
  page's own, so the consumed token is presented again and the family ends.
- `LastActiveOwnerStays` (`Tenancy`; `docs/api/tenancy.md:59`, "cannot remove or
  demote the last active Owner"). `tenancy/service.py:138` counts owner
  memberships, whatever the status of their accounts: with a second owner whose
  account is disabled, the only one who can sign in may be demoted.
- `FailedProbeCools` (`MenuCache`; `docs/api/catalog-cache.md:55`, "a failed probe
  starts another cooldown"). A probe that Redis answers with an error, or that is
  cancelled, ends without opening the circuit again (`menu_cache.py:253`), so the
  next read probes at once.
- `RetryRecordsOnce` (`InventoryScreen`; `InventoryManager.tsx:251`, "retrying
  cannot record a second movement"). A save is lost after the server recorded it;
  the user sends something else, which succeeds and clears `pending`
  (`InventoryManager.tsx:242`), then sends the first form again, with a new key.
- `IngredientRevisionsKept` (`Migrations`; `docs/api/events.md:34`, revisions are
  monotonic). The downgrade of `b8f34c2a91de` refuses only while episodes exist
  (line 216): with state events but no episode the state revision is dropped, and
  a later upgrade starts it below revisions that were published.
- `GaugeExact` (`ApiProcess`; `monitoring/database-redis.md:61`, "acquisitions in
  progress"). A request that began to wait while no pipeline was current is taken
  back from the pipeline acquired meanwhile, which then shows one too few, even
  less than none. That it never shows too many is checked (`GaugeNeverAbove`, in
  `PipelineShared`).

## 5. Properties

Each property's comment states it and names the code; a conjunction of related
facts is one property. In short:

- *Deliveries.* `EffectExactlyOnce`, `HandlerOwnsDelivery` (the fence in `_effect`
  and the row lock); `RunningAttemptHoldsClaim`, `HistoryPreserved` (what an
  operator reads is what happened); `FailuresAccounted` (charges, refunds, giving
  up, one unsettled failure per loop); `TerminalStatusFinal`;
  `ImplementsDurableEffect`, the refinement; `ClaimsAreTemporary`.
- *Transport.* `ReferencesKept`, `EveryDeliveryFinishes`, `PendingDrains`.
- *Ledger.* `LedgerExplained` (every movement starts where the last one ended, keys
  apply once, the archived is empty), `EpisodesTellLedger` (episodes mirror low
  stock, each announced once, events tell every revision).
- *Orders.* `OrdersAccounted`, `AcceptanceTakesRecipe`, `OrdersMoveForward`.
- *Projections.* `AlertsFollowLedger`, `AlertsNeverGoBack`; `SalesMatchOrders`.
- *Sessions.* `TokensChain`, `SessionsEndForCause`, `EndedFamilyIsFrozen`.
- *Limiter.* `LimitsHold`, `FailuresCount`, `RecoversEventually`.
- *Tenancy.* `CommandsSerialize`, `AdminsDoNotDeadlock`, `TenantsAreIsolated`.
- *Cache.* `CacheAccounted`, `AnswersAreRecent`.
- *API process.* `BorrowersKeepConnection`, `FailuresCountedOnce`,
  `PipelineShared`, `ReadinessAnswers`.
- *Screen, migrations, gateway.* `PageConsistent`, `LateAnswersStayOut`;
  `HistoryKept`, `RowsFitRevision`; `ReleasesMatch`, `OperationsExclude`.

Each has a mutant in `PROJECT.json`, a change of one modelled definition under
which TLC finds the property violated.

## 6. Proofs

The theorems hold for every value of the constants that satisfies the module's
`ASSUME`s: bounds are naturals, "none" values are none of the real ones, limits
are positive where the code's settings are. `OrderStock` assumes that there are
finitely many menu items and `SalesProjection` finitely many orders, since
requirements and totals are sums; `ApiProcess` that there are finitely many tasks and
lifespans, since they are counted. TLC evaluates every assumption on every run.

| Module | Theorem | States |
|---|---|---|
| `EventDeliveryProofs` | `Invariance` | `Spec => []IInv`, on which the others rest |
| | `TypeCorrectness`, `ExactlyOnce`, `HistoryMatchesClaim`, `RunningHandlerOwnsDelivery` | `TypeOK`, `EffectExactlyOnce`, `RunningAttemptHoldsClaim`, `HandlerOwnsDelivery` |
| | `HistoryIsPreserved`, `TerminalStatusIsFinal` | `HistoryPreserved`, `TerminalStatusFinal` |
| | `FailuresAreAccounted` | `FailuresAccounted` |
| | `Refinement` | `Spec => ImplementsDurableEffect` |
| `InventoryLedgerProofs` | `LedgerInvariant` | `LedgerSpec => []LInv({NoOrder})` |
| | `BalancesExplained`, `EpisodesTold` | `LedgerExplained`, `EpisodesTellLedger` |
| `AlertProjectionProofs` | `AlertsInvariant` | `AlertSpec => []PInv` |
| | `LedgerStaysExplained`, `LedgerStaysTold`, `AlertsAreTrue`, `AlertsGoForward` | `LedgerExplained`, `EpisodesTellLedger`, `AlertsFollowLedger`, `AlertsNeverGoBack` |
| `SalesProjectionProofs` | `OrdersInvariant`, `StockInvariant` | `[]OInv`, with and without analytics |
| | `OrdersAreAccounted`, `AcceptancesTakeRecipes`, `OrdersGoForward` | `OrdersAccounted`, `AcceptanceTakesRecipe`, `OrderMovesForward` |
| | `SalesInvariant` | `SalesSpec => []SInv` |
| | `SalesAreTrue`, `DeletionsStand`, `OrdersNeverGoBack` | `SalesMatchOrders`, `DeletionIsFinal`, `OrdersMoveForward` |
| `BrowserProofs` | `SessionsInvariant` | `Spec => [](SInv /\ BInv)` |
| | `FamiliesAreChains`, `SessionsEnd`, `EndedFamiliesStay` | `TokensChain`, `SessionsEndForCause`, `EndedFamilyIsFrozen` |
| | `ScreenInvariant` | `ScreenSpec => []ScreenInv` |
| | `PageConsistentHolds`, `LateAnswersStayOutHolds` | `PageConsistent`, `LateAnswersStayOut` |
| `TenancyProofs` | `TenancyInvariant` | `Spec => []TInv` |
| | `Serialized`, `AdminsGoOn`, `Isolation` | `CommandsSerialize`, `AdminsDoNotDeadlock`, `TenantsAreIsolated` |
| `OperationsProofs` | `PoolInvariance`, `BorrowersKeep`, `CountedOnce` | of `DatabasePool` alone: `PoolInv`, `BorrowersKeepConnection`, `FailuresCountedOnce` |
| | `ProcessImplementsPool` | `ApiSpec => Spec`: the process is a behaviour of the pool |
| | `ProcessBorrowersKeep`, `ProcessCountedOnce` | the two invariants, of the process |
| | `PipelineSharedHolds` | of `ApiProcess`: `PipelineShared` |
| | `OperationsExcludeHolds`, `ReleasesMatchHolds` | of `LocalGateway`: `OperationsExclude`, `ReleasesMatch` |
| | `HistoryKeptHolds`, `RowsFitRevisionHolds` | of `Migrations`: `HistoryKept`, `RowsFitRevision` |
| `RedisProofs` | `ReferencesKeptHolds` | `ReferencesKept` |
| | `CacheAccountedHolds`, `AnswersAreRecentHolds` | `CacheAccounted`, `AnswersAreRecent` |
| | `LimitsHoldHolds`, `FailuresCountHolds` | `LimitsHold`, `FailuresCount` |

**Deliveries.** None of the properties is inductive alone. `IInv` adds to `TypeOK`,
`EffectExactlyOnce` and `RunningAttemptHoldsClaim`:

- `TokensDrawn`: every token anywhere is at most `lastToken`. Hence a new token
  names no old claim, which is what makes the comparison of tokens a fence.
- `AttemptsDistinct`: a delivery and a token name at most one attempt, so that
  finishing the attempt of a claim touches that attempt only.
- `OneClaimPerLoop`: a consumer loop executes at most one claim.
- `LockHolder`: whoever holds a row lock executes a claim that owns the row. This
  carries ownership across a lapsed lease, from the fence to the commit.
- `ProcessingCharged`: a processing delivery has a count of at least one, so that
  the refund of an outage stays a natural number.
- `FinishedUnclaimed`: a finished or absent row carries no token, so no old claim
  can match it, and a late observation cannot change it.

`Next` is split into its actions, one lemma each, and each lemma takes one step
per conjunct of `IInv` that the action may disturb. The refinement maps `pending`
and `processing` to `queued`, `succeeded` to `applied`, `failed` to `rejected`;
`EffectCommit` is `Apply`, and a second `Apply` is impossible because a lock
holder owns a processing row. `FailuresAreAccounted` counts: `AInv` says that the
history is finite, no attempt is ahead of its delivery's cycle, and
`attempt_count` is the number of charged attempts of the cycle; a step ends the
one running attempt, adds a new one, or does neither.

**Ledger.** `LInv(Os)` is, per ingredient, `RowSound`, `MovementsSound`,
`EpisodesSound` and `EventsSound`: what is recorded at a revision is at most the
row's, and a transition only uses the next one, so nothing new is mistaken for
anything old. `EpisodesSound` names the one exception, an ingredient that was low
before episodes existed (`LegacyLow`), and what initialization makes of it. `Os`
are the orders a movement may name, so that the same invariant, and the same lemma
on `Consume`, serve the ledger alone and the orders above it. `Command` is what the
three commands have in common: rows after, one movement each, one transition.

**Orders.** A requirement is a sum over the basket. The library's folds are defined
by recursion over chosen orders of a set, so `SumsExist` to `SumsAgree` first show,
by induction over subsets, that the sum of naturals over a finite set exists and
depends on the set only. `OInv` adds to `LInv`: `KeysHeld` (a submission key points
to one order, or to none after a deletion), `Charged` (an order takes from an
ingredient at most once, only if it is processed, and no order is processed before
its acceptance or escapes it afterwards, orders older than inventory excepted), `Told` (its events have distinct, growing revisions up to its own,
the deletion highest, and the totals announced are those of its basket) and
`LinesRemain`.

**Alerts.** `PInv` adds to `LInv` that revisions name episodes (`EpisodesApart`,
`EventsName`: no two episodes share a revision, an event of a boundary has its
episode and a resolution its event), so that an event finds its episode whatever was
recorded since; and, per ingredient, what is known. `StateKnown`: the alert row is
not ahead of the ledger, is the ledger's state when it is of its revision, and not
behind any event that was handled. `EpisodesKnown`: a projected episode is the
ledger's, or still open in the projection and over in the ledger, in which case its
resolution was not handled yet. `StubsKnown`: every low event that was handled has
the stub of its episode, and only an episode that is over was skipped. `Moves` says
what a command does to the three sequences of an ingredient, and each part of
`PInv` is shown to survive it; a handler leaves the ledger alone and learns.

**Analytics.** `SInv` adds to `OInv`: the daily rows are the sum of the
contributions (`DailyShifts` moves one summand), `Ended` (which of an order's
events announce its end, and that a deletion's revision is one above the last) and
`Followed` (a contribution is never ahead of its order, counts a completion only
where there was one, and owes nothing to the events that were handled).

**Sessions.** `SInv` follows a call from the verdict it reached under the row lock
to its commit (`VerdictsHold`), and says of every family that its tokens are one
chain (`Chains`), that a replay has ended it (`ReplaysRevoked`) and that a disabled
account has none. `BInv` is the browser's half: whoever holds the Web Lock has the
only call, and while nothing has failed the cookie, or the reply on its way, is
the token the family waits for (`Calm`).

**Screen.** `ScreenInv` says of every request on its way what its answer will be taken
for. `KeysSound`: submissions that are one decision of the user carry one key, also
the ones whose outcome the page never learned, and a key is recorded once; the key
kept for the next retry is theirs. `LoadsSound`: the load that counts is for the page
that is shown and answered no earlier than the last save the table was loaded again
for, because that save started a load of its own; after access was lost none counts. `LiveSound`
and `CommandSound` tie the one POST with a listener, and its answer, to the command
the page waits for. `LateInv` adds the half that `LateAnswersStayOut` needs: what is
shown is no newer than the answer of a load that counts (`RowsSound`), the load that a
command ends with is the newest one of the table (`ReloadSound`), and while a command's
answer is awaited after access was lost nothing is shown (`LostSound`).

What the property does not promise is in the code too. Between "Stock recorded."
(`InventoryManager.tsx:302`) and the load of line 244 `saveStock` may wait for the
movements, and a load that began before the save still counts then: its rows are
no older than those that were shown, but may lack the save until the reload is
answered. A recount sets whatever it read (882), which may be older than what a load
has set meanwhile, and does so also after an alert view found access lost; the
notice of line 389 is all that is rendered then.

**Tenancy.** `TInv` says of every command, phase by phase, what it has read and
which locks keep it true (`CommandOK`: `Named`, `InContext`, `Guarded`), and of
locks that an organization has one administrator and a membership being changed is
shared by nobody. `AnotherOwner` is the counting step: where two owners are counted
and one is removed, one remains.

**API process.** `PoolInv` says where the holder of a connection is, that a probe
remembers the connection it holds, and that the sentinel tells whether the
transaction failed. The composition's steps are the pool's with more conditions, so
the process implements `DatabasePool` and inherits its invariants. `PipelineShared` is
proved from `PoolCounts` (who waits for a connection is who `acquiring` counts),
`GaugeSound` and `PipeInv`, which has four parts besides the values. `CycleSound`: either
the current pipeline is complete and nothing retires, or the thread that takes the last
one down has still to visit whatever is above its running resources, unless a cleanup
failed; `VisitedCoverMade` shows that this is so at the start, at whatever step the
construction failed. `OwnersSound` counts the lifespans that hold the current pipeline,
so that the last release is the last owner's. `AdaptersSound`: the registered adapters
are those of the lifespans between the two ends, each once, in the order of entry.
`ObservationsSound` counts the requests under each pipeline.

**Transport.** `TransportInv` says of every reference on its way what is known: an id
that a consumer keeps as executed, or is about to acknowledge, has a finished row or
none of the group's; what the group was given and is no longer pending is finished;
and a row that was finished stays so. The cursors of the pending pages are compared
with the smallest and largest of a set of ids, which `NaturalsHaveLeast` and
`MaxOfIds` provide.

**Cache.** `CacheInv` dates everything: a payload in Redis, in a late command or in a
reader's hands was true at its source time (`Dated`), a superseded version has an end
that is not before it, and a probing reader waits for its lookup. The age limit is
then arithmetic on the answer's step, and `TrueEntriesAreDeleted` survives a write
because the deletion the write still owes covers the keys it made false.

**Limiter.** `LimiterInv` counts with finite sets: `RedisHeld` and `LocalHeld` bound a
bucket by failures and reservations together, and a finalization turns a reservation
into at most one failure (`FinalizingAddsNone`). `PlacesKept` says which late command
may still touch a reservation, so that a failure that is to be counted finds it there;
`ProbesSound` that a probe which met no new generation met no failure.

**Gateway.** An invocation is the rest of a list of steps. `ProgramsFollowed` keeps the
rest a suffix of its program, so the steps it took are known (`Past`); one lemma per
program says where each step stands. `OperationSound` says what each step left behind
and that it still stands, which needs `LockHeld`; `UpgradesSound` and `WritersSound`
carry schema and writers through migrations that outlive their operation: while a
writer may run, no migration that could change the schema does (`Quiet`).

**Migrations.** `MigrationsInv` says what a revision makes of rows (`HistoryFits`,
`ReferencesFit`, `TenancyFits`, `OrderFits`, `PeakFits`), of the committed rows and of
those in the running command alike, and that nothing recorded is missing from either.
`UpSound` and `DownSound` show it for each of the 34 conversions, with the guards that
refuse; `Written` for every write of the application.

## 7. Checked by TLC only

- `ClaimsAreTemporary`, `EveryDeliveryFinishes`, `PendingDrains`,
  `RecoversEventually`, `ReadinessAnswers`: liveness under fairness, and ENABLED,
  are outside the prover's reach.
Every invariant and every action property of the runs is also proved.

## 8. What is not modelled

- *Within deliveries*: owners, timestamps, error texts, traces
  and logs; the branches of `_start` and the router that only return an outcome
  (`event_not_found`, `reference_conflict`, `consumer_claim_active`);
  `subscription_conflict` and `handler_unavailable` (`execution.py:322-327`), which may
  follow a takeover that has interrupted attempts and made the row pending (302-307) and
  that then commits, but which no subscription of the shipped `CONSUMERS` reaches; the length of backoff. Batches
  are one step per row. Which publications precede the stream-loss cutoff is left
  open in `EventDelivery` and modelled in `EventTransport`.
- *Within the transport*: the wire protocol, parsing of replies, metrics.
- *Within the ledger*: names and units (no revision depends on them; a unit cannot
  change once there is history, and every ingredient has an opening movement),
  decimal formatting (quantities are thousandths), actors, permissions.
- *Within orders*: prices (one price in `SalesProjection`), payment rules, status
  aliases, staff roles, orders written before inventory existed.
- *Within sessions and tenancy*: password hashing, token formats, names, slugs.
- *Within the cache*: serialisation beyond its shape, and names and prices, which
  are one version.
- *Within the API process*: `BudgetedMetricExporter`, validation of settings, log
  formatting, error bodies, the instruments that only count.
- *Within the front end*: the orders page, and the menu, recipe, restaurant and
  staff forms, which send one command each and keep nothing between two of them;
  server components, styling, browser telemetry.
- *Notifications*: the diagnostics half inserts one row per event, keyed by it.
- *Audit*: the paged reads.
- *Measurement and verification scripts* (`src/scripts/benchmark-*`, `check-*`,
  `verify-*`): drivers that start the program, measure or inspect it, and exit.
