----------------------------- MODULE LocalGateway -----------------------------
(***************************************************************************)
(* scripts/local-gateway.py: the helper that owns the isolated HTTPS       *)
(* rehearsal stack.  An invocation is a list of steps that it works off    *)
(* one by one; every step may fail, which ends the invocation, and the     *)
(* process may be killed between any two.  Containers, the database        *)
(* volume, the state directory and a migration that already runs in its    *)
(* container outlive the process.                                          *)
(*                                                                         *)
(* An image is the number of its build; HeadOf gives the Alembic head that *)
(* is packed into it.  `frontend' stands for the frontend and Caddy, and   *)
(* `postgres' for PostgreSQL and Redis, which are always started together. *)
(***************************************************************************)
EXTENDS Naturals, Sequences, FiniteSets

CONSTANTS
    Procs,       \* invocations that may overlap
    NoProcess,   \* no process, no owner
    HeadOf,      \* the Alembic head of every image that is ever built
    MaxRuns,     \* bound on invocations
    MaxKills,    \* bound on killed invocations
    MaxCrashes   \* bound on containers that exit by themselves

Images == DOMAIN HeadOf

\* The working tree only moves forward: a later build has no earlier head.
ASSUME GatewayAssumption ==
    /\ NoProcess \notin Procs
    /\ IsFiniteSet(Images) /\ Images = 1 .. Cardinality(Images)
    /\ \A i, j \in Images : i <= j => HeadOf[i] <= HeadOf[j]
    /\ \A i \in Images : HeadOf[i] \in Nat \ {0}

VARIABLES
    made,           \* who created the state directory
    files,          \* who wrote each file of the state directory
    recordedImage,  \* the image recorded in state.json, 0 before the first build
    lock,           \* whose operation.lock exists
    todo,           \* the steps left to each invocation
    job,            \* what each invocation was called for
    loaded,         \* the image each invocation read from state.json or built
    built,          \* the last image built
    service,        \* the containers
    schema,         \* alembic_version of the rehearsal database, 0 when empty
    upgrades,       \* migrations running in a maintenance container
    runs, kills, crashes

gatewayVars == <<made, files, recordedImage, lock, todo, job, loaded, built, service,
                 schema, upgrades, runs, kills, crashes>>

Files == {"postgres_password", "redis.conf", "backend.env", "state.json"}

Services == {"postgres", "api", "frontend", "worker"}

Absent == [state |-> "absent", image |-> 0]

-----------------------------------------------------------------------------
(* What each invocation does, in order.                                    *)

InitializeMutant ==
    <<"vacant", "mkdir", "backend.env", "state.json", "redis.conf",
      "postgres_password">>

Initialize ==
    <<"vacant", "mkdir", "postgres_password", "redis.conf", "backend.env",
      "state.json">>

Build == <<"backend", "front", "record">>

Migrate ==
    <<"api_stopped", "worker_stopped", "data", "upgrade", "upgraded">>

StartMutant == <<"images", "data", "schema", "api", "export_ca">>

Start == <<"images", "data", "schema", "api", "worker", "running", "export_ca">>

CheckRunning == <<"export_ca", "requests", "runtime">>

CheckRestart ==
    <<"export_ca", "requests", "down">> \o Start \o <<"runtime">>

Actions == {"init", "build", "migrate", "up", "check", "restart", "down", "status"}

Script(a) ==
    CASE a = "init" -> Initialize
      [] a = "build" -> Build
      [] a = "migrate" -> Migrate
      [] a = "up" -> Start
      [] a = "check" -> CheckRunning
      [] a = "restart" -> CheckRestart
      [] a = "down" -> <<"down">>
      [] a = "status" -> <<"images">>

\* init takes no lock; everything else runs under operation.lock and reads
\* the state only once it holds it.
Main(p) ==
    /\ todo[p] = <<>>
    /\ lock # p
    /\ runs < MaxRuns
    /\ \E a \in Actions :
          /\ job' = [job EXCEPT ![p] = a]
          /\ todo' = [todo EXCEPT ![p] =
                        IF a = "init" THEN Script(a)
                        ELSE <<"lock", "load">> \o Script(a) \o <<"unlock">>]
    /\ runs' = runs + 1
    /\ UNCHANGED <<made, files, recordedImage, lock, loaded, built, service,
                   schema, upgrades, kills, crashes>>

-----------------------------------------------------------------------------
(* The steps.  Each is enabled in an invocation whose next step it is and  *)
(* whose checks pass; where they do not, the invocation can only fail.     *)

At(p, step) == todo[p] # <<>> /\ Head(todo[p]) = step

Advance(p) == todo' = [todo EXCEPT ![p] = Tail(@)]

CreatableMutant(owner) == TRUE

\* mkdir and open(..., "x") refuse what exists.
Creatable(owner) == owner = NoProcess

Vacant(p) ==
    /\ At(p, "vacant")
    /\ made = NoProcess
    /\ Advance(p)
    /\ UNCHANGED <<made, files, recordedImage, lock, loaded, built, service,
                   schema, upgrades>>

\* The test above and this creation are two steps: mkdir refuses by itself.
MakeDirectory(p) ==
    /\ At(p, "mkdir")
    /\ Creatable(made)
    /\ made' = p
    /\ Advance(p)
    /\ UNCHANGED <<files, recordedImage, lock, loaded, built, service, schema,
                   upgrades>>

WritePrivate(p) ==
    \E f \in Files :
        /\ At(p, f)
        /\ Creatable(files[f])
        /\ files' = [files EXCEPT ![f] = p]
        /\ Advance(p)
        /\ UNCHANGED <<made, recordedImage, lock, loaded, built, service, schema,
                       upgrades>>

LockMutant(p) ==
    /\ At(p, "lock")
    /\ made # NoProcess
    /\ lock' = p
    /\ Advance(p)
    /\ UNCHANGED <<made, files, recordedImage, loaded, built, service, schema,
                   upgrades>>

\* operation.lock is created exclusively, in a directory that must exist.
Lock(p) ==
    /\ At(p, "lock")
    /\ made # NoProcess
    /\ lock = NoProcess
    /\ lock' = p
    /\ Advance(p)
    /\ UNCHANGED <<made, files, recordedImage, loaded, built, service, schema,
                   upgrades>>

Load(p) ==
    /\ At(p, "load")
    /\ files["state.json"] # NoProcess
    /\ files["backend.env"] # NoProcess
    /\ loaded' = [loaded EXCEPT ![p] = recordedImage]
    /\ Advance(p)
    /\ UNCHANGED <<made, files, recordedImage, lock, built, service, schema, upgrades>>

BuildImage(p) ==
    /\ At(p, "backend")
    /\ built + 1 \in Images
    /\ built' = built + 1
    /\ loaded' = [loaded EXCEPT ![p] = built + 1]
    /\ Advance(p)
    /\ UNCHANGED <<made, files, recordedImage, lock, service, schema, upgrades>>

\* state.json is rewritten only after both images were built.
RecordImage(p) ==
    /\ At(p, "record")
    /\ recordedImage' = loaded[p]
    /\ Advance(p)
    /\ UNCHANGED <<made, files, lock, loaded, built, service, schema, upgrades>>

\* Every call of compose refuses while no image is recorded.
Compose(p) == loaded[p] # 0

StoppedMutant(s) == service[s].state # "running"

Stopped(s) == service[s].state \notin {"running", "restarting"}

SchemaMatches(p) == schema = HeadOf[loaded[p]]

Unpaused(s) == service[s].state = "running"

\* check_runtime compares the images of the containers with the state.
RuntimeMatches(p) ==
    \A s \in {"api", "worker"} :
        Unpaused(s) /\ service[s].image = loaded[p]

\* Steps that read and judge, and change nothing.
Inspect(p) ==
    /\ \/ At(p, "front")
       \/ At(p, "images") /\ Compose(p)
       \/ At(p, "api_stopped") /\ Compose(p) /\ Stopped("api")
       \/ At(p, "worker_stopped") /\ Compose(p) /\ Stopped("worker")
       \/ At(p, "upgraded") /\ upgrades = {} /\ SchemaMatches(p)
       \/ At(p, "schema") /\ Unpaused("postgres") /\ SchemaMatches(p)
       \/ At(p, "running") /\ Unpaused("worker")
       \/ At(p, "export_ca") /\ Compose(p) /\ Unpaused("frontend")
       \/ At(p, "requests") /\ \A s \in Services : Unpaused(s)
       \/ At(p, "runtime") /\ RuntimeMatches(p)
    /\ Advance(p)
    /\ UNCHANGED <<made, files, recordedImage, lock, loaded, built, service,
                   schema, upgrades>>

\* The services each `compose up' brings up with the loaded images.
Brings ==
    [data |-> {"postgres"},
     api |-> {"postgres", "api", "frontend"},
     worker |-> {"worker"}]

Up(p) ==
    \E step \in DOMAIN Brings :
        /\ At(p, step)
        /\ Compose(p)
        /\ service' = [s \in Services |->
                          IF s \in Brings[step]
                          THEN [state |-> "running",
                                image |-> IF s = "postgres" THEN 0 ELSE loaded[p]]
                          ELSE service[s]]
        /\ Advance(p)
        /\ UNCHANGED <<made, files, recordedImage, lock, loaded, built, schema,
                       upgrades>>

\* alembic upgrade head, in a container of its own and in one transaction.
Upgrade(p) ==
    /\ At(p, "upgrade")
    /\ Compose(p)
    /\ upgrades' = upgrades \union {[from |-> schema, to |-> HeadOf[loaded[p]]]}
    /\ Advance(p)
    /\ UNCHANGED <<made, files, recordedImage, lock, loaded, built, service, schema>>

\* Containers and networks go, with every connection to the database;
\* the volumes stay.
Down(p) ==
    /\ At(p, "down")
    /\ Compose(p)
    /\ service' = [s \in Services |-> Absent]
    /\ upgrades' = {}
    /\ Advance(p)
    /\ UNCHANGED <<made, files, recordedImage, lock, loaded, built, schema>>

Unlock(p) ==
    /\ At(p, "unlock")
    /\ lock' = NoProcess
    /\ Advance(p)
    /\ UNCHANGED <<made, files, recordedImage, loaded, built, service, schema, upgrades>>

Step(p) ==
    /\ \/ Vacant(p) \/ MakeDirectory(p) \/ WritePrivate(p) \/ Lock(p) \/ Load(p)
       \/ BuildImage(p) \/ RecordImage(p) \/ Inspect(p) \/ Up(p) \/ Upgrade(p)
       \/ Down(p) \/ Unlock(p)
    /\ UNCHANGED <<job, runs, kills, crashes>>

\* An exception: the invocation ends, its `finally' removes its lock.
Fail(p) ==
    /\ todo[p] # <<>>
    /\ Head(todo[p]) # "unlock"
    /\ todo' = [todo EXCEPT ![p] = <<>>]
    /\ lock' = IF lock = p THEN NoProcess ELSE lock
    /\ UNCHANGED <<made, files, recordedImage, job, loaded, built, service, schema,
                   upgrades, runs, kills, crashes>>

-----------------------------------------------------------------------------
(* The world around the helper.                                            *)

Kill(p) ==
    /\ todo[p] # <<>>
    /\ kills < MaxKills
    /\ kills' = kills + 1
    /\ todo' = [todo EXCEPT ![p] = <<>>]
    /\ UNCHANGED <<made, files, recordedImage, lock, job, loaded, built, service,
                   schema, upgrades, runs, crashes>>

\* The runbook: inspect the process of the lock and the containers first.
Recover ==
    /\ lock # NoProcess
    /\ todo[lock] = <<>>
    /\ upgrades = {}
    /\ lock' = NoProcess
    /\ UNCHANGED <<made, files, recordedImage, todo, job, loaded, built, service,
                   schema, upgrades, runs, kills, crashes>>

\* Alembic read the version in its own transaction: it commits only on it.
UpgradeEnds ==
    \E u \in upgrades :
        /\ upgrades' = upgrades \ {u}
        /\ schema' \in {schema} \union (IF schema = u.from THEN {u.to} ELSE {})
        /\ UNCHANGED <<made, files, recordedImage, lock, todo, job, loaded, built,
                       service, runs, kills, crashes>>

\* restart: "on-failure:5"
Crash ==
    \E s \in {"api", "worker"} :
        /\ service[s].state = "running"
        /\ crashes < MaxCrashes
        /\ crashes' = crashes + 1
        /\ \E next \in {"restarting", "exited"} :
              service' = [service EXCEPT ![s].state = next]
        /\ UNCHANGED <<made, files, recordedImage, lock, todo, job, loaded, built,
                       schema, upgrades, runs, kills>>

Restart ==
    \E s \in {"api", "worker"} :
        /\ service[s].state = "restarting"
        /\ service' = [service EXCEPT ![s].state = "running"]
        /\ UNCHANGED <<made, files, recordedImage, lock, todo, job, loaded, built,
                       schema, upgrades, runs, kills, crashes>>

GatewayInit ==
    /\ made = NoProcess
    /\ files = [f \in Files |-> NoProcess]
    /\ recordedImage = 0
    /\ lock = NoProcess
    /\ todo = [p \in Procs |-> <<>>]
    /\ job = [p \in Procs |-> "status"]
    /\ loaded = [p \in Procs |-> 0]
    /\ built = 0
    /\ service = [s \in Services |-> Absent]
    /\ schema = 0
    /\ upgrades = {}
    /\ runs = 0 /\ kills = 0 /\ crashes = 0

GatewayNext ==
    \/ \E p \in Procs : Main(p) \/ Step(p) \/ Fail(p) \/ Kill(p)
    \/ Recover \/ UpgradeEnds \/ Crash \/ Restart

GatewaySpec == GatewayInit /\ [][GatewayNext]_gatewayVars

-----------------------------------------------------------------------------
(* Properties                                                              *)

\* The state keeps its shape, and the lock belongs to an invocation.
GatewayTypeOK ==
    /\ made \in Procs \union {NoProcess}
    /\ files \in [Files -> Procs \union {NoProcess}]
    /\ recordedImage \in 0 .. built
    /\ lock \in Procs \union {NoProcess}
    /\ loaded \in [Procs -> 0 .. built]
    /\ service \in [Services -> [state : {"absent", "running", "restarting", "exited"},
                                 image : 0 .. built]]
    /\ schema \in {0} \union {HeadOf[i] : i \in Images}
    /\ upgrades \subseteq [from : Nat, to : Nat]

\* An invocation that is past its lock step.
Working(p) ==
    /\ todo[p] # <<>>
    /\ job[p] # "init"
    /\ Head(todo[p]) # "lock"

\* At most one invocation works on the stack at a time, killed invocations
\* and recovered locks included.
OneOperation ==
    \A p, q \in Procs : Working(p) /\ Working(q) => p = q

\* An operation that passed its load step works with a complete directory
\* written by a single initialization, never with what a killed or a losing
\* initialization left.
WholeState ==
    \A p \in Procs :
        Working(p) /\ Head(todo[p]) # "load" =>
            \A f \in Files : files[f] = made

\* Secrets are never replaced: a file of the state directory keeps the
\* content the first initialization gave it.
SecretsKept ==
    [][\A f \in Files : files[f] # NoProcess => files'[f] = files[f]]_gatewayVars

\* Operations work one at a time, on a state directory of one making that no later
\* initialization touches.
OperationsExclude ==
    /\ [](GatewayTypeOK /\ OneOperation /\ WholeState)
    /\ SecretsKept

\* No API or worker runs on a schema other than the one of its image, not
\* through a restart during a migration, a migration that outlives its killed
\* invocation, or an `up' after a new build.
WritersMatchSchema ==
    \A s \in {"api", "worker"} :
        service[s].state = "running" => HeadOf[service[s].image] = schema

\* When `up' or `check' is about to report success, the API and the worker are
\* containers of the one recorded image.
SuccessIsWhole ==
    \A p \in Procs :
        job[p] \in {"up", "check", "restart"} /\ At(p, "unlock") =>
            \A s \in {"api", "worker"} :
                service[s].image = recordedImage /\ service[s].state # "absent"

\* What runs belongs together: writers with their schema, a reported release with
\* its image.
ReleasesMatch ==
    /\ WritersMatchSchema
    /\ SuccessIsWhole

=============================================================================
