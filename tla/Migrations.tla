------------------------------ MODULE Migrations ------------------------------
(***************************************************************************)
(* The chain of Alembic revisions under backend/alembic/versions, run by   *)
(* `alembic upgrade` and `alembic downgrade` through backend/alembic/      *)
(* env.py, over a database the application fills between commands.         *)
(*                                                                         *)
(* A revision is its place along the chain, named below for what exists    *)
(* from it on.                                                             *)
(*                                                                         *)
(* The data are one restaurant, one menu item, one order with one line,    *)
(* one ingredient, and a few organizations and users: the rows on which    *)
(* the migrations' conversions, constraints and guards depend.  A column   *)
(* that does not exist yet holds 0, FALSE or "none".                       *)
(***************************************************************************)
EXTENDS Naturals, Sequences, FiniteSets, Functions

CONSTANTS
    Tenants,      \* organizations the application may create
    Users,        \* accounts that may become members
    Stops,        \* revisions an operator migrates to (0 is an empty database)
    MaxCommands,  \* bound on alembic commands
    MaxWrites,    \* bound on application writes
    MaxRevision   \* bound on order and ingredient revisions

RestaurantTable == 1    \* 9007
MenuTables == 2         \* 694f
OrderTables == 3        \* 2d77
Lifecycle == 4          \* 4a1e
AuthTables == 5         \* 72bd
TenancyTables == 6      \* 83c7
Ownership == 7          \* 94d8
PriceCheck == 8         \* b37a
InventoryTables == 9    \* c48b
RecipeTable == 10       \* d57c
OrderStock == 11        \* e68d
EventTables == 12       \* c61a
EpisodeTable == 13      \* b8f3
AnalyticsTables == 14   \* a936
AlertTables == 15       \* b2c7
MaintenanceTable == 16  \* c3d8
TraceColumn == 17       \* d4e9

HeadRevision == TraceColumn

Dev == "restaurantos-development"

Organizations == Tenants \union {Dev}

ASSUME StopsAssumption ==
    /\ Stops \subseteq 0 .. HeadRevision
    /\ Dev \notin Tenants
    /\ MaxRevision \in Nat \ {0}

VARIABLES
    rev,       \* the committed alembic_version
    db,        \* the committed rows
    command,   \* the running alembic command and its transaction
    recorded,  \* history: every retained fact the application committed
    peak,      \* history: the highest revision the existing order ever had
    commands,  \* history: commands begun
    writes     \* history: application writes

migrationsVars == <<rev, db, command, recorded, peak, commands, writes>>

LegacyStatus == {"pending", "complete", "cancelled", "ready"}

OrderStatus ==
    {"DRAFT", "SUBMITTED", "ACCEPTED", "PREPARING", "READY", "COMPLETED",
     "CANCELLED"}

NoOrder == [exists |-> FALSE, status |-> "none", item |-> FALSE,
            named |-> FALSE, revision |-> 0, processed |-> FALSE]

Empty ==
    [restaurant |-> "absent",
     organizations |-> <<>>,
     number |-> [o \in Organizations |-> 0],
     sequence |-> 0,
     accounts |-> {},
     memberships |-> {},
     item |-> "absent",
     order |-> NoOrder,
     ingredient |-> FALSE,
     tracked |-> FALSE,
     state_revision |-> 0,
     history |-> {}]

Idle == [running |-> FALSE]

\* Facts the schema keeps once they are committed.  An event is the pair of
\* its aggregate and its aggregate revision.
Events == {"order", "ingredient"} \X (1 .. MaxRevision)

Fact(k) == <<k, 0>>

Facts ==
    Events \union {Fact(k) : k \in {"consumption", "submissions", "episodes",
                                    "contributions", "alerts", "maintenance"}}

-----------------------------------------------------------------------------
(* The upgrades.  Each takes the rows before it and gives the rows after,  *)
(* and the condition under which it does not raise.  A revision whose      *)
(* upgrade only creates empty tables changes no row.                       *)

UpperStatusMutant(s) ==
    CASE s = "complete" -> "COMPLETED"
      [] s = "cancelled" -> "CANCELLED"
      [] s = "ready" -> "READY"
      [] OTHER -> s

\* 4a1e: the items' names are copied into the order lines, which may lose
\* their item from now on, and the legacy statuses become lifecycle names.
UpperStatus(s) ==
    CASE s \in {"pending", "PENDING"} -> "DRAFT"
      [] s \in {"complete", "COMPLETE"} -> "COMPLETED"
      [] s \in {"cancelled", "CANCELLED"} -> "CANCELLED"
      [] s = "ready" -> "READY"
      [] OTHER -> s

UpLifecycle(d) ==
    IF d.order.exists
    THEN [d EXCEPT !.order.status = UpperStatus(@), !.order.named = TRUE]
    ELSE d

\* 83c7: organizations appear with the development one, which receives every
\* restaurant; memberships, assignments and audit entries start empty.
UpTenancy(d) ==
    [d EXCEPT !.organizations = <<Dev>>,
              !.restaurant = IF @ = "unscoped" THEN Dev ELSE @]

\* 94d8: refuses users with two memberships, backfills restaurants without an
\* organization, numbers the organizations, the development one first and the
\* others by age, and sets the number sequence past them.
OneMembershipEach(d) ==
    \A m, n \in d.memberships : m[1] = n[1] => m = n

Renumbered(d) ==
    [o \in Organizations |->
        IF o \in Range(d.organizations)
        THEN CHOOSE i \in DOMAIN d.organizations : d.organizations[i] = o
        ELSE 0]

LastNumberMutant(d) == 0

LastNumber(d) == Len(d.organizations)

UpOwnershipMutant(d) ==
    [d EXCEPT !.number = Renumbered(d), !.sequence = LastNumber(d)]

UpOwnership(d) ==
    [d EXCEPT !.restaurant = IF @ = "unscoped" THEN Dev ELSE @,
              !.number = Renumbered(d),
              !.sequence = LastNumber(d)]

\* b37a: a price outside the supported range refuses the CHECK constraint.
PricesInRange(d) == d.item # "invalid"

\* e68d: existing orders are unprocessed, existing movements keep their keys.
UpOrderStock(d) == [d EXCEPT !.order.processed = FALSE]

\* c61a: every existing order starts at revision 1; the outbox, deliveries,
\* receipts, attempts and replays start empty.
UpEvents(d) == [d EXCEPT !.order.revision = IF d.order.exists THEN 1 ELSE 0]

\* The triggers of c61a and b8f3: outbox rows and the delivery history, and
\* from b8f3 on episode facts, cannot be deleted by any statement.
EventsGuarded(r) == IF r >= EventTables THEN Events ELSE {}

EpisodesGuarded(r) == IF r >= EpisodeTable THEN {Fact("episodes")} ELSE {}

Undeletable(r) == EventsGuarded(r) \union EpisodesGuarded(r)

\* b8f3: every existing ingredient receives the watermark 1 and no episode.
UpEpisodes(d) == [d EXCEPT !.state_revision = IF d.ingredient THEN 1 ELSE 0]

\* The upgrade to revision n from n - 1.  The revisions not named here add
\* empty tables or nullable columns.
UpRows(n, d) ==
    CASE n = Lifecycle -> UpLifecycle(d)
      [] n = TenancyTables -> UpTenancy(d)
      [] n = Ownership -> UpOwnership(d)
      [] n = OrderStock -> UpOrderStock(d)
      [] n = EventTables -> UpEvents(d)
      [] n = EpisodeTable -> UpEpisodes(d)
      [] OTHER -> d

UpAllowed(n, d) ==
    CASE n = Ownership -> OneMembershipEach(d)
      [] n = PriceCheck -> PricesInRange(d)
      [] OTHER -> TRUE

-----------------------------------------------------------------------------
(* The downgrades: what each drops, and the rows that make it raise.       *)

DownRestaurants(d) == [d EXCEPT !.restaurant = "absent"]

DownMenus(d) == [d EXCEPT !.item = "absent"]

DownOrders(d) == [d EXCEPT !.order = NoOrder]

\* 4a1e: menu_item_id becomes NOT NULL again, which a line whose item is gone
\* refuses; the snapshot names are dropped, the statuses stay as they are.
LinesKeepItems(d) == d.order.exists => d.order.item

DownLifecycle(d) == [d EXCEPT !.order.named = FALSE]

\* 72bd drops the accounts with their sessions.
DownAuth(d) == [d EXCEPT !.accounts = {}]

DownTenancy(d) ==
    [d EXCEPT !.organizations = <<>>,
              !.memberships = {},
              !.restaurant = IF @ = "absent" THEN @ ELSE "unscoped"]

DownOwnership(d) ==
    [d EXCEPT !.number = [o \in Organizations |-> 0], !.sequence = 0]

\* d57c drops the recipes, and with them which items are tracked.
DownRecipes(d) == [d EXCEPT !.tracked = FALSE]

\* c48b drops the ingredients, their balances and the whole ledger.
DownInventory(d) == [d EXCEPT !.ingredient = FALSE]

NoOrderStockMutant(d) ==
    /\ Fact("consumption") \notin d.history
    /\ ~d.order.processed

\* e68d refuses while consumption, submissions or processed orders exist.
NoOrderStock(d) ==
    /\ Fact("consumption") \notin d.history
    /\ Fact("submissions") \notin d.history
    /\ ~d.order.processed

DownOrderStock(d) ==
    [d EXCEPT !.history = @ \ {Fact("consumption"), Fact("submissions")},
              !.order.processed = FALSE]

NoEventHistoryMutant(d) == d.history \intersect Events = {}

\* c61a refuses while event history or an advanced order revision exists.
NoEventHistory(d) ==
    /\ d.history \intersect Events = {}
    /\ ~(d.order.exists /\ d.order.revision # 1)

DownEvents(d) == [d EXCEPT !.history = @ \ Events, !.order.revision = 0]

\* b8f3 refuses while episodes exist, and drops the state revisions with them.
NoEpisodes(d) == Fact("episodes") \notin d.history

DownEpisodes(d) ==
    [d EXCEPT !.history = @ \ {Fact("episodes")}, !.state_revision = 0]

NoContributions(d) == Fact("contributions") \notin d.history

NoAlerts(d) == Fact("alerts") \notin d.history

NoMaintenance(d) == Fact("maintenance") \notin d.history

\* The downgrade from revision n to n - 1.  Dropping the price check or
\* the trace metadata leaves the rows.
DownRows(n, d) ==
    CASE n = RestaurantTable -> DownRestaurants(d)
      [] n = MenuTables -> DownMenus(d)
      [] n = OrderTables -> DownOrders(d)
      [] n = Lifecycle -> DownLifecycle(d)
      [] n = AuthTables -> DownAuth(d)
      [] n = TenancyTables -> DownTenancy(d)
      [] n = Ownership -> DownOwnership(d)
      [] n = InventoryTables -> DownInventory(d)
      [] n = RecipeTable -> DownRecipes(d)
      [] n = OrderStock -> DownOrderStock(d)
      [] n = EventTables -> DownEvents(d)
      [] n = EpisodeTable -> DownEpisodes(d)
      [] n = AnalyticsTables -> [d EXCEPT !.history = @ \ {Fact("contributions")}]
      [] n = AlertTables -> [d EXCEPT !.history = @ \ {Fact("alerts")}]
      [] n = MaintenanceTable -> [d EXCEPT !.history = @ \ {Fact("maintenance")}]
      [] OTHER -> d

DownAllowed(n, d) ==
    CASE n = Lifecycle -> LinesKeepItems(d)
      [] n = OrderStock -> NoOrderStock(d)
      [] n = EventTables -> NoEventHistory(d)
      [] n = EpisodeTable -> NoEpisodes(d)
      [] n = AnalyticsTables -> NoContributions(d)
      [] n = AlertTables -> NoAlerts(d)
      [] n = MaintenanceTable -> NoMaintenance(d)
      [] OTHER -> TRUE

-----------------------------------------------------------------------------
(* alembic: every step of a command runs in the one transaction that       *)
(* env.py opens around run_migrations.                                     *)

BeginCommand ==
    \E to \in Stops :
        /\ ~command.running
        /\ commands < MaxCommands
        /\ to # rev
        /\ command' = [running |-> TRUE, from |-> rev, to |-> to,
                       rev |-> rev, rows |-> db]
        /\ commands' = commands + 1
        /\ UNCHANGED <<rev, db, recorded, peak, writes>>

UpStep ==
    /\ command.running
    /\ command.rev < command.to
    /\ LET n == command.rev + 1
       IN /\ UpAllowed(n, command.rows)
          /\ command' = [command EXCEPT !.rev = n, !.rows = UpRows(n, @)]
    /\ UNCHANGED <<rev, db, recorded, peak, commands, writes>>

\* As if every revision were committed by itself.
DownStepMutant ==
    /\ command.running
    /\ command.rev > command.to
    /\ LET n == command.rev
       IN /\ DownAllowed(n, command.rows)
          /\ command' = [command EXCEPT !.rev = n - 1, !.rows = DownRows(n, @)]
          /\ rev' = n - 1
          /\ db' = DownRows(n, command.rows)
    /\ UNCHANGED <<recorded, peak, commands, writes>>

DownStep ==
    /\ command.running
    /\ command.rev > command.to
    /\ LET n == command.rev
       IN /\ DownAllowed(n, command.rows)
          /\ command' = [command EXCEPT !.rev = n - 1, !.rows = DownRows(n, @)]
    /\ UNCHANGED <<rev, db, recorded, peak, commands, writes>>

\* A step raises, or the process is killed: the transaction is rolled back.
Abort ==
    /\ command.running
    /\ command' = Idle
    /\ UNCHANGED <<rev, db, recorded, peak, commands, writes>>

CommitCommand ==
    /\ command.running
    /\ command.rev = command.to
    /\ rev' = command.rev
    /\ db' = command.rows
    /\ peak' = IF command.rows.order.exists THEN peak ELSE 0
    /\ command' = Idle
    /\ UNCHANGED <<recorded, commands, writes>>

-----------------------------------------------------------------------------
(* The application deployed at the committed revision.  It is stopped      *)
(* while a command runs.                                                   *)

Write(d, facts) ==
    /\ ~command.running
    /\ writes < MaxWrites
    /\ writes' = writes + 1
    /\ db' = [d EXCEPT !.history = @ \union facts]
    /\ recorded' = recorded \union facts
    /\ peak' = IF d.order.revision > peak THEN d.order.revision ELSE peak
    /\ UNCHANGED <<rev, command, commands>>

AddRestaurant ==
    /\ rev >= RestaurantTable
    /\ db.restaurant = "absent"
    /\ \E o \in (IF rev < Ownership THEN {"unscoped"} ELSE {})
                \union Range(db.organizations) :
          Write([db EXCEPT !.restaurant = o], {})

\* Only the check of b37a refuses a price outside the range.
AddItem ==
    /\ rev >= MenuTables
    /\ db.restaurant # "absent"
    /\ db.item = "absent"
    /\ \E p \in {"valid"} \union (IF rev < PriceCheck THEN {"invalid"} ELSE {}) :
          Write([db EXCEPT !.item = p], {})

\* Before 4a1e the order lines' foreign key refuses; after it, it is cleared.
DropItem ==
    /\ db.item # "absent"
    /\ db.order.exists => rev >= Lifecycle
    /\ Write([db EXCEPT !.item = "absent", !.order.item = FALSE, !.tracked = FALSE], {})

PlaceOrder ==
    /\ rev >= OrderTables
    /\ db.item # "absent"
    /\ ~db.order.exists
    /\ \E s \in IF rev < Lifecycle THEN LegacyStatus ELSE {"DRAFT"} :
          Write([db EXCEPT !.order =
                    [exists |-> TRUE, status |-> s, item |-> TRUE,
                     named |-> rev >= Lifecycle,
                     revision |-> IF rev >= EventTables THEN 1 ELSE 0,
                     processed |-> FALSE]],
                IF rev >= OrderStock THEN {Fact("submissions")} ELSE {})

\* A status change, announced unless its status has no event type; accepting
\* marks the order processed and consumes stock where the item is tracked.
AdvanceOrder ==
    /\ rev >= Lifecycle
    /\ db.order.exists
    /\ db.order.revision < MaxRevision
    /\ \E s \in OrderStatus \ {db.order.status, "DRAFT"}, told \in BOOLEAN :
          LET r == IF rev >= EventTables THEN db.order.revision + 1 ELSE 0
              used == s = "ACCEPTED" /\ rev >= OrderStock
          IN /\ ~told => s \in {"PREPARING", "READY"} \/ rev < EventTables
             /\ Write([db EXCEPT !.order.status = s,
                                 !.order.revision = r,
                                 !.order.processed = @ \/ used],
                      (IF rev >= EventTables /\ told THEN {<<"order", r>>} ELSE {})
                      \union (IF used /\ db.tracked THEN {Fact("consumption")} ELSE {}))

AddOrganization ==
    /\ rev >= TenancyTables
    /\ \E o \in Tenants \ Range(db.organizations) :
          Write([db EXCEPT !.organizations = Append(@, o),
                           !.number[o] = IF rev >= Ownership THEN db.sequence + 1 ELSE 0,
                           !.sequence = IF rev >= Ownership THEN @ + 1 ELSE 0], {})

AddAccount ==
    /\ rev >= AuthTables
    /\ \E u \in Users \ db.accounts :
          Write([db EXCEPT !.accounts = @ \union {u}], {})

AddMember ==
    /\ rev >= TenancyTables
    /\ \E u \in db.accounts, o \in Range(db.organizations) :
          /\ rev >= Ownership => \A m \in db.memberships : m[1] # u
          /\ <<u, o>> \notin db.memberships
          /\ Write([db EXCEPT !.memberships = @ \union {<<u, o>>}], {})

AddIngredient ==
    /\ rev >= InventoryTables
    /\ db.restaurant # "absent"
    /\ ~db.ingredient
    /\ Write([db EXCEPT !.ingredient = TRUE,
                        !.state_revision = IF rev >= EpisodeTable THEN 1 ELSE 0],
             IF rev >= EpisodeTable THEN {<<"ingredient", 1>>} ELSE {})

TrackItem ==
    /\ rev >= RecipeTable
    /\ db.ingredient /\ db.item # "absent" /\ ~db.tracked
    /\ Write([db EXCEPT !.tracked = TRUE], {})

\* A stock change advances the state revision and announces it; one that
\* makes the ingredient low also opens an episode.
ChangeStock ==
    /\ rev >= EpisodeTable
    /\ db.ingredient
    /\ db.state_revision < MaxRevision
    /\ \E low \in BOOLEAN :
          Write([db EXCEPT !.state_revision = @ + 1],
                {<<"ingredient", db.state_revision + 1>>}
                \union (IF low THEN {Fact("episodes")} ELSE {}))

\* The workers apply retained events; an operator initializes a restaurant.
Project ==
    \E f \in {"contributions", "alerts", "maintenance"} :
        /\ Fact(f) \notin db.history
        /\ \/ f = "contributions" /\ rev >= AnalyticsTables /\ \E e \in db.history : e[1] = "order"
           \/ f = "alerts" /\ rev >= AlertTables /\ \E e \in db.history : e[1] = "ingredient"
           \/ f = "maintenance" /\ rev >= MaintenanceTable /\ db.restaurant # "absent"
        /\ Write(db, {Fact(f)})

\* A statement deletes rows; the triggers refuse it for what is immutable.
Erase ==
    /\ ~command.running
    /\ writes < MaxWrites
    /\ \E f \in db.history \ Undeletable(rev) :
          /\ db' = [db EXCEPT !.history = @ \ {f}]
          /\ recorded' = IF f \in Events \union {Fact("episodes")}
                         THEN recorded ELSE recorded \ {f}
    /\ writes' = writes + 1
    /\ UNCHANGED <<rev, command, peak, commands>>

Application ==
    \/ AddRestaurant \/ AddItem \/ DropItem \/ PlaceOrder \/ AdvanceOrder
    \/ AddOrganization \/ AddAccount \/ AddMember \/ AddIngredient
    \/ TrackItem \/ ChangeStock \/ Project \/ Erase

MigrationsInit ==
    /\ rev = 0
    /\ db = Empty
    /\ command = Idle
    /\ recorded = {}
    /\ peak = 0
    /\ commands = 0
    /\ writes = 0

MigrationsNext == BeginCommand \/ UpStep \/ DownStep \/ Abort \/ CommitCommand \/ Application

MigrationsSpec == MigrationsInit /\ [][MigrationsNext]_migrationsVars

-----------------------------------------------------------------------------
(* Properties                                                              *)

\* Revisions and rows keep their shape, in the database and in the running
\* command's transaction: a table that the revision does not have is empty.
RowsTypeOK(r, d) ==
    /\ d.restaurant \in {"absent", "unscoped"} \union Organizations
    /\ d.organizations \in Seq(Organizations)
    /\ d.number \in [Organizations -> Nat]
    /\ d.sequence \in Nat
    /\ d.accounts \subseteq Users
    /\ d.memberships \subseteq d.accounts \X Organizations
    /\ d.item \in {"absent", "valid", "invalid"}
    /\ d.order \in [exists : BOOLEAN,
                     status : OrderStatus \union LegacyStatus \union {"none"},
                     item : BOOLEAN, named : BOOLEAN,
                     revision : 0 .. MaxRevision, processed : BOOLEAN]
    /\ d.ingredient \in BOOLEAN
    /\ d.tracked => d.ingredient /\ d.item # "absent"
    /\ d.state_revision \in 0 .. MaxRevision
    /\ d.history \subseteq Facts
    /\ r < EventTables => d.history \intersect Events = {}
    /\ r < OrderStock => d.history = {}

MigrationsTypeOK ==
    /\ rev \in 0 .. HeadRevision
    /\ RowsTypeOK(rev, db)
    /\ command.running => RowsTypeOK(command.rev, command.rows)
    /\ recorded \subseteq Facts

\* While a command runs nothing of it is visible, so a command that is refused
\* halfway or killed leaves the revision it started from, however many
\* revisions it had already crossed.
AllOrNothing == command.running => rev = command.from

\* Consumption, submissions, events, episodes, projections and maintenance
\* records survive every sequence of upgrades, downgrades and refused
\* commands: the guards of the downgrades and the triggers leave none behind.
RetainedHistoryKept == recorded \subseteq db.history

\* An order's revision never falls behind one it already had, so no consumer
\* that remembers a revision meets an older one: losing the column is refused
\* once any order has advanced, announced or not.
OrderRevisionsKept == rev >= EventTables => peak <= db.order.revision

\* No sequence of commands, refused and killed ones included, loses a retained
\* record or takes an order's revision back.  An ingredient's state revision is
\* the exception: IngredientRevisionsKept says how a downgrade loses it.
HistoryKept ==
    /\ MigrationsTypeOK
    /\ AllOrNothing
    /\ RetainedHistoryKept
    /\ OrderRevisionsKept

\* From the ownership revision on, every restaurant belongs to an existing
\* organization and a user to at most one, whatever was written before.
TenancyEnforced ==
    rev >= Ownership =>
        /\ db.restaurant \in {"absent"} \union Range(db.organizations)
        /\ OneMembershipEach(db)

\* The number the next organization receives is free, also after a downgrade
\* and an upgrade renumbered the organizations.
NextNumberFree ==
    rev >= Ownership => \A o \in Organizations : db.number[o] # db.sequence + 1

\* From the lifecycle revision on every order has a status its transitions
\* know and a line that can be shown without its menu item.
OrderHistoryReadable ==
    rev >= Lifecycle /\ db.order.exists =>
        /\ db.order.status \in OrderStatus
        /\ db.order.named

\* Whatever older versions wrote, a database at a revision is what the code of that
\* revision can work with.
RowsFitRevision ==
    /\ TenancyEnforced
    /\ NextNumberFree
    /\ OrderHistoryReadable

\* What docs/api/events.md says of an ingredient's aggregate revision: it is
\* monotonic, so the watermark is never below a retained event's revision.
IngredientRevisionsKept ==
    rev >= EpisodeTable =>
        \A e \in db.history : e[1] = "ingredient" => e[2] <= db.state_revision
=============================================================================
