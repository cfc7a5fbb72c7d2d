--------------------------- MODULE InventoryLedger ---------------------------
(***************************************************************************)
(* The stock of one restaurant: ingredient and balance rows, movements,    *)
(* low-stock episodes and the inventory events written to the outbox       *)
(* (inventory/service.py, inventory/domain/transitions.py).                *)
(*                                                                         *)
(* Every command takes the restaurant's row lock before it reads anything  *)
(* it decides on and keeps it to the commit (lock_restaurant), so a        *)
(* command is one step.  Quantities are in thousandths of the base unit,   *)
(* the resolution quantity() enforces.  Names and units carry no behaviour *)
(* here: an ingredient is its identity, and its unit is fixed by the       *)
(* opening movement every ingredient has.                                  *)
(***************************************************************************)
EXTENDS Integers, Sequences

CONSTANTS
    Ingredients,    \* ingredients of the restaurant
    Legacy,         \* those that may exist before revisions and episodes do
    Keys,           \* idempotency keys of stock commands
    NoKey,          \* the key of an order's consumption
    NoOrder,        \* the order of a stock command
    MaxQuantity,    \* MAX_QUANTITY
    MaxThreshold,   \* bound: reorder thresholds
    MaxVersion,     \* bound: movements of an ingredient
    MaxRevision     \* bound: state revisions of an ingredient

ASSUME LedgerAssumption ==
    /\ Legacy \subseteq Ingredients
    /\ MaxQuantity \in Nat /\ MaxThreshold \in 0..MaxQuantity
    /\ MaxVersion \in Nat /\ MaxRevision \in Nat
    /\ NoKey \notin Keys

VARIABLES
    ingredient,     \* inventory_ingredients joined with inventory_balances
    movements,      \* inventory_movements of each ingredient, in order
    episodes,       \* inventory_low_stock_episodes of each ingredient, in order
    events,         \* outbox events of each ingredient, in order
    initialized     \* the maintenance marker of the restaurant

ledger == <<ingredient, movements, episodes, events, initialized>>

Quantities == 0..MaxQuantity
Thresholds == 0..MaxThreshold
Kinds == {"opening", "receipt", "waste", "count", "consumption"}
Reasons == {"stock_recovered", "threshold_changed", "archived"}
Sources == {"ingredient_creation", "ingredient_update", "stock_command",
            "order_acceptance", "maintenance_initialization"}

Row == [exists: BOOLEAN, quantity: Quantities, version: Nat,
        threshold: Thresholds, active: BOOLEAN, revision: Nat]

\* A row before its creation; it is neither active nor low.
NoRow == [exists |-> FALSE, quantity |-> 0, version |-> 0, threshold |-> 0,
          active |-> FALSE, revision |-> 0]

Movement(kind, delta, after, version, key, order) ==
    [kind |-> kind, delta |-> delta, after |-> after, version |-> version,
     key |-> key, order |-> order]

\* The columns of an episode that stay NULL while it is open.
Unresolved == [revision |-> 0, reason |-> "none", quantity |-> 0, threshold |-> 0,
               active |-> FALSE, source |-> "none", order |-> NoOrder]

\* An episode opened by the row as it is then, at its revision.
Episode(row, source, order) ==
    [opened |-> row.revision, quantity |-> row.quantity, threshold |-> row.threshold,
     source |-> source, order |-> order,
     suppressed |-> source = "maintenance_initialization", closing |-> Unresolved]

Closing(row, reason, source, order) ==
    [revision |-> row.revision, reason |-> reason, quantity |-> row.quantity,
     threshold |-> row.threshold, active |-> row.active, source |-> source, order |-> order]

StateEvent(row, boundary) ==
    [type |-> "state_changed", revision |-> row.revision, quantity |-> row.quantity,
     threshold |-> row.threshold, active |-> row.active, boundary |-> boundary]

LowEvent(row) ==
    [type |-> "low", revision |-> row.revision, quantity |-> row.quantity,
     threshold |-> row.threshold, active |-> row.active, boundary |-> "opened"]

-----------------------------------------------------------------------------
(* inventory/domain/transitions.py *)

IsLow(row) == row.active /\ row.quantity <= row.threshold

\* Mutant: only the quantity is compared.
StateChangedByQuantity(before, after) ==
    ~before.exists \/ before.quantity # after.quantity

\* inventory_state_changed; a first state always counts as changed.
StateChanged(before, after) ==
    \/ ~before.exists
    \/ before.quantity # after.quantity
    \/ before.threshold # after.threshold
    \/ before.active # after.active

\* Mutant: archiving closes nothing.
EpisodeTransitionActiveOnly(before, after) ==
    CASE ~IsLow(before) /\ IsLow(after) -> "opened"
      [] IsLow(before) /\ ~IsLow(after) /\ after.active -> "resolved"
      [] OTHER -> "none"

\* low_episode_transition
EpisodeTransition(before, after) ==
    CASE ~IsLow(before) /\ IsLow(after) -> "opened"
      [] IsLow(before) /\ ~IsLow(after) -> "resolved"
      [] OTHER -> "none"

\* episode_resolution_reason
ResolutionReason(before, after) ==
    IF before.active /\ ~after.active THEN "archived"
    ELSE IF before.threshold # after.threshold THEN "threshold_changed"
    ELSE "stock_recovered"

-----------------------------------------------------------------------------
(* record_inventory_transition, the one writer of revisions and episodes *)

\* open_episode: the unresolved episode of an ingredient is its last one.
HasOpenEpisode(i) ==
    episodes[i] # <<>> /\ episodes[i][Len(episodes[i])].closing = Unresolved

Revised(before, after) ==
    IF StateChanged(before, after)
    THEN [after EXCEPT !.revision = before.revision + 1] ELSE after

EpisodesAfter(i, after, source, order) ==
    LET before == ingredient[i]
        boundary == EpisodeTransition(before, after)
        row == Revised(before, after)
    IN CASE boundary = "opened" -> Append(episodes[i], Episode(row, source, order))
         [] boundary = "resolved" /\ HasOpenEpisode(i) ->
              [episodes[i] EXCEPT ![Len(episodes[i])].closing =
                 Closing(row, ResolutionReason(before, after), source, order)]
         [] OTHER -> episodes[i]

\* The boundary an event names: no episode, nothing to resolve.
RecordedBoundary(i, after) ==
    LET boundary == EpisodeTransition(ingredient[i], after)
    IN IF boundary = "resolved" /\ ~HasOpenEpisode(i) THEN "none" ELSE boundary

EventsAfter(i, after) ==
    LET row == Revised(ingredient[i], after)
        boundary == RecordedBoundary(i, after)
    IN IF ~StateChanged(ingredient[i], after) THEN events[i]
       ELSE events[i] \o <<StateEvent(row, boundary)>>
                      \o (IF boundary = "opened" THEN <<LowEvent(row)>> ELSE <<>>)

\* Where it raises: a normal ingredient with an unresolved episode.
EpisodesConsistent(i, after) ==
    EpisodeTransition(ingredient[i], after) = "opened" => ~HasOpenEpisode(i)

\* The rows of S become after[i]; everything else is recorded from there.
RecordTransition(S, after, source, order) ==
    /\ \A i \in S : EpisodesConsistent(i, after[i])
    /\ \A i \in S : Revised(ingredient[i], after[i]).revision <= MaxRevision
    /\ ingredient' = [i \in Ingredients |->
         IF i \in S THEN Revised(ingredient[i], after[i]) ELSE ingredient[i]]
    /\ episodes' = [i \in Ingredients |->
         IF i \in S THEN EpisodesAfter(i, after[i], source, order) ELSE episodes[i]]
    /\ events' = [i \in Ingredients |->
         IF i \in S THEN EventsAfter(i, after[i]) ELSE events[i]]

-----------------------------------------------------------------------------
(* What the tables and the transition facts accept.  A write they refuse is an *)
(* error of the command: the properties say that there is none.                *)

\* InventoryEpisodeFacts: complete resolution facts that follow the opening.
EpisodeFacts(e) ==
    /\ e.opened >= 1
    /\ \/ e.closing = Unresolved
       \/ /\ e.closing.reason # "none" /\ e.closing.source # "none"
          /\ e.closing.revision > e.opened
    /\ e.suppressed => e.source = "maintenance_initialization"

\* The CHECK constraints of inventory_low_stock_episodes.
EpisodeRow(e) ==
    /\ e.quantity \in Quantities /\ e.threshold \in Quantities
    /\ e.quantity <= e.threshold
    /\ e.source \in Sources
    /\ e.source = "order_acceptance" <=> e.order # NoOrder
    /\ e.closing # Unresolved =>
         /\ e.closing.reason \in Reasons /\ e.closing.source \in Sources
         /\ e.closing.source = "order_acceptance" <=> e.closing.order # NoOrder
         /\ e.closing.active => e.closing.quantity > e.closing.threshold
    /\ EpisodeFacts(e)

\* InventoryTransition and InventoryEpisodeTransition: the state a boundary names.
TransitionFacts(i, e) ==
    /\ e.revision >= 1
    /\ e.boundary = "opened" =>
         IsLow(e) /\ \E n \in DOMAIN episodes[i] : episodes[i][n].opened = e.revision
    /\ e.boundary = "resolved" =>
         ~IsLow(e) /\ \E n \in DOMAIN episodes[i] :
                         episodes[i][n].closing.revision = e.revision

\* The CHECK constraints of inventory_movements.
MovementRow(m) ==
    /\ m.kind \in Kinds /\ m.version >= 1 /\ m.after \in Quantities
    /\ m.kind \in {"opening", "receipt"} => m.delta >= 0
    /\ m.kind \in {"waste", "consumption"} => m.delta < 0
    /\ m.kind = "consumption" <=> m.order # NoOrder

-----------------------------------------------------------------------------
(* InventoryService *)

\* repo.replay(restaurant, key): openings are looked up over all ingredients.
OpeningKeyUsed(k) ==
    \E i \in Ingredients : \E n \in DOMAIN movements[i] :
        movements[i][n].kind = "opening" /\ movements[i][n].key = k

\* Mutant: the replay lookup of a stock command sees its own kind only.
KeyUsedForKind(i, k, kind) ==
    \E n \in DOMAIN movements[i] : movements[i][n].key = k /\ movements[i][n].kind = kind

\* repo.replay(restaurant, key, ingredient).  A used key is answered with the
\* recorded movement or refused: either way nothing changes.
KeyUsed(i, k, kind) == \E n \in DOMAIN movements[i] : movements[i][n].key = k

\* InventoryService.create
CreateIngredient(i, opening, threshold, k) ==
    /\ ~ingredient[i].exists
    /\ ~OpeningKeyUsed(k)
    /\ RecordTransition({i}, [j \in {i} |->
         [exists |-> TRUE, quantity |-> opening, version |-> 1,
          threshold |-> threshold, active |-> TRUE, revision |-> 0]],
         "ingredient_creation", NoOrder)
    /\ movements' = [movements EXCEPT ![i] =
         <<Movement("opening", opening, opening, 1, k, NoOrder)>>]
    /\ UNCHANGED initialized

\* Mutant: an ingredient is archived with stock on hand.
UpdateIngredientStocked(i, threshold, active) ==
    /\ ingredient[i].exists
    /\ RecordTransition({i}, [j \in {i} |->
         [ingredient[i] EXCEPT !.threshold = threshold, !.active = active]],
         "ingredient_update", NoOrder)
    /\ UNCHANGED <<movements, initialized>>

\* InventoryService.update: archives only what is used up.
UpdateIngredient(i, threshold, active) ==
    /\ ingredient[i].exists
    /\ active \/ ingredient[i].quantity = 0
    /\ RecordTransition({i}, [j \in {i} |->
         [ingredient[i] EXCEPT !.threshold = threshold, !.active = active]],
         "ingredient_update", NoOrder)
    /\ UNCHANGED <<movements, initialized>>

Delta(i, kind, amount) ==
    CASE kind = "receipt" -> amount
      [] kind = "waste" -> -amount
      [] kind = "count" -> amount - ingredient[i].quantity

\* Mutant: the balance keeps its version.
ChangeStockSameVersion(i, kind, amount, k) ==
    LET delta == Delta(i, kind, amount)
        after == ingredient[i].quantity + delta
    IN /\ ingredient[i].exists
       /\ kind # "count" => amount > 0
       /\ ~KeyUsed(i, k, kind)
       /\ ingredient[i].active
       /\ after \in Quantities
       /\ ingredient[i].version < MaxVersion
       /\ RecordTransition({i}, [j \in {i} |->
            [ingredient[i] EXCEPT !.quantity = after]],
            "stock_command", NoOrder)
       /\ movements' = [movements EXCEPT ![i] = Append(@,
            Movement(kind, delta, after, ingredient[i].version + 1, k, NoOrder))]
       /\ UNCHANGED initialized

\* InventoryService.change.  A count must carry the version it was taken at, so
\* a count that lost a race is refused: only one of the current version counts.
ChangeStock(i, kind, amount, k) ==
    LET delta == Delta(i, kind, amount)
        after == ingredient[i].quantity + delta
    IN /\ ingredient[i].exists
       /\ kind # "count" => amount > 0
       /\ ~KeyUsed(i, k, kind)
       /\ ingredient[i].active
       /\ after \in Quantities
       /\ ingredient[i].version < MaxVersion
       /\ RecordTransition({i}, [j \in {i} |->
            [ingredient[i] EXCEPT !.quantity = after, !.version = @ + 1]],
            "stock_command", NoOrder)
       /\ movements' = [movements EXCEPT ![i] = Append(@,
            Movement(kind, delta, after, ingredient[i].version + 1, k, NoOrder))]
       /\ UNCHANGED initialized

\* Mutant: initialization does not look for an open episode.
BaselineEveryLow(i) ==
    IF IsLow(ingredient[i])
    THEN Append(episodes[i], Episode(ingredient[i], "maintenance_initialization", NoOrder))
    ELSE episodes[i]

\* record_baseline_inventory_episode: low stock without an episode gets one that
\* is never notified.  No revision, no event.
Baseline(i) ==
    IF IsLow(ingredient[i]) /\ ~HasOpenEpisode(i)
    THEN Append(episodes[i], Episode(ingredient[i], "maintenance_initialization", NoOrder))
    ELSE episodes[i]

\* Maintenance of kind "initialize", once per restaurant.
Initialize ==
    /\ ~initialized
    /\ initialized' = TRUE
    /\ episodes' = [i \in Ingredients |-> Baseline(i)]
    /\ UNCHANGED <<ingredient, movements, events>>

\* Mutant: consumption moves stock without recording the transition.
ConsumeSilently(S, required, o) ==
    /\ \A i \in S : ingredient[i].version < MaxVersion
    /\ ingredient' = [i \in Ingredients |-> IF i \in S
         THEN [ingredient[i] EXCEPT !.quantity = @ - required[i], !.version = @ + 1]
         ELSE ingredient[i]]
    /\ movements' = [i \in Ingredients |->
         IF i \in S
         THEN Append(movements[i],
                Movement("consumption", -required[i],
                         ingredient[i].quantity - required[i],
                         ingredient[i].version + 1, NoKey, o))
         ELSE movements[i]]
    /\ UNCHANGED <<episodes, events, initialized>>

\* The ledger's half of _consume_order_stock: one movement per ingredient of S.
Consume(S, required, o) ==
    /\ \A i \in S : ingredient[i].version < MaxVersion
    /\ RecordTransition(S, [i \in S |->
         [ingredient[i] EXCEPT !.quantity = @ - required[i], !.version = @ + 1]],
         "order_acceptance", o)
    /\ movements' = [i \in Ingredients |->
         IF i \in S
         THEN Append(movements[i],
                Movement("consumption", -required[i],
                         ingredient[i].quantity - required[i],
                         ingredient[i].version + 1, NoKey, o))
         ELSE movements[i]]
    /\ UNCHANGED initialized

-----------------------------------------------------------------------------
(* Specification *)

LegacyRows ==
    {r \in [exists: {TRUE}, quantity: Quantities, version: {1},
            threshold: Thresholds, active: BOOLEAN, revision: {1}] :
        ~r.active => r.quantity = 0}

LedgerInit ==
    /\ \E legacy \in [Legacy -> LegacyRows \cup {NoRow}] :
         ingredient = [i \in Ingredients |-> IF i \in Legacy THEN legacy[i] ELSE NoRow]
    /\ movements = [i \in Ingredients |->
         IF ingredient[i].exists
         THEN <<Movement("opening", ingredient[i].quantity, ingredient[i].quantity, 1,
                         NoKey, NoOrder)>>
         ELSE <<>>]
    /\ episodes = [i \in Ingredients |-> <<>>]
    /\ events = [i \in Ingredients |-> <<>>]
    /\ initialized = FALSE

LedgerStep(i) ==
    \/ \E q \in Quantities, t \in Thresholds, k \in Keys : CreateIngredient(i, q, t, k)
    \/ \E t \in Thresholds, a \in BOOLEAN : UpdateIngredient(i, t, a)
    \/ \E kind \in {"receipt", "waste", "count"}, q \in Quantities, k \in Keys :
         ChangeStock(i, kind, q, k)

LedgerNext == Initialize \/ \E i \in Ingredients : LedgerStep(i)

LedgerSpec == LedgerInit /\ [][LedgerNext]_ledger

-----------------------------------------------------------------------------
(* Properties *)

\* Rows keep their types, and no command writes a row or a fact that a constraint
\* of the schema or of the transition facts refuses: no balance below zero or past
\* MAX_QUANTITY, no movement without its order or against its sign, no episode
\* that opens above its threshold, closes while low or is resolved in part.
LedgerTypeOK ==
    /\ ingredient \in [Ingredients -> Row]
    /\ \A i \in Ingredients :
         /\ \A n \in DOMAIN movements[i] : MovementRow(movements[i][n])
         /\ \A n \in DOMAIN episodes[i] : EpisodeRow(episodes[i][n])
         /\ \A n \in DOMAIN events[i] : TransitionFacts(i, events[i][n])
    /\ initialized \in BOOLEAN

\* The movement history explains the balance: each movement starts from the
\* balance the one before it left, versions number them without a gap, and the
\* last one is the balance and version of the row.
LedgerChain ==
    \A i \in Ingredients :
        LET m == movements[i]
            n == Len(m)
        IN /\ ingredient[i].version = n
           /\ ingredient[i].quantity = IF n = 0 THEN 0 ELSE m[n].after
           /\ \A x \in 1..n :
                /\ m[x].version = x
                /\ m[x].after = m[x].delta + (IF x = 1 THEN 0 ELSE m[x - 1].after)

\* A retried stock command is applied once: no key names two movements of an
\* ingredient.
KeyAppliedOnce ==
    \A i \in Ingredients : \A x, y \in DOMAIN movements[i] :
        movements[i][x].key = movements[i][y].key /\ movements[i][x].key # NoKey => x = y

\* An open episode means low stock, and low stock has an open episode, unless
\* the ingredient has been low since before episodes existed and the restaurant
\* is not initialized yet.  It also says that the RuntimeError of
\* record_inventory_transition is unreachable.
EpisodeMirrorsLowStock ==
    \A i \in Ingredients :
        /\ HasOpenEpisode(i) => IsLow(ingredient[i])
        /\ IsLow(ingredient[i]) /\ ~HasOpenEpisode(i) =>
             /\ movements[i][1].key = NoKey /\ ~initialized
             /\ \A n \in DOMAIN events[i] : IsLow(events[i][n])

\* Episodes are disjoint intervals of revisions, and consumers are told of each
\* of them once: an episode that may be notified has one inventory.low event, at
\* its opening revision; a baseline episode has none.
EpisodesAnnouncedOnce ==
    \A i \in Ingredients :
        LET e == episodes[i]
            lows == {n \in DOMAIN events[i] : events[i][n].type = "low"}
        IN /\ \A x \in DOMAIN e :
                /\ e[x].closing = Unresolved => x = Len(e)
                /\ e[x].closing # Unresolved => e[x].closing.revision > e[x].opened
                /\ x < Len(e) => e[x].closing.revision < e[x + 1].opened
           /\ \A n \in lows : \E x \in DOMAIN e :
                ~e[x].suppressed /\ e[x].opened = events[i][n].revision
           /\ \A x \in DOMAIN e : ~e[x].suppressed =>
                \E n \in lows : /\ events[i][n].revision = e[x].opened
                                /\ \A y \in lows :
                                     events[i][y].revision = e[x].opened => y = n

\* The outbox tells the whole story of an ingredient: its state events number
\* the revisions without a gap, and the last one is the state of the row.  A
\* consumer that has applied it is up to date.
EventsTellState ==
    \A i \in Ingredients :
        LET v == events[i]
            state == {n \in DOMAIN v : v[n].type = "state_changed"}
            row == ingredient[i]
        IN /\ state = {} => row.revision = IF row.exists THEN 1 ELSE 0
           /\ \A m, n \in state :
                m < n /\ (\A x \in state : x <= m \/ n <= x) =>
                    v[n].revision = v[m].revision + 1
           /\ \A n \in state : (\A x \in state : x <= n) =>
                /\ v[n].revision = row.revision /\ v[n].quantity = row.quantity
                /\ v[n].threshold = row.threshold /\ v[n].active = row.active

\* Nothing is in stock that no command can use: an archived ingredient is empty.
ArchivedIsEmpty ==
    \A i \in Ingredients : ~ingredient[i].active => ingredient[i].quantity = 0

\* The ledger can be trusted whatever commands were retried, refused or mixed:
\* balances stay in their range, the movements explain them, no key is applied
\* twice and no stock is hidden in an archived ingredient.
LedgerExplained ==
    /\ LedgerTypeOK
    /\ LedgerChain
    /\ KeyAppliedOnce
    /\ ArchivedIsEmpty

\* What the outbox and the episodes say is what the ledger holds: an episode is
\* open exactly while stock is low, each is announced once, and the state events
\* tell every revision up to the current one.
EpisodesTellLedger ==
    /\ EpisodeMirrorsLowStock
    /\ EpisodesAnnouncedOnce
    /\ EventsTellState

=============================================================================
