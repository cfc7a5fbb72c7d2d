----------------------------- MODULE OrderStock -----------------------------
(***************************************************************************)
(* Orders, menu items and recipes of one restaurant on top of its ledger   *)
(* (orders/service.py, orders/domain/policies.py, recipes/service.py,      *)
(* catalog/service.py).  Order, recipe and menu item writes take the same  *)
(* restaurant row lock as stock commands and re-read their rows under it,  *)
(* so each of them is one step too; a refused command rolls back and is no *)
(* step at all.                                                            *)
(*                                                                         *)
(* An order's lines are a basket: portions per menu item, which is how     *)
(* _stock_rows reads them.  Its total, computed from prices the lines keep,*)
(* changes only with the basket and is not kept apart from it.  Payment    *)
(* status, table, customer and notes matter to one thing, the revision:    *)
(* they are a single detail that a command may change.                     *)
(***************************************************************************)
EXTENDS InventoryLedger, FiniteSetsExt

CONSTANTS
    Orders,         \* identities of orders
    MenuItems,      \* items of the restaurant's menus
    OrderKeys,      \* idempotency keys of order submissions
    MaxPortions,    \* bound: portions of an item in an order
    MaxDetail,      \* bound: changes of an order's other fields
    MaxNeed,        \* bound: quantity of an ingredient in a recipe
    MaxOrderRevision \* bound: revisions of an order

ASSUME OrderAssumption ==
    /\ NoOrder \notin Orders /\ NoKey \notin OrderKeys
    /\ IsFiniteSet(MenuItems)
    /\ MaxPortions \in Nat \ {0} /\ MaxNeed \in Nat \ {0}
    /\ MaxDetail \in Nat /\ MaxOrderRevision \in Nat

VARIABLES
    order,          \* orders, with their lines
    submission,     \* order_submissions, by key
    orderEvents,    \* outbox events of each order, in order
    menuItem        \* menu_items with their recipe_components

orders == <<order, submission, orderEvents, menuItem>>
stockVars == <<ledger, orders>>

Baskets == [MenuItems -> 0..MaxPortions] \ {[m \in MenuItems |-> 0]}
Recipes == [Ingredients -> 0..MaxNeed]
NoRecipe == [i \in Ingredients |-> 0]
NoBasket == [m \in MenuItems |-> 0]

\* ORDER_TRANSITIONS
ORDER_TRANSITIONS ==
    [DRAFT |-> {"SUBMITTED", "CANCELLED"},
     SUBMITTED |-> {"ACCEPTED", "CANCELLED"},
     ACCEPTED |-> {"PREPARING", "CANCELLED"},
     PREPARING |-> {"READY", "CANCELLED"},
     READY |-> {"COMPLETED", "CANCELLED"},
     COMPLETED |-> {},
     CANCELLED |-> {}]

OrderStatuses == DOMAIN ORDER_TRANSITIONS
NoOrderRow == [status |-> "absent", basket |-> NoBasket, revision |-> 0,
               processed |-> FALSE, detail |-> 0, key |-> NoKey]

Exists(o) == order[o].status \in OrderStatuses
NoItem == [state |-> "absent", available |-> FALSE, tracked |-> FALSE, recipe |-> NoRecipe]
NoSubmission == [used |-> FALSE, order |-> NoOrder]

OrderEvent(type, revision, basket) ==
    [type |-> type, revision |-> revision, basket |-> basket]

-----------------------------------------------------------------------------
(* _stock_rows *)

\* Every item of a basket is on a menu and available, where _build_order_items
\* and _stock_rows raise.
Orderable(b) ==
    \A m \in MenuItems : b[m] > 0 => menuItem[m].state = "live" /\ menuItem[m].available

\* Mutant: a recipe is consumed even where tracking is switched off.
TrackedAny(b) == {m \in MenuItems : b[m] > 0}

\* The items of a basket that inventory tracks.
Tracked(b) == {m \in MenuItems : b[m] > 0 /\ menuItem[m].tracked}

\* The sum of the weights w of S's elements.
SumOver(w, S) == MapThenSumSet(LAMBDA x : w[x], S)

\* What the portions of each item need of an ingredient.
Need(b, i) == [m \in MenuItems |-> b[m] * menuItem[m].recipe[i]]

\* The exact quantity of each ingredient a basket requires.
Required(b) == [i \in Ingredients |-> SumOver(Need(b, i), Tracked(b))]

Components(b) == {i \in Ingredients : Required(b)[i] > 0}

\* What is available of an ingredient: nothing of an archived one.
Available(i) == IF ingredient[i].active THEN ingredient[i].quantity ELSE 0

\* Mutant: one ingredient in sufficient supply is enough.
StockCoversAny(b) ==
    /\ Orderable(b)
    /\ \A m \in Tracked(b) : menuItem[m].recipe # NoRecipe
    /\ Components(b) # {} => \E i \in Components(b) : Available(i) >= Required(b)[i]

\* The checks of _stock_rows, where _check_stock and _consume_order_stock raise.
StockCovers(b) ==
    /\ Orderable(b)
    /\ \A m \in Tracked(b) : menuItem[m].recipe # NoRecipe
    /\ \A i \in Components(b) : Available(i) >= Required(b)[i]

-----------------------------------------------------------------------------
(* OrderService *)

\* OrderService.create.  A used key is answered from its submission, also when
\* the order is gone; nothing is reserved.
CreateOrder(o, b, k) ==
    /\ order[o].status = "absent"
    /\ ~submission[k].used
    /\ Orderable(b) /\ StockCovers(b)
    /\ order' = [order EXCEPT ![o] =
         [status |-> "DRAFT", basket |-> b, revision |-> 1, processed |-> FALSE,
          detail |-> 0, key |-> k]]
    /\ submission' = [submission EXCEPT ![k] = [used |-> TRUE, order |-> o]]
    /\ UNCHANGED <<ledger, orderEvents, menuItem>>

\* Mutant: a status may be skipped.
MayBecomeAny(current, requested) ==
    requested = current \/ ORDER_TRANSITIONS[current] # {}

\* ensure_valid_order_transition; repeating the current status is allowed.
MayBecome(current, requested) ==
    requested = current \/ requested \in ORDER_TRANSITIONS[current]

\* The status changes that are announced.
Announced == [SUBMITTED |-> "submitted", ACCEPTED |-> "accepted",
              COMPLETED |-> "completed", CANCELLED |-> "cancelled"]

\* ensure_order_items_mutable, by the status the command has just assigned.
ItemsMutable(before, after) == after.status = "DRAFT"

\* Mutant: the revision counts changes of lines and details only.
NextRevisionOfContent(before, after) ==
    IF after.basket # before.basket \/ after.detail # before.detail
    THEN before.revision + 1 ELSE before.revision

\* _order_state and next_order_revision
NextRevision(before, after) ==
    IF after # before THEN before.revision + 1 ELSE before.revision

\* The row, and its announcement, as update leaves them.
Updated(o, row) ==
    LET before == order[o]
        after == [row EXCEPT !.revision = NextRevision(before, row)]
    IN /\ after.revision <= MaxOrderRevision
       /\ order' = [order EXCEPT ![o] = after]
       /\ orderEvents' =
            IF after.status # before.status /\ after.status \in DOMAIN Announced
            THEN [orderEvents EXCEPT ![o] = Append(@,
                    OrderEvent(Announced[after.status], after.revision, after.basket))]
            ELSE orderEvents
       /\ UNCHANGED <<submission, menuItem>>

\* OrderService.update without a move to ACCEPTED: s is the status asked for, b
\* the lines, detail everything else.  The current status and lines stand for a
\* command that leaves them out; repeating the status has no other effect than
\* that, where it is not refused.
UpdateOrder(o, s, b, detail) ==
    LET before == order[o]
        after == [before EXCEPT !.status = s, !.basket = b, !.detail = detail]
    IN /\ Exists(o)
       /\ MayBecome(before.status, s)
       /\ s = "ACCEPTED" => before.status = "ACCEPTED"
       /\ s = "SUBMITTED" /\ s # before.status => StockCovers(before.basket)
       /\ b # before.basket => /\ ItemsMutable(before, after)
                               /\ Orderable(b) /\ StockCovers(b)
       /\ Updated(o, after)
       /\ UNCHANGED ledger

\* OrderService.update that moves an order to ACCEPTED: the one place where
\* orders take stock, all ingredients or none.  Lines cannot change with it.
AcceptOrder(o, detail) ==
    LET before == order[o]
        S == Components(before.basket)
    IN /\ Exists(o)
       /\ before.status # "ACCEPTED" /\ MayBecome(before.status, "ACCEPTED")
       /\ StockCovers(before.basket)
       /\ Consume(S, Required(before.basket), o)
       /\ Updated(o, [before EXCEPT !.status = "ACCEPTED", !.processed = TRUE,
                                    !.detail = detail])

\* Mutant: any order may be deleted.
HasOrderHistoryNever(o) == FALSE

\* has_order_history
HasOrderHistory(o) ==
    \E i \in Ingredients : \E n \in DOMAIN movements[i] : movements[i][n].order = o

\* Mutant: the submission goes with its order.
SubmissionsCascaded(o) ==
    [k \in OrderKeys |-> IF submission[k].order = o THEN NoSubmission ELSE submission[k]]

\* The foreign key of order_submissions is ON DELETE SET NULL.
SubmissionsAfterDelete(o) ==
    [k \in OrderKeys |-> IF submission[k].order = o
                         THEN [submission[k] EXCEPT !.order = NoOrder]
                         ELSE submission[k]]

\* OrderService.delete, with its final event.
DeleteOrder(o) ==
    /\ Exists(o)
    /\ ~HasOrderHistory(o)
    /\ orderEvents' = [orderEvents EXCEPT ![o] = Append(@,
         OrderEvent("deleted", order[o].revision + 1, order[o].basket))]
    /\ order' = [order EXCEPT ![o].status = "deleted"]
    /\ submission' = SubmissionsAfterDelete(o)
    /\ UNCHANGED <<ledger, menuItem>>

-----------------------------------------------------------------------------
(* Menu items and recipes *)

\* CatalogService.create_menu_item
CreateMenuItem(m, available) ==
    /\ menuItem[m].state = "absent"
    /\ menuItem' = [menuItem EXCEPT ![m].state = "live", ![m].available = available]
    /\ UNCHANGED <<ledger, order, submission, orderEvents>>

\* RecipesService.replace
ReplaceRecipe(m, tracked, recipe) ==
    /\ menuItem[m].state = "live"
    /\ tracked => recipe # NoRecipe
    /\ \A i \in Ingredients : recipe[i] > 0 => ingredient[i].exists /\ ingredient[i].active
    /\ menuItem' = [menuItem EXCEPT ![m].tracked = tracked, ![m].recipe = recipe]
    /\ UNCHANGED <<ledger, order, submission, orderEvents>>

\* CatalogService.update_menu_item, of its availability
SetAvailability(m, available) ==
    /\ menuItem[m].state = "live"
    /\ menuItem' = [menuItem EXCEPT ![m].available = available]
    /\ UNCHANGED <<ledger, order, submission, orderEvents>>

\* Mutant: only open orders keep a menu item.
OrderedOpenly(m) ==
    \E o \in Orders : order[o].status = "DRAFT" /\ order[o].basket[m] > 0

\* menu_item_has_order_history
Ordered(m) == \E o \in Orders : Exists(o) /\ order[o].basket[m] > 0

\* CatalogService.delete_menu_item: what was ordered is only deactivated.
DeleteMenuItem(m) ==
    /\ menuItem[m].state = "live"
    /\ menuItem' = IF Ordered(m)
                   THEN [menuItem EXCEPT ![m].available = FALSE]
                   ELSE [menuItem EXCEPT ![m].state = "deleted", ![m].recipe = NoRecipe]
    /\ UNCHANGED <<ledger, order, submission, orderEvents>>

-----------------------------------------------------------------------------
(* Specification *)

StockInit ==
    /\ LedgerInit
    /\ order = [o \in Orders |-> NoOrderRow]
    /\ submission = [k \in OrderKeys |-> NoSubmission]
    /\ orderEvents = [o \in Orders |-> <<>>]
    /\ menuItem = [m \in MenuItems |-> NoItem]

OrderStep(o) ==
    \/ \E b \in Baskets, k \in OrderKeys : CreateOrder(o, b, k)
    \/ \E s \in OrderStatuses, b \in Baskets, d \in order[o].detail..MaxDetail :
         UpdateOrder(o, s, b, d)
    \/ \E d \in order[o].detail..MaxDetail : AcceptOrder(o, d)
    \/ DeleteOrder(o)

MenuStep(m) ==
    \/ \E a \in BOOLEAN : CreateMenuItem(m, a)
    \/ \E t \in BOOLEAN, r \in Recipes : ReplaceRecipe(m, t, r)
    \/ \E a \in BOOLEAN : SetAvailability(m, a)
    \/ DeleteMenuItem(m)

StockNext ==
    \/ LedgerNext /\ UNCHANGED orders
    \/ \E o \in Orders : OrderStep(o)
    \/ \E m \in MenuItems : MenuStep(m)

StockSpec == StockInit /\ [][StockNext]_stockVars

-----------------------------------------------------------------------------
(* Properties *)

Movements(o, i) == {n \in DOMAIN movements[i] : movements[i][n].order = o}

\* Orders and submissions keep their types, and a submission names a live order
\* or none.
OrdersTypeOK ==
    /\ \A k \in OrderKeys : submission[k].order # NoOrder =>
         submission[k].used /\ Exists(submission[k].order)
    /\ \A o \in Orders :
        /\ order[o].status \in OrderStatuses \cup {"absent", "deleted"}
        /\ order[o].basket \in Baskets \cup {NoBasket}
        /\ order[o].revision \in Nat /\ order[o].processed \in BOOLEAN
        /\ order[o].key \in OrderKeys \cup {NoKey}

\* Stock is consumed once per order and ingredient, by exactly the orders that
\* were accepted: an order that is being prepared has been charged, one that was
\* never accepted has not, and no deleted order leaves movements behind.  (An
\* order without a key was completed before orders consumed stock.)
ConsumedOncePerOrder ==
    \A o \in Orders :
        /\ \A i \in Ingredients : Cardinality(Movements(o, i)) <= 1
        /\ order[o].status \in {"ACCEPTED", "PREPARING", "READY", "COMPLETED"} =>
             order[o].processed \/ order[o].key = NoKey
        /\ order[o].status \in {"absent", "DRAFT", "SUBMITTED"} => ~order[o].processed
        /\ (\E i \in Ingredients : Movements(o, i) # {}) => Exists(o) /\ order[o].processed

\* One submission, one order: a key never creates a second order, not even
\* after the first was deleted.
OneOrderPerKey ==
    \A o, p \in Orders : order[o].key = order[p].key /\ order[o].key # NoKey => o = p

\* Consumers order an order's events by revision: revisions grow with every
\* event, none is ahead of the row, and a deletion comes last of all.
OrderEventsOrdered ==
    \A o \in Orders :
        LET e == orderEvents[o]
        IN /\ \A x, y \in DOMAIN e : x < y => e[x].revision < e[y].revision
           /\ \A x \in DOMAIN e : /\ e[x].type = "deleted" => x = Len(e)
                                  /\ e[x].type # "deleted" => e[x].revision <= order[o].revision

\* What was announced stands: the lines an order was submitted with are the
\* ones it was accepted, completed and deleted with (analytics adds and removes
\* the totals of these events).
AnnouncedLinesStand ==
    \A o \in Orders : \A x \in DOMAIN orderEvents[o] :
        orderEvents[o][x].type # "deleted" => orderEvents[o][x].basket = order[o].basket

\* Every line of an order still has its menu item, so that no order is stuck on
\* "An order item no longer has a menu item".
OrderedItemsRemain ==
    \A o \in Orders : \A m \in MenuItems :
        Exists(o) /\ order[o].basket[m] > 0 => menuItem[m].state = "live"

\* Whatever is retried, deleted or cancelled, stock is consumed once for exactly
\* the accepted orders, a submission makes one order, what was ordered keeps its
\* menu item, and orders leave the ledger and its episodes as true as stock
\* commands do; and what consumers are told of an order can be put in
\* order and stands.
OrdersAccounted ==
    /\ OrdersTypeOK
    /\ LedgerExplained
    /\ EpisodesTellLedger
    /\ ConsumedOncePerOrder
    /\ OneOrderPerKey
    /\ OrderedItemsRemain
    /\ OrderEventsOrdered
    /\ AnnouncedLinesStand

\* An acceptance takes what the recipes ask for, from every ingredient or from
\* none, and no other order command touches the stock.
AcceptanceTakesRecipe ==
    [][\A o \in Orders :
         order'[o] # order[o] =>
           \A i \in Ingredients :
             ingredient[i].quantity - ingredient'[i].quantity =
               IF order[o].status # "ACCEPTED" /\ order'[o].status = "ACCEPTED"
               THEN SumOver(Need(order[o].basket, i), {m \in MenuItems : menuItem[m].tracked})
               ELSE 0]_stockVars

\* Statuses only move forward along ORDER_TRANSITIONS, and every change of an
\* order a client can see has a new revision.
OrderMovesForward ==
    [][\A o \in Orders : Exists(o) /\ order'[o] # order[o] /\ order'[o].status # "deleted" =>
         /\ \/ order'[o].status = order[o].status
            \/ order'[o].status \in ORDER_TRANSITIONS[order[o].status]
         /\ order'[o].revision = order[o].revision + 1]_stockVars

=============================================================================
