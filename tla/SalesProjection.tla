--------------------------- MODULE SalesProjection ---------------------------
(***************************************************************************)
(* The analytics consumer on top of the orders that feed it                *)
(* (analytics/service.py, analytics/domain/projection.py,                  *)
(* analytics/repo/projection.py) and its rebuild by maintenance            *)
(* (events/maintenance.py).                                                *)
(*                                                                         *)
(* Handlers and rebuilds take the restaurant's row lock, so each is one    *)
(* step.  An event is applied at most once, in any order, after any delay, *)
(* or never (EventDelivery).  Every portion has the same price.            *)
(***************************************************************************)
EXTENDS OrderStock

CONSTANTS
    LegacyOrders,   \* orders that may have been completed before the outbox existed
    Days,           \* UTC dates on which orders are created
    Price           \* price of a portion

ASSUME SalesAssumption ==
    LegacyOrders \subseteq Orders /\ IsFiniteSet(Orders) /\ Price \in Nat

VARIABLES
    created,        \* creation date of each order
    contribution,   \* analytics_order_contributions
    daily,          \* analytics_daily_sales
    applied         \* receipts: the events of each order analytics has handled

sales == <<created, contribution, daily, applied>>
salesVars == <<stockVars, sales>>

Total(b) == SumOver([m \in MenuItems |-> Price * b[m]], MenuItems)

Contribution(revision, total, state) ==
    [revision |-> revision, total |-> total, state |-> state]
NoContribution == Contribution(0, 0, "none")
NoSales == [count |-> 0, sales |-> 0]

Count(c) == IF c.state = "completed" THEN 1 ELSE 0

\* What each order adds to the totals of its day.
Counts(c) == [o \in Orders |-> Count(c[o])]
Earned(c) == [o \in Orders |-> Count(c[o]) * c[o].total]

\* Orders' contributions summed by creation date.
DailyOf(contributions) ==
    [day \in Days |->
        LET S == {o \in Orders : created[o] = day}
        IN [count |-> SumOver(Counts(contributions), S),
            sales |-> SumOver(Earned(contributions), S)]]

-----------------------------------------------------------------------------
(* apply_order_event *)

Incoming(e) ==
    IF e.type = "completed" THEN Contribution(e.revision, Total(e.basket), "completed")
    ELSE Contribution(e.revision, 0, "deleted")

\* Mutant: events are applied in the order they arrive.
ShouldApplyAlways(current, incoming) == TRUE

\* should_apply: newer revisions only, and nothing after a deletion.
ShouldApply(current, incoming) ==
    \/ current.state = "none"
    \/ current.state # "deleted" /\ incoming.revision > current.revision

\* Mutant: what the order contributed before is not taken back.
DailyAfterAdding(o, current, incoming) ==
    [daily EXCEPT ![created[o]] =
        [count |-> @.count + Count(incoming),
         sales |-> @.sales + Count(incoming) * incoming.total]]

\* delta, backwards for the current contribution and forwards for the new one.
DailyAfter(o, current, incoming) ==
    [daily EXCEPT ![created[o]] =
        [count |-> @.count - Count(current) + Count(incoming),
         sales |-> @.sales - Count(current) * current.total
                           + Count(incoming) * incoming.total]]

ApplyOrderEvent(o, n) ==
    LET e == orderEvents[o][n]
        incoming == Incoming(e)
    IN /\ e.type \in {"completed", "deleted"}
       /\ n \notin applied[o]
       /\ applied' = [applied EXCEPT ![o] = @ \cup {n}]
       /\ IF ShouldApply(contribution[o], incoming)
          THEN /\ contribution' = [contribution EXCEPT ![o] = incoming]
               /\ daily' = DailyAfter(o, contribution[o], incoming)
          ELSE UNCHANGED <<contribution, daily>>
       /\ UNCHANGED <<stockVars, created>>

-----------------------------------------------------------------------------
(* rebuild_analytics_projection *)

\* The revision of an order's deletion, from the retained producer event.
DeletionRevision(o) == orderEvents[o][Len(orderEvents[o])].revision

HasDeletionEvent(o) ==
    orderEvents[o] # <<>> /\ orderEvents[o][Len(orderEvents[o])].type = "deleted"

\* Mutant: deleted orders leave no watermark in the baseline.
BaselineOfLiveOrders(o) ==
    IF order[o].status = "COMPLETED"
    THEN Contribution(order[o].revision, Total(order[o].basket), "completed")
    ELSE IF Exists(o) THEN Contribution(order[o].revision, 0, "inactive")
    ELSE NoContribution

\* repo.baseline: live orders by their status, deleted ones by their event.
SalesBaseline(o) ==
    CASE order[o].status = "COMPLETED" ->
           Contribution(order[o].revision, Total(order[o].basket), "completed")
      [] Exists(o) /\ order[o].status # "COMPLETED" ->
           Contribution(order[o].revision, 0, "inactive")
      [] ~Exists(o) /\ HasDeletionEvent(o) ->
           Contribution(DeletionRevision(o), 0, "deleted")
      [] OTHER -> NoContribution

\* Where it raises: a contribution whose order is gone without a trace.
BaselineComplete ==
    \A o \in Orders : SalesBaseline(o) = NoContribution =>
        contribution[o].state \in {"none", "deleted"}

RebuildAnalytics ==
    LET rebuilt == [o \in Orders |->
          IF SalesBaseline(o) = NoContribution THEN contribution[o] ELSE SalesBaseline(o)]
    IN /\ BaselineComplete
       /\ contribution' = rebuilt
       /\ daily' = DailyOf(rebuilt)
       /\ UNCHANGED <<created, applied>>

\* EventMaintenanceService.run of kind "initialize" ...
InitializeSales == Initialize /\ RebuildAnalytics /\ UNCHANGED orders

\* ... and of kind "analytics_rebuild", which wants the marker.
MaintenanceRebuild ==
    /\ initialized
    /\ RebuildAnalytics
    /\ UNCHANGED stockVars

\* repo.authoritative: the daily sales of the orders table itself.
Authoritative ==
    DailyOf([o \in Orders |->
        IF order[o].status = "COMPLETED"
        THEN Contribution(order[o].revision, Total(order[o].basket), "completed")
        ELSE NoContribution])

-----------------------------------------------------------------------------
(* Specification *)

LegacyOrder ==
    [NoOrderRow EXCEPT !.status = "COMPLETED", !.revision = 1,
                       !.basket = [m \in MenuItems |-> 1]]

LegacyItem == [state |-> "live", available |-> TRUE, tracked |-> FALSE, recipe |-> NoRecipe]

SalesInit ==
    /\ LedgerInit
    /\ submission = [k \in OrderKeys |-> NoSubmission]
    /\ orderEvents = [o \in Orders |-> <<>>]
    /\ \E old \in SUBSET LegacyOrders :
         /\ order = [o \in Orders |-> IF o \in old THEN LegacyOrder ELSE NoOrderRow]
         /\ menuItem = [m \in MenuItems |-> IF old # {} THEN LegacyItem ELSE NoItem]
    /\ created \in [Orders -> Days]
    /\ contribution = [o \in Orders |-> NoContribution]
    /\ daily = [day \in Days |-> NoSales]
    /\ applied = [o \in Orders |-> {}]

SalesNext ==
    \/ InitializeSales
    \/ MaintenanceRebuild
    \/ \E o \in Orders : OrderStep(o) /\ UNCHANGED sales
    \/ \E m \in MenuItems : MenuStep(m) /\ UNCHANGED sales
    \/ \E i \in Ingredients : LedgerStep(i) /\ UNCHANGED <<orders, sales>>
    \/ \E o \in Orders : \E n \in DOMAIN orderEvents[o] : ApplyOrderEvent(o, n)

SalesSpec == SalesInit /\ [][SalesNext]_salesVars

-----------------------------------------------------------------------------
(* Properties *)

\* The daily totals, which handlers adjust by differences, are the sum of the
\* contributions at every moment, and none of them falls below zero
\* (ck_analytics_daily_count, ck_analytics_daily_sales).
DailyAddsUp ==
    /\ daily = DailyOf(contribution)
    /\ \A day \in Days : daily[day].count >= 0 /\ daily[day].sales >= 0

\* What reconcile compares: once analytics has handled the completions and
\* deletions that were announced, and legacy orders were seeded, the projection
\* is what the orders table says.
SalesReconcile ==
    /\ \A o \in Orders : \A n \in DOMAIN orderEvents[o] :
         orderEvents[o][n].type \in {"completed", "deleted"} => n \in applied[o]
    /\ initialized \/ \A o \in Orders : Exists(o) => order[o].key # NoKey
    => daily = Authoritative

\* A rebuild never meets a contribution it cannot account for ("Missing
\* authoritative order/deletion fact").
RebuildPossible == BaselineComplete

\* The projection can be trusted, and repaired: totals add up, they are the
\* orders' own once everything announced was handled, and a rebuild is possible.
SalesMatchOrders ==
    /\ DailyAddsUp
    /\ SalesReconcile
    /\ RebuildPossible

\* Deletion is terminal: neither a late completion nor a rebuild brings a
\* deleted order's sales back, and no contribution goes back to an older
\* revision.
DeletionIsFinal ==
    [][\A o \in Orders :
         /\ contribution[o].state = "deleted" => contribution'[o] = contribution[o]
         /\ contribution'[o].revision >= contribution[o].revision]_salesVars

\* No order goes back: neither its status and revision, nor what analytics makes of it.
OrdersMoveForward ==
    /\ OrderMovesForward
    /\ DeletionIsFinal

=============================================================================
