--------------------------- MODULE AlertProjection ---------------------------
(***************************************************************************)
(* The two consumers of inventory events on top of the ledger that writes  *)
(* them: alerts, which project episodes and current states, and the        *)
(* low-stock half of the notification sink (alerts/service.py,             *)
(* notifications/service.py, events/domain/subscriptions.py).              *)
(*                                                                         *)
(* A handler takes the restaurant's row lock first, as stock commands do,  *)
(* so its transaction is one step.  Delivery is what EventDelivery leaves: *)
(* each event is applied at most once per consumer, in any order, after    *)
(* any delay, or never.                                                    *)
(***************************************************************************)
EXTENDS InventoryLedger

VARIABLES
    alertState,     \* alert_ingredient_states
    alertEpisodes,  \* alert_episodes: the projected episodes of an ingredient
    stubs,          \* notification_stubs: the outcome by episode
    handled         \* receipts: pairs of consumer and event, by ingredient

projection == <<alertState, alertEpisodes, stubs, handled>>
alertVars == <<ledger, projection>>

\* consumers_for
SUBSCRIPTIONS == [state_changed |-> {"alerts"},
                  low |-> {"alerts", "notification_sink"}]

NoState == [revision |-> 0, quantity |-> 0, threshold |-> 0, active |-> FALSE,
            low |-> FALSE, episode |-> 0]
NoRows == [n \in {} |-> 0]

-----------------------------------------------------------------------------
(* What the ledger tells a consumer *)

\* The open episode of an ingredient by its number, 0 without one.
OpenEpisode(eps, i) ==
    IF eps[i] # <<>> /\ eps[i][Len(eps[i])].closing = Unresolved THEN Len(eps[i]) ELSE 0

\* load_inventory_state, as an alert row keeps it.
Current(rows, eps, i) ==
    [revision |-> rows[i].revision, quantity |-> rows[i].quantity,
     threshold |-> rows[i].threshold, active |-> rows[i].active,
     low |-> IsLow(rows[i]),
     episode |-> IF IsLow(rows[i]) THEN OpenEpisode(eps, i) ELSE 0]

\* The episode an event names, through the revision of its boundary.
EpisodeOf(i, e) ==
    CHOOSE n \in DOMAIN episodes[i] :
        IF e.boundary = "opened"
        THEN episodes[i][n].opened = e.revision /\ ~episodes[i][n].suppressed
        ELSE episodes[i][n].closing.revision = e.revision

\* _sync_episode copies the producer's facts as they are now.
Synced(i, n) ==
    [x \in DOMAIN alertEpisodes[i] \cup {n} |->
        IF x = n THEN episodes[i][n] ELSE alertEpisodes[i][x]]

Deliverable(i, n, consumer, type) ==
    /\ n \in DOMAIN events[i]
    /\ events[i][n].type = type
    /\ consumer \in SUBSCRIPTIONS[type]
    /\ <<consumer, n>> \notin handled[i]

Receipt(i, n, consumer) == handled' = [handled EXCEPT ![i] = @ \cup {<<consumer, n>>}]

-----------------------------------------------------------------------------
(* apply_alert_event *)

\* Mutant: only openings are synchronized.
NamesEpisodeOpened(e) == e.boundary = "opened"

\* Whether a state event carries an episode boundary.
NamesEpisode(e) == e.boundary # "none"

\* Mutant: the payload is stored, whatever its revision.
AlertStateFromPayload(i, e) ==
    [revision |-> e.revision, quantity |-> e.quantity, threshold |-> e.threshold,
     active |-> e.active, low |-> IsLow(e), episode |-> OpenEpisode(episodes, i)]

\* The row is replaced by the current state unless it is as new already.
AlertStateAfter(i, e) ==
    IF alertState[i].revision >= ingredient[i].revision
    THEN alertState[i] ELSE Current(ingredient, episodes, i)

ApplyStateChanged(i, n) ==
    LET e == events[i][n]
    IN /\ Deliverable(i, n, "alerts", "state_changed")
       /\ Receipt(i, n, "alerts")
       /\ alertEpisodes' = IF NamesEpisode(e)
                           THEN [alertEpisodes EXCEPT ![i] = Synced(i, EpisodeOf(i, e))]
                           ELSE alertEpisodes
       /\ alertState' = [alertState EXCEPT ![i] = AlertStateAfter(i, e)]
       /\ UNCHANGED <<ledger, stubs>>

ApplyLow(i, n) ==
    /\ Deliverable(i, n, "alerts", "low")
    /\ Receipt(i, n, "alerts")
    /\ alertEpisodes' =
         [alertEpisodes EXCEPT ![i] = Synced(i, EpisodeOf(i, events[i][n]))]
    /\ UNCHANGED <<ledger, alertState, stubs>>

-----------------------------------------------------------------------------
(* apply_notification_event *)

\* Mutant: an event that is not of the current revision is taken for overtaken.
OutcomeByRevision(i, e) ==
    IF ingredient[i].revision # e.revision THEN "skipped" ELSE "created"

\* A stub is created only while its episode is the open one.
Outcome(i, e) ==
    LET n == EpisodeOf(i, e)
    IN IF episodes[i][n].suppressed THEN "suppressed"
       ELSE IF ~IsLow(ingredient[i]) \/ OpenEpisode(episodes, i) # n THEN "skipped"
       ELSE "created"

ApplyNotification(i, n) ==
    LET e == events[i][n]
        x == EpisodeOf(i, e)
    IN /\ Deliverable(i, n, "notification_sink", "low")
       /\ Receipt(i, n, "notification_sink")
       /\ stubs' = IF x \in DOMAIN stubs[i] THEN stubs
                   ELSE [stubs EXCEPT ![i] =
                           [y \in DOMAIN @ \cup {x} |->
                              IF y = x THEN Outcome(i, e) ELSE @[y]]]
       /\ UNCHANGED <<ledger, alertState, alertEpisodes>>

-----------------------------------------------------------------------------
(* Maintenance *)

\* Mutant: a row of the current revision is taken to be complete.
RebuildKeepsIfNewer(row, current) == row.revision >= current.revision

\* Rows of a later revision are left alone.
RebuildKeeps(row, current) == row.revision > current.revision

\* AlertProjectionService.rebuild, from the rows rows and the episodes eps.
Rebuild(rows, eps) ==
    /\ alertEpisodes' = [i \in Ingredients |-> eps[i]]
    /\ alertState' = [i \in Ingredients |->
         IF ~rows[i].exists \/ RebuildKeeps(alertState[i], Current(rows, eps, i))
         THEN alertState[i] ELSE Current(rows, eps, i)]
    /\ UNCHANGED <<stubs, handled>>

\* EventMaintenanceService.run of kind "initialize": baseline, then rebuild.
InitializeAlerts == Initialize /\ Rebuild(ingredient', episodes')

-----------------------------------------------------------------------------
(* Specification *)

AlertInit ==
    /\ LedgerInit
    /\ alertState = [i \in Ingredients |-> NoState]
    /\ alertEpisodes = [i \in Ingredients |-> NoRows]
    /\ stubs = [i \in Ingredients |-> NoRows]
    /\ handled = [i \in Ingredients |-> {}]

ConsumerStep(i, n) ==
    \/ ApplyStateChanged(i, n)
    \/ ApplyLow(i, n)
    \/ ApplyNotification(i, n)

AlertNext ==
    \/ InitializeAlerts
    \/ \E i \in Ingredients : LedgerStep(i) /\ UNCHANGED projection
    \/ \E i \in Ingredients : \E n \in DOMAIN events[i] : ConsumerStep(i, n)

AlertSpec == AlertInit /\ [][AlertNext]_alertVars

-----------------------------------------------------------------------------
(* Properties *)

\* An alert row of the ledger's current revision is the ledger's state, with
\* its open episode: a baseline episode, which takes no revision, must not be
\* missed.  No row is ahead of the ledger.
AlertStateTrue ==
    \A i \in Ingredients :
        /\ alertState[i].revision <= ingredient[i].revision
        /\ alertState[i].revision = ingredient[i].revision /\ ingredient[i].exists =>
             alertState[i] = Current(ingredient, episodes, i)

\* In whatever order its events were handled, a consumer that has handled them
\* all knows every episode, with its resolution, and the current state.
AlertsCatchUp ==
    \A i \in Ingredients :
        (\A n \in DOMAIN events[i] : <<"alerts", n>> \in handled[i]) =>
            /\ DOMAIN alertEpisodes[i] = DOMAIN episodes[i]
            /\ \A n \in DOMAIN episodes[i] : alertEpisodes[i][n] = episodes[i][n]
            /\ events[i] # <<>> =>
                 alertState[i] = Current(ingredient, episodes, i)

\* A low-stock episode that is still open when its event has been handled was
\* notified; a stub says "skipped" only of an episode that is over; and no
\* baseline episode has a stub at all.
EpisodesNotified ==
    \A i \in Ingredients :
        /\ \A n \in DOMAIN events[i] : <<"notification_sink", n>> \in handled[i] =>
             LET x == EpisodeOf(i, events[i][n])
             IN /\ x \in DOMAIN stubs[i]
                /\ episodes[i][x].closing.revision = 0 => stubs[i][x] = "created"
        /\ \A x \in DOMAIN stubs[i] :
             /\ ~episodes[i][x].suppressed
             /\ stubs[i][x] = "skipped" => episodes[i][x].closing.revision # 0

\* The projections follow the ledger: an alert row of its revision is its state,
\* whoever has handled every event is up to date, and every episode that could
\* still be acted on was notified.
AlertsFollowLedger ==
    /\ AlertStateTrue
    /\ AlertsCatchUp
    /\ EpisodesNotified

\* No event, however late, takes the projection back: revisions never fall, a
\* projected resolution is never undone, and a stub never changes.
AlertsNeverGoBack ==
    [][\A i \in Ingredients :
         /\ alertState'[i].revision >= alertState[i].revision
         /\ \A n \in DOMAIN alertEpisodes[i] :
              /\ n \in DOMAIN alertEpisodes'[i]
              /\ alertEpisodes[i][n].closing.revision # 0 =>
                   alertEpisodes'[i][n] = alertEpisodes[i][n]
         /\ \A x \in DOMAIN stubs[i] : /\ x \in DOMAIN stubs'[i]
                                       /\ stubs'[i][x] = stubs[i][x]]_alertVars

=============================================================================
