-------------------------- MODULE InventoryScreen --------------------------
(***************************************************************************)
(* The inventory page of the browser (features/inventory/): the table of   *)
(* ingredients, its forms, the movement history and the alert views, each  *)
(* fed by requests whose answers may be late, lost or out of order.        *)
(*                                                                         *)
(* The server is reduced to a version that every change moves on, the      *)
(* movements recorded under an idempotency key, and whether the user still *)
(* has access.  A payload is what the user entered in a form.              *)
(***************************************************************************)
EXTENDS Naturals, FiniteSets

CONSTANTS
    Ingredients,
    Payloads,       \* movements and new ingredients the user may submit
    Active, Past,   \* the active alerts and their history
    AlertViews,     \* which of them are shown
    Items,          \* the view of the ingredients
    New,            \* the editor of a new ingredient
    None, Denied,
    Pages,
    MaxVersion,     \* bound: changes by other users
    MaxLoads,       \* bound: loads of a view the user or the clock asks for
    MaxKeys,        \* bound: commands
    MaxLosses       \* bound: requests lost or refused

ASSUME ScreenBounds ==
    /\ {MaxVersion, MaxLoads, MaxKeys, MaxLosses} \subseteq Nat
    /\ 0 \in Pages /\ Pages \subseteq Nat
    /\ AlertViews \subseteq {Active, Past}

ASSUME ScreenNames ==
    /\ Items \notin {Active, Past}
    /\ {New, None} \cap Ingredients = {} /\ None \notin {New, Denied}
    /\ None \notin [payload: Payloads, key: Nat] \cup [page: Pages, seen: Nat]

VARIABLES
    access, version, recorded,      \* server
    posts,          \* commands on their way to the server
    generation,     \* loadGeneration, and generation of useInventoryAlerts
    page, data, failed, loads,
    loading, denied, expanded,
    editor, selected, historyItem, history,
    command,        \* what run or showHistory is waiting for
    pending,        \* the key kept for a payload
    keys, losses,
    near, wide,     \* ghosts: which submissions are one decision of the user
    saved           \* ghost: version of the last save the table was loaded again for

server == <<access, version, recorded, posts>>
views == <<generation, page, data, failed, loads, loading, expanded>>
panels == <<editor, selected, historyItem, history>>
intents == <<near, wide, saved>>
screenVars == <<server, views, panels, denied, command, pending, keys, losses, intents>>

Views == {Items} \cup AlertViews

\* A command: what it sends, the row it reads again, the load it ends with and its answer.
Idle == [phase |-> "idle", op |-> "none", payload |-> None, key |-> 0, row |-> None, gen |-> 0,
         answer |-> None]
Busy == command.phase # "idle"
Locked == Busy \/ loading
Loss == losses < MaxLosses /\ losses' = losses + 1

\* The alerts are shown once the first page of ingredients is.
Mounted == ~denied /\ ~(loading /\ data[Items] = None)
Enabled(v) == v = Items \/ (Mounted /\ (expanded \/ v = Active))

-----------------------------------------------------------------------------
(* Loading *)

\* A view asks for its page: the alert views abort the request before.
Started(vs) ==
    /\ generation' = [v \in Views |-> generation[v] + (IF v \in vs THEN 1 ELSE 0)]
    /\ loads' = {l \in loads : l.view \in vs => l.view = Items}
                \cup {[view |-> v, gen |-> generation[v] + 1, page |-> page'[v],
                       answer |-> None] : v \in vs}

\* The interval, the focus and the refresh buttons.
Refresh(v) ==
    /\ Enabled(v) /\ ~denied /\ generation[v] < MaxLoads
    /\ v = Items => ~Busy
    /\ UNCHANGED page
    /\ Started({v})
    /\ UNCHANGED <<server, data, failed, loading, expanded, panels, denied, command,
                   pending, keys, losses, intents>>

\* Mutant: the rows of the old alert page stay.
ChangePageKeep(v, p) ==
    /\ Enabled(v) /\ ~denied /\ data[v] # None /\ p # page[v]
    /\ generation[v] < MaxLoads
    /\ v = Items => ~Locked /\ editor = None /\ selected = None
    /\ page' = [page EXCEPT ![v] = p]
    /\ Started({v})
    /\ loading' = (loading \/ v = Items)
    /\ UNCHANGED <<server, data, failed, expanded, panels, denied, command, pending, keys,
                   losses, intents>>

\* changeIngredientPage keeps the old rows, changePage drops them.
ChangePage(v, p) ==
    /\ Enabled(v) /\ ~denied /\ data[v] # None /\ p # page[v]
    /\ generation[v] < MaxLoads
    /\ v = Items => ~Locked /\ editor = None /\ selected = None
    /\ v # Items => ~\E l \in loads : l.view = v /\ l.gen = generation[v]
    /\ page' = [page EXCEPT ![v] = p]
    /\ Started({v})
    /\ data' = IF v = Items THEN data ELSE [data EXCEPT ![v] = None]
    /\ failed' = IF v = Items THEN failed ELSE [failed EXCEPT ![v] = FALSE]
    /\ loading' = (loading \/ v = Items)
    /\ historyItem' = IF v = Items THEN None ELSE historyItem
    /\ history' = IF v = Items THEN None ELSE history
    /\ UNCHANGED <<server, expanded, editor, selected, denied, command, pending, keys,
                   losses, intents>>

\* The alert history is opened, which loads it, or closed.
Expand ==
    /\ Mounted /\ Past \in AlertViews /\ generation[Past] < MaxLoads
    /\ expanded' = ~expanded
    /\ UNCHANGED page
    /\ IF expanded
       THEN /\ loads' = {l \in loads : l.view # Past}
            /\ UNCHANGED generation
       ELSE Started({Past})
    /\ UNCHANGED <<server, data, failed, loading, panels, denied, command, pending, keys,
                   losses, intents>>

Answer == IF access THEN version ELSE Denied

\* The server reads what a load asks for.
ServeLoad(l) ==
    /\ l \in loads /\ l.answer = None
    /\ loads' = (loads \ {l}) \cup {[l EXCEPT !.answer = Answer]}
    /\ UNCHANGED <<server, generation, page, data, failed, loading, expanded, panels, denied,
                   command, pending, keys, losses, intents>>

\* Mutant: requests on their way are not outdated.
AccessLostLate ==
    /\ denied' = TRUE
    /\ data' = [v \in Views |-> None]
    /\ UNCHANGED generation
    /\ editor' = None /\ selected' = None /\ historyItem' = None /\ history' = None

\* onAccessLost: everything is dropped, and the alert views go with the page.
AccessLost ==
    /\ denied' = TRUE
    /\ data' = [v \in Views |-> None]
    /\ generation' = [generation EXCEPT ![Items] = @ + 1]
    /\ editor' = None /\ selected' = None /\ historyItem' = None /\ history' = None

\* The command that reloads the table ends when its own request does.
Ends(l) == command.phase = "reload" /\ l.view = Items /\ l.gen = command.gen

\* Mutant: the last answer wins, whatever was asked since.
CurrentAny(l) == l.gen <= generation[l.view] /\ ~denied

\* An answer counts only while no newer request was made.
Current(l) == l.gen = generation[l.view]

LoadArrives(l) ==
    /\ l \in loads /\ l.answer # None
    /\ command' = IF Ends(l) THEN Idle ELSE command
    /\ IF Current(l) /\ l.answer = Denied
       THEN /\ AccessLost
            /\ loads' = {m \in loads \ {l} : m.view = Items}
            /\ UNCHANGED <<failed, loading>>
       ELSE /\ data' = IF Current(l)
                       THEN [data EXCEPT ![l.view] = [page |-> l.page, seen |-> l.answer]]
                       ELSE data
            /\ failed' = IF Current(l) THEN [failed EXCEPT ![l.view] = FALSE] ELSE failed
            /\ loading' = (loading /\ ~(Current(l) /\ l.view = Items))
            /\ loads' = loads \ {l}
            /\ UNCHANGED <<generation, panels, denied>>
    /\ UNCHANGED <<server, page, expanded, pending, keys, losses, intents>>

\* A load fails: what was shown stays, with an error.
LoadFails(l) ==
    /\ l \in loads
    /\ Loss
    /\ command' = IF Ends(l) THEN Idle ELSE command
    /\ failed' = IF Current(l) THEN [failed EXCEPT ![l.view] = TRUE] ELSE failed
    /\ loading' = (loading /\ ~(Current(l) /\ l.view = Items))
    /\ loads' = loads \ {l}
    /\ UNCHANGED <<server, generation, page, data, expanded, panels, denied, pending, keys,
                   intents>>

-----------------------------------------------------------------------------
(* Forms and history *)

OpenNew ==
    /\ ~Locked /\ ~denied /\ editor = None /\ selected = None
    /\ editor' = New
    /\ UNCHANGED <<server, views, selected, historyItem, history, denied, command, pending,
                   keys, losses, intents>>

OpenEditor(i) ==
    /\ ~Locked /\ ~denied /\ data[Items] # None
    /\ selected = None /\ editor \in {None, i}
    /\ editor' = IF editor = i THEN None ELSE i
    /\ historyItem' = IF editor # i /\ historyItem # i THEN None ELSE historyItem
    /\ history' = IF editor # i /\ historyItem # i THEN None ELSE history
    /\ UNCHANGED <<server, views, selected, denied, command, pending, keys, losses, intents>>

\* Mutant: the history of another row stays open.
OpenStockBeside(i) ==
    /\ ~Locked /\ ~denied /\ data[Items] # None
    /\ editor = None /\ selected \in {None, i}
    /\ selected' = IF selected = i THEN None ELSE i
    /\ UNCHANGED <<server, views, editor, historyItem, history, denied, command, pending, keys,
                   losses, intents>>

OpenStock(i) ==
    /\ ~Locked /\ ~denied /\ data[Items] # None
    /\ editor = None /\ selected \in {None, i}
    /\ selected' = IF selected = i THEN None ELSE i
    /\ historyItem' = IF selected # i /\ historyItem # i THEN None ELSE historyItem
    /\ history' = IF selected # i /\ historyItem # i THEN None ELSE history
    /\ UNCHANGED <<server, views, editor, denied, command, pending, keys, losses, intents>>

CloseEditor ==
    /\ ~Locked /\ editor # None
    /\ editor' = None
    /\ UNCHANGED <<server, views, selected, historyItem, history, denied, command, pending,
                   keys, losses, intents>>

\* openHistory closes the panel of its row, or moves it there and asks.
OpenHistory(i) ==
    /\ ~Locked /\ ~denied /\ data[Items] # None
    /\ editor \in {None, i} /\ selected \in {None, i}
    /\ IF historyItem = i
       THEN historyItem' = None /\ history' = None /\ UNCHANGED <<command, failed>>
       ELSE /\ historyItem' = i /\ history' = None
            /\ failed' = [failed EXCEPT ![Items] = FALSE]
            /\ command' = [Idle EXCEPT !.phase = "history", !.row = i]
    /\ UNCHANGED <<server, generation, page, data, loads, loading, expanded, editor, selected,
                   denied, pending, keys, losses, intents>>

\* The movements are set without asking what is shown by now; a failure of any kind
\* is only an error beside them.
Movements ==
    \/ history' = command.row /\ UNCHANGED losses
    \/ ~access /\ UNCHANGED <<history, losses>>
    \/ Loss /\ UNCHANGED history

\* showHistory ends.
HistoryArrives ==
    /\ command.phase = "history"
    /\ Movements
    /\ command' = Idle
    /\ UNCHANGED <<server, views, editor, selected, historyItem, denied, pending, keys, intents>>

-----------------------------------------------------------------------------
(* Saving *)

\* keyFor: the key of the same payload is used again.
KeyFor(p) == IF pending # None /\ pending.payload = p THEN pending.key ELSE keys + 1

\* The decision a submission belongs to: by the last one, or by any without an outcome.
NearOf(p) == IF near # None /\ near.payload = p THEN near.intent ELSE keys + 1
WideOf(p) == IF wide[p] # 0 THEN wide[p] ELSE keys + 1

\* saveIngredient of a new one, saveStock: a POST under a key.  saveStock reads the
\* movements again when they are open under its row.
Submit(p) ==
    /\ ~Locked /\ ~denied
    /\ editor = New \/ selected # None
    /\ keys < MaxKeys
    /\ LET key == KeyFor(p)
       IN /\ keys' = keys + 1
          /\ pending' = [payload |-> p, key |-> key]
          /\ command' = [Idle EXCEPT !.phase = "sent", !.op = "post", !.payload = p, !.key = key,
                                     !.row = IF historyItem = selected THEN selected ELSE None]
          /\ posts' = posts \cup {[payload |-> p, key |-> key, near |-> NearOf(p),
                                   wide |-> WideOf(p), live |-> TRUE]}
    /\ near' = [payload |-> p, intent |-> NearOf(p)]
    /\ wide' = [wide EXCEPT ![p] = WideOf(p)]
    /\ failed' = [failed EXCEPT ![Items] = FALSE]
    /\ UNCHANGED <<access, version, recorded, generation, page, data, loads, loading, expanded,
                   panels, denied, losses, saved>>

\* run with an action that has no key.
Command(op, row) ==
    /\ ~Locked /\ ~denied /\ data[Items] # None
    /\ keys < MaxKeys
    /\ keys' = keys + 1
    /\ command' = [Idle EXCEPT !.phase = "sent", !.op = op, !.row = row]
    /\ near' = None
    /\ failed' = [failed EXCEPT ![Items] = FALSE]
    /\ UNCHANGED <<server, generation, page, data, loads, loading, expanded, panels, denied,
                   pending, losses, wide, saved>>

\* saveIngredient of a known one, archive and restore.
Update == selected = None /\ editor # New /\ Command("update", None)

\* "Refresh count" in the stock form.
Recount == selected # None /\ Command("recount", selected)

\* The server handles a POST: a key that is known is answered from the record.
ServePost(p) ==
    /\ p \in posts
    /\ posts' = posts \ {p}
    /\ IF access /\ p.key \notin {r.key : r \in recorded}
       THEN /\ version' = version + 1
            /\ recorded' = recorded \cup
                   {[key |-> p.key, near |-> p.near, wide |-> p.wide]}
            /\ command' = IF p.live THEN [command EXCEPT !.answer = version + 1] ELSE command
       ELSE /\ UNCHANGED <<version, recorded>>
            /\ command' = IF p.live THEN [command EXCEPT !.answer = Answer] ELSE command
    /\ UNCHANGED <<access, views, panels, denied, pending, keys, losses, intents>>

\* The server handles an update, or reads the rows for a recount.
ServeCommand ==
    /\ command.phase = "sent" /\ command.op # "post" /\ command.answer = None
    /\ IF access /\ command.op = "update"
       THEN /\ version' = version + 1
            /\ command' = [command EXCEPT !.answer = version + 1]
       ELSE /\ command' = [command EXCEPT !.answer = Answer]
            /\ UNCHANGED version
    /\ UNCHANGED <<access, recorded, posts, views, panels, denied, pending, keys, losses, intents>>

\* What the action of run does with its answer, before run asks whether access was lost.
Applied ==
    IF command.op = "recount"
    THEN /\ data' = [data EXCEPT ![Items] = [page |-> page[Items], seen |-> command.answer]]
         /\ selected' \in {command.row, None}
         /\ UNCHANGED editor
    ELSE editor' = None /\ selected' = None /\ UNCHANGED data

\* The key is given up, and what is sent next is another decision.
KeyGivenUp ==
    /\ pending' = None
    /\ near' = None
    /\ wide' = IF command.op = "post" THEN [wide EXCEPT ![command.payload] = 0] ELSE wide

\* Mutant: the table is not asked for again.
SucceedsAlertsOnly ==
    /\ KeyGivenUp
    /\ saved' = IF command.op = "recount" THEN saved ELSE command.answer
    /\ UNCHANGED page
    /\ Started({v \in AlertViews : Enabled(v)})
    /\ command' = Idle

\* run after its action: the key is spent, the alerts and the table load again.
Succeeds ==
    /\ KeyGivenUp
    /\ saved' = IF command.op = "recount" THEN saved ELSE command.answer
    /\ UNCHANGED page
    /\ Started({v \in Views : Enabled(v)})
    /\ command' = [command EXCEPT !.phase = "reload", !.gen = generation[Items] + 1]

Proceeds ==
    \/ /\ denied
       /\ command' = Idle
       /\ UNCHANGED <<generation, page, loads, pending, intents>>
    \/ ~denied /\ Succeeds

\* The command was carried out.  Until the movements are there, loads that began before
\* it still count.
CommandAnswered ==
    /\ command.phase = "sent" /\ command.answer \notin {None, Denied}
    /\ Applied
    /\ IF command.op = "post" /\ command.row # None
       THEN /\ command' = [command EXCEPT !.phase = "refetch"]
            /\ UNCHANGED <<generation, page, loads, pending, intents>>
       ELSE Proceeds
    /\ UNCHANGED <<server, failed, loading, expanded, historyItem, history, denied, keys, losses>>

\* saveStock read the movements again, or could not.
RefetchArrives ==
    /\ command.phase = "refetch"
    /\ Movements
    /\ Proceeds
    /\ UNCHANGED <<server, data, failed, loading, expanded, editor, selected, historyItem,
                   denied, keys>>

CommandDenied ==
    /\ command.phase = "sent" /\ command.answer = Denied
    /\ AccessLost
    /\ command' = Idle
    /\ loads' = {l \in loads : l.view = Items}
    /\ UNCHANGED <<server, page, failed, loading, expanded, pending, keys, losses, intents>>

\* Mutant: any failure gives the key up.
CommandLostKey ==
    /\ command.phase = "sent"
    /\ Loss
    /\ command' = Idle
    /\ pending' = None
    /\ posts' = {[p EXCEPT !.live = FALSE] : p \in posts}
    /\ failed' = [failed EXCEPT ![Items] = TRUE]
    /\ UNCHANGED <<access, version, recorded, generation, page, data, loads, loading, expanded,
                   panels, denied, keys, intents>>

\* The answer is lost or a server error: the key is kept, and the request may still
\* be carried out.
CommandLost ==
    /\ command.phase = "sent"
    /\ Loss
    /\ command' = Idle
    /\ posts' = {[p EXCEPT !.live = FALSE] : p \in posts}
    /\ failed' = [failed EXCEPT ![Items] = TRUE]
    /\ UNCHANGED <<access, version, recorded, generation, page, data, loads, loading, expanded,
                   panels, denied, pending, keys, intents>>

\* The server refuses the command (a status below 500).
CommandRefused ==
    /\ command.phase = "sent" /\ command.answer = None
    /\ Loss
    /\ command' = Idle
    /\ posts' = {p \in posts : ~p.live}
    /\ KeyGivenUp
    /\ failed' = [failed EXCEPT ![Items] = TRUE]
    /\ UNCHANGED <<access, version, recorded, generation, page, data, loads, loading, expanded,
                   panels, denied, keys, saved>>

-----------------------------------------------------------------------------
(* The server without this page *)

OthersChange ==
    /\ version < MaxVersion
    /\ version' = version + 1
    /\ UNCHANGED <<access, recorded, posts, views, panels, denied, command, pending, keys,
                   losses, intents>>

AccessWithdrawn ==
    /\ access /\ Loss
    /\ access' = FALSE
    /\ UNCHANGED <<version, recorded, posts, views, panels, denied, command, pending, keys,
                   intents>>

-----------------------------------------------------------------------------
ScreenInit ==
    /\ access = TRUE /\ version = 0 /\ recorded = {} /\ posts = {}
    /\ generation = [v \in Views |-> IF v = Items THEN 1 ELSE 0]
    /\ page = [v \in Views |-> 0]
    /\ data = [v \in Views |-> None]
    /\ failed = [v \in Views |-> FALSE]
    /\ loads = {[view |-> Items, gen |-> 1, page |-> 0, answer |-> None]}
    /\ loading = TRUE /\ denied = FALSE /\ expanded = FALSE
    /\ editor = None /\ selected = None /\ historyItem = None /\ history = None
    /\ command = Idle
    /\ pending = None
    /\ keys = 0 /\ losses = 0
    /\ near = None /\ wide = [p \in Payloads |-> 0] /\ saved = 0

Network ==
    \/ \E l \in loads : ServeLoad(l) \/ LoadArrives(l) \/ LoadFails(l)
    \/ \E p \in posts : ServePost(p)
    \/ ServeCommand \/ CommandAnswered \/ RefetchArrives \/ CommandDenied
    \/ CommandLost \/ CommandRefused \/ HistoryArrives

User ==
    \/ \E v \in Views : Refresh(v) \/ \E p \in Pages : ChangePage(v, p)
    \/ Expand \/ OpenNew \/ CloseEditor
    \/ \E i \in Ingredients : OpenEditor(i) \/ OpenStock(i) \/ OpenHistory(i)
    \/ \E p \in Payloads : Submit(p)
    \/ Update \/ Recount

ScreenNext == Network \/ User \/ OthersChange \/ AccessWithdrawn

ScreenSpec == ScreenInit /\ [][ScreenNext]_screenVars

-----------------------------------------------------------------------------
(* Properties *)

\* Every variable keeps its type, and a command holds at most one live POST.
ScreenTypeOK ==
    /\ access \in BOOLEAN /\ denied \in BOOLEAN /\ loading \in BOOLEAN
    /\ \A v \in Views : page[v] \in Pages
    /\ editor \in {None, New} \cup Ingredients
    /\ {selected, historyItem, history} \subseteq {None} \cup Ingredients
    /\ command.phase \in {"idle", "sent", "refetch", "history", "reload"}
    /\ Cardinality({p \in posts : p.live}) <= 1
    /\ pending # None => pending.key \in 1 .. keys
    /\ \A r \in recorded : r.key \in 1 .. keys

\* A submission that is repeated unchanged because its outcome is unknown is recorded
\* once, even when the first request is carried out after the second.
UnchangedRetryOnce == \A r, s \in recorded : r.near = s.near => r = s

\* "Retain the key after uncertain server failures so retrying cannot record a second
\* movement if the first response was lost" (run), whatever the user did in between.
RetryRecordsOnce == \A r, s \in recorded : r.wide = s.wide => r = s

\* "Obsolete responses cannot restore old scope/data" (useInventoryAlerts).
AlertsMatchPage == \A v \in AlertViews : data[v] # None => data[v].page = page[v]

\* Once the page knows that access is gone, no request on its way may be shown any more
\* and nothing can be edited, whatever arrives.
NothingAfterAccessLost ==
    denied => /\ ~\E l \in loads : Current(l)
              /\ \A v \in AlertViews : data[v] = None
              /\ editor = None

\* The panels that are open belong to one row, and the movements to the row they are under.
PanelsBelongToOneRow ==
    /\ selected # None => editor = None /\ historyItem \in {None, selected}
    /\ editor \in Ingredients => historyItem \in {None, editor}
    /\ historyItem # None /\ history # None => history = historyItem

\* What the page shows and sends belongs together: an unchanged retry is recorded
\* once, panels and alerts belong to their row and page, and no request counts after
\* access was lost.
PageConsistent ==
    /\ ScreenTypeOK
    /\ UnchangedRetryOnce
    /\ AlertsMatchPage
    /\ NothingAfterAccessLost
    /\ PanelsBelongToOneRow

\* A recount is being answered: it sets its rows whatever was shown.
Recounted == command.phase = "sent" /\ command.op = "recount"

\* "prevent stale overlapping requests from replacing newer results" (milestone-8-task.md:431)
RowsNeverGoBack ==
    ~Recounted =>
      \A v \in Views :
        data[v] # None /\ data'[v] # None => data'[v].seen >= data[v].seen

\* Rows that are set, by a recount too, are not from before a save the table was loaded
\* again for.
RowsShowSaves ==
    data'[Items] # data[Items] /\ data'[Items] # None => data'[Items].seen >= saved

\* A command ends with rows that show it, or with an error.
ReloadShowsSave ==
    command.phase = "reload" /\ command'.phase # "reload" /\ ~denied' =>
      failed'[Items] \/ (data'[Items] # None /\ data'[Items].seen >= saved)

\* Access that is lost stays lost.  Only a recount that was on its way still sets rows
\* then, and the page renders its notice instead of them.
LostForGood ==
    denied => denied' /\ (data' # data \/ selected' # selected => Recounted)

\* Whatever order loads, saves, recounts and the loss of access are answered in.
LateAnswersStayOut ==
    [][RowsNeverGoBack /\ RowsShowSaves /\ ReloadShowsSave /\ LostForGood]_screenVars

=============================================================================
