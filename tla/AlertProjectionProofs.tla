----------------------- MODULE AlertProjectionProofs -----------------------
(***************************************************************************)
(* Proofs about AlertProjection, for every set of ingredients and keys and *)
(* every bound.                                                            *)
(*                                                                         *)
(* PInv adds to the invariant of the ledger what its consumers rely on:    *)
(* events name one episode each, whatever was recorded since; what was     *)
(* handled is projected; and a projected episode is the ledger's own, or   *)
(* it is still open in the projection and over in the ledger.              *)
(***************************************************************************)
EXTENDS AlertProjection, InventoryLedgerProofs

EpisodeRows == EpisodeRec({NoOrder})

\* Rows by episode number.
Partial(S) == UNION {[D -> S] : D \in SUBSET Nat}

StateRec == [revision: Nat, quantity: Quantities, threshold: Quantities, active: BOOLEAN,
             low: BOOLEAN, episode: Nat]
Receipts == {"alerts", "notification_sink"} \X Nat

ProjectionTyped ==
    /\ alertState \in [Ingredients -> StateRec]
    /\ alertEpisodes \in [Ingredients -> Partial(EpisodeRows)]
    /\ stubs \in [Ingredients -> Partial({"created", "skipped"})]
    /\ handled \in [Ingredients -> SUBSET Receipts]

\* No two episodes share a revision.
EpisodesApart(i) ==
    LET e == episodes[i]
    IN \A x, y \in 1 .. Len(e) : x < y =>
         e[x].opened < e[y].opened /\ e[x].closing.revision < e[y].opened

\* Every event of a boundary has its episode, every resolution its event, and
\* the revision of the row is that of an event once there is one.
EventsName(i) ==
    LET e == episodes[i]
        v == events[i]
    IN /\ \A n \in 1 .. Len(v) : v[n].type = "low" => v[n].boundary = "opened"
       /\ \A n \in 1 .. Len(v) : v[n].boundary = "opened" =>
            \E x \in 1 .. Len(e) : ~e[x].suppressed /\ e[x].opened = v[n].revision
       /\ \A x \in 1 .. Len(e) : e[x].closing.revision # 0 =>
            \E n \in 1 .. Len(v) : /\ v[n].type = "state_changed"
                                   /\ v[n].boundary = "resolved"
                                   /\ v[n].revision = e[x].closing.revision
       /\ Len(v) > 0 => \E n \in 1 .. Len(v) : /\ v[n].type = "state_changed"
                                               /\ v[n].revision = ingredient[i].revision

\* Receipts are of events that were written.
HandledWritten(i) ==
    handled[i] \subseteq {"alerts", "notification_sink"} \X (1 .. Len(events[i]))

\* The row of alerts, and the events it accounts for.
StateKnown(i) ==
    LET s == alertState[i]
        v == events[i]
    IN /\ s.revision <= ingredient[i].revision
       /\ s.revision = ingredient[i].revision /\ ingredient[i].exists =>
            s = Current(ingredient, episodes, i)
       /\ \A n \in 1 .. Len(v) :
            <<"alerts", n>> \in handled[i] /\ v[n].type = "state_changed" =>
                v[n].revision <= s.revision

\* The episodes of alerts, and the events they account for.
EpisodesKnown(i) ==
    LET e == episodes[i]
        a == alertEpisodes[i]
        v == events[i]
    IN /\ DOMAIN a \subseteq 1 .. Len(e)
       /\ \A x \in 1 .. Len(e) : e[x].suppressed => x \in DOMAIN a
       /\ \A x \in DOMAIN a :
            a[x] = e[x] \/ (a[x].closing = Unresolved /\ e[x].closing # Unresolved)
       /\ \A n \in 1 .. Len(v) : <<"alerts", n>> \in handled[i] =>
            /\ v[n].boundary = "opened" =>
                 \E x \in DOMAIN a : ~e[x].suppressed /\ e[x].opened = v[n].revision
            /\ v[n].boundary = "resolved" =>
                 \E x \in DOMAIN a : /\ e[x].closing.revision = v[n].revision
                                     /\ e[x].closing # Unresolved
                                     /\ a[x] = e[x]

\* The stubs, and the events they account for.
StubsKnown(i) ==
    LET e == episodes[i]
        b == stubs[i]
        v == events[i]
    IN /\ DOMAIN b \subseteq 1 .. Len(e)
       /\ \A x \in DOMAIN b : /\ ~e[x].suppressed
                              /\ b[x] = "skipped" => e[x].closing # Unresolved
       /\ \A n \in 1 .. Len(v) : <<"notification_sink", n>> \in handled[i] =>
            /\ v[n].boundary = "opened"
            /\ \E x \in DOMAIN b : ~e[x].suppressed /\ e[x].opened = v[n].revision

Known(i) == HandledWritten(i) /\ StateKnown(i) /\ EpisodesKnown(i) /\ StubsKnown(i)

PInv ==
    /\ LInv({NoOrder})
    /\ ProjectionTyped
    /\ \A i \in Ingredients :
         EpisodesApart(i) /\ EventsName(i) /\ Known(i)

\* What no step may undo (AlertsNeverGoBack).
Forward(i) ==
    /\ alertState'[i].revision >= alertState[i].revision
    /\ \A n \in DOMAIN alertEpisodes[i] :
         /\ n \in DOMAIN alertEpisodes'[i]
         /\ alertEpisodes[i][n].closing.revision # 0 =>
              alertEpisodes'[i][n] = alertEpisodes[i][n]
    /\ \A x \in DOMAIN stubs[i] : x \in DOMAIN stubs'[i] /\ stubs'[i][x] = stubs[i][x]

-----------------------------------------------------------------------------
(* Numbers, rows and the episode of an event *)

\* A row is its number and its content.
LEMMA PartialRows ==
  ASSUME NEW S, NEW f \in Partial(S)
  PROVE  DOMAIN f \subseteq Nat /\ f \in [DOMAIN f -> S]
  <1>1. PICK D \in SUBSET Nat : f \in [D -> S]
    BY DEF Partial
  <1> QED
    BY <1>1

\* Rows are numbered as an episode is.
LEMMA PartialOf ==
  ASSUME NEW S, NEW D \in SUBSET Nat, NEW f \in [D -> S]
  PROVE  f \in Partial(S)
  BY DEF Partial

\* What the ledger's invariant says of one ingredient.
LEMMA LedgerParts ==
  ASSUME LInv({NoOrder}), NEW i \in Ingredients
  PROVE  /\ ingredient[i] \in Row /\ ingredient[i].revision \in Nat
         /\ episodes[i] \in Seq(EpisodeRows) /\ events[i] \in Seq(EventRec)
         /\ RowSound(i) /\ EpisodesSound(i) /\ EventsSound(i)
  BY DEF LInv, LedgerTyped, EpisodeRows, Row

\* The revisions of an episode.
LEMMA EpisodeBounds ==
  ASSUME LInv({NoOrder}), NEW i \in Ingredients, NEW x \in 1 .. Len(episodes[i]),
         NEW e, e = episodes[i][x]
  PROVE  /\ e \in EpisodeRows /\ x \in Nat
         /\ e.opened \in Nat /\ e.opened >= 1 /\ e.opened <= ingredient[i].revision
         /\ e.closing.revision \in Nat /\ e.closing.revision <= ingredient[i].revision
         /\ e.closing = Unresolved => e.closing.revision = 0 /\ x = Len(episodes[i])
         /\ e.closing # Unresolved => e.closing.revision > e.opened /\ e.closing.revision # 0
  <1>1. /\ episodes[i] \in Seq(EpisodeRows) /\ EpisodesSound(i)
        /\ ingredient[i].revision \in Nat
    BY LedgerParts
  <1>2. e \in EpisodeRows /\ x \in Nat
    BY <1>1
  <1>3. e.opened \in Nat /\ e.closing.revision \in Nat
    BY <1>2 DEF EpisodeRows, EpisodeRec, ClosingRec
  <1>4. /\ EpisodeRow(e) /\ e.opened <= ingredient[i].revision
        /\ e.closing.revision <= ingredient[i].revision
        /\ e.closing = Unresolved => x = Len(episodes[i])
    BY <1>1 DEF EpisodesSound
  <1>5. EpisodeFacts(e)
    BY <1>4 DEF EpisodeRow
  <1>6. Unresolved.revision = 0
    BY DEF Unresolved
  <1> QED
    BY <1>2, <1>3, <1>4, <1>5, <1>6 DEF EpisodeFacts

\* The revision of an event.
LEMMA EventBounds ==
  ASSUME LInv({NoOrder}), NEW i \in Ingredients, NEW n \in 1 .. Len(events[i]),
         NEW e, e = events[i][n]
  PROVE  /\ e \in EventRec /\ n \in Nat /\ e.revision \in Nat /\ e.revision >= 1
         /\ e.revision <= ingredient[i].revision
         /\ e.boundary \in {"none", "opened", "resolved"}
  <1>1. events[i] \in Seq(EventRec) /\ EventsSound(i)
    BY LedgerParts
  <1>2. e \in EventRec /\ n \in Nat
    BY <1>1
  <1>3. TransitionFacts(i, e) /\ e.revision <= ingredient[i].revision
    BY <1>1 DEF EventsSound
  <1> QED
    BY <1>2, <1>3 DEF TransitionFacts, EventRec

\* The episode an event names.
Names(i, n, x) ==
    /\ x \in 1 .. Len(episodes[i])
    /\ events[i][n].boundary = "opened" =>
         ~episodes[i][x].suppressed /\ episodes[i][x].opened = events[i][n].revision
    /\ events[i][n].boundary = "resolved" =>
         /\ episodes[i][x].closing.revision = events[i][n].revision
         /\ episodes[i][x].closing # Unresolved

\* An event of a boundary names an episode.
LEMMA EventNames ==
  ASSUME LInv({NoOrder}), NEW i \in Ingredients, EventsName(i),
         NEW n \in 1 .. Len(events[i]), events[i][n].boundary # "none"
  PROVE  Names(i, n, EpisodeOf(i, events[i][n]))
  <1>1. PICK v : v = events[i][n]
    OBVIOUS
  <1>2. PICK e : e = episodes[i]
    OBVIOUS
  <1>3. /\ DOMAIN e = 1 .. Len(e) /\ e \in Seq(EpisodeRows)
    BY <1>2, LedgerParts
  <1>4. v.revision >= 1 /\ v.revision \in Nat /\ v.boundary \in {"opened", "resolved"}
    BY <1>1, EventBounds
  <1>5. CASE v.boundary = "opened"
    <2>1. \E x \in 1 .. Len(e) : ~e[x].suppressed /\ e[x].opened = v.revision
      BY <1>1, <1>2, <1>5 DEF EventsName
    <2>2. \E x \in DOMAIN e : IF v.boundary = "opened"
                              THEN e[x].opened = v.revision /\ ~e[x].suppressed
                              ELSE e[x].closing.revision = v.revision
      BY <1>3, <1>5, <2>1
    <2>3. PICK x : x = EpisodeOf(i, v)
      OBVIOUS
    <2>4. x \in DOMAIN e /\ e[x].opened = v.revision /\ ~e[x].suppressed
      BY <1>2, <1>5, <2>2, <2>3 DEF EpisodeOf
    <2> QED
      BY <1>1, <1>2, <1>3, <1>5, <2>3, <2>4 DEF Names
  <1>6. CASE v.boundary = "resolved"
    <2>1. \E x \in DOMAIN e : e[x].closing.revision = v.revision
      <3>1. TransitionFacts(i, v)
        BY <1>1, LedgerParts DEF EventsSound
      <3> QED
        BY <1>2, <1>6, <3>1 DEF TransitionFacts
    <2>2. \E x \in DOMAIN e : IF v.boundary = "opened"
                              THEN e[x].opened = v.revision /\ ~e[x].suppressed
                              ELSE e[x].closing.revision = v.revision
      BY <1>6, <2>1
    <2>3. PICK x : x = EpisodeOf(i, v)
      OBVIOUS
    <2>4. x \in DOMAIN e /\ e[x].closing.revision = v.revision
      BY <1>2, <1>6, <2>2, <2>3 DEF EpisodeOf
    <2>5. e[x].closing # Unresolved
      BY <1>2, <1>3, <1>4, <2>4, EpisodeBounds
    <2> QED
      BY <1>1, <1>2, <1>3, <1>6, <2>3, <2>4, <2>5 DEF Names
  <1> QED
    BY <1>4, <1>5, <1>6

\* A revision names one episode.
LEMMA OneEpisode ==
  ASSUME LInv({NoOrder}), NEW i \in Ingredients, EpisodesApart(i),
         NEW x \in 1 .. Len(episodes[i]), NEW y \in 1 .. Len(episodes[i]),
         \/ episodes[i][x].opened = episodes[i][y].opened
         \/ /\ episodes[i][x].closing.revision = episodes[i][y].closing.revision
            /\ episodes[i][x].closing.revision # 0
  PROVE  x = y
  <1>1. PICK a, b : a = episodes[i][x] /\ b = episodes[i][y]
    OBVIOUS
  <1>2. /\ x \in Nat /\ a.opened \in Nat /\ a.closing.revision \in Nat
        /\ (a.closing # Unresolved => a.closing.revision > a.opened)
        /\ (a.closing = Unresolved => a.closing.revision = 0)
    BY <1>1, EpisodeBounds
  <1>3. /\ y \in Nat /\ b.opened \in Nat /\ b.closing.revision \in Nat
        /\ (b.closing # Unresolved => b.closing.revision > b.opened)
        /\ (b.closing = Unresolved => b.closing.revision = 0)
    BY <1>1, EpisodeBounds
  <1>4. x < y => a.opened < b.opened /\ a.closing.revision < b.opened
    BY <1>1 DEF EpisodesApart
  <1>5. y < x => b.opened < a.opened /\ b.closing.revision < a.opened
    BY <1>1 DEF EpisodesApart
  <1>6. \/ a.opened = b.opened
        \/ a.closing.revision = b.closing.revision /\ a.closing.revision # 0
    BY <1>1
  <1>7. CASE x < y
    <2>1. a.closing.revision < b.opened /\ a.opened < b.opened
      BY <1>4, <1>7
    <2>2. a.closing.revision = b.closing.revision /\ b.closing.revision > b.opened
      BY <1>2, <1>3, <1>6, <2>1
    <2> QED
      BY <1>2, <1>3, <2>1, <2>2
  <1>8. CASE y < x
    <2>1. b.closing.revision < a.opened /\ b.opened < a.opened
      BY <1>5, <1>8
    <2>2. a.closing.revision = b.closing.revision /\ a.closing.revision > a.opened
      BY <1>2, <1>3, <1>6, <2>1
    <2> QED
      BY <1>2, <1>3, <2>1, <2>2
  <1> QED
    BY <1>2, <1>3, <1>7, <1>8

-----------------------------------------------------------------------------
(* What a command does to the episodes and events of an ingredient *)

EpisodesMoved(i, b) ==
    LET e == episodes[i]
        w == episodes'[i]
        r == ingredient'[i].revision
    IN /\ Len(e) \in Nat /\ Len(w) \in Nat
       /\ \A x \in 1 .. Len(e) :
            /\ x \in 1 .. Len(w)
            /\ w[x].opened = e[x].opened /\ w[x].suppressed = e[x].suppressed
            /\ \/ w[x] = e[x]
               \/ /\ b = "resolved" /\ e[x].closing = Unresolved
                  /\ w[x].closing # Unresolved /\ w[x].closing.revision = r
       /\ \A x \in 1 .. Len(w) :
            \/ x \in 1 .. Len(e)
            \/ /\ b = "opened" /\ x = Len(e) + 1
               /\ ~w[x].suppressed /\ w[x].opened = r /\ w[x].closing = Unresolved

EventsMoved(i, b) ==
    LET v == events[i]
        u == events'[i]
        r == ingredient'[i].revision
    IN /\ Len(v) \in Nat /\ Len(u) \in Nat
       /\ \A n \in 1 .. Len(v) : n \in 1 .. Len(u) /\ u[n] = v[n]
       /\ \A n \in 1 .. Len(u) :
            \/ n \in 1 .. Len(v)
            \/ /\ u[n].revision = r
               /\ u[n].boundary = b \/ (b = "opened" /\ u[n].boundary = "opened")
               /\ u[n].type = "low" => u[n].boundary = "opened"
       /\ r # ingredient[i].revision =>
            \E n \in 1 .. Len(u) : /\ u[n].type = "state_changed" /\ u[n].boundary = b
                                   /\ u[n].revision = r

\* The next revision, or the same state; a boundary takes a revision.
RowMoved(i, b) ==
    LET row == ingredient[i]
        after == ingredient'[i]
    IN /\ after.revision \in Nat
       /\ \/ after.revision = row.revision + 1
          \/ /\ b = "none" /\ row.exists /\ episodes'[i] = episodes[i]
             /\ events'[i] = events[i]
             /\ after.revision = row.revision /\ after.quantity = row.quantity
             /\ after.threshold = row.threshold /\ after.active = row.active

\* There is an episode of the new revision.
Opened(i) ==
    \E x \in 1 .. Len(episodes'[i]) :
        ~episodes'[i][x].suppressed /\ episodes'[i][x].opened = ingredient'[i].revision

Moves(i, b) ==
    /\ b \in {"none", "opened", "resolved"}
    /\ EpisodesMoved(i, b) /\ EventsMoved(i, b) /\ RowMoved(i, b)
    /\ b = "opened" => Opened(i)

Same(i) ==
    /\ ingredient'[i] = ingredient[i] /\ episodes'[i] = episodes[i]
    /\ events'[i] = events[i]

\* A recorded transition moves the ingredient.
LEMMA RecordedMoves ==
  ASSUME LInv({NoOrder}), NEW i \in Ingredients, NEW after, NEW source,
         Recorded({NoOrder}, i, after, source, NoOrder)
  PROVE  \E b : Moves(i, b)
  <1>1. PICK b : b = RecordedBoundary(i, after)
    OBVIOUS
  <1>2. NoOrder \in {NoOrder}
    OBVIOUS
  <1>3. PICK e, w : e = episodes[i] /\ w = episodes'[i]
    OBVIOUS
  <1>4. PICK v, u : v = events[i] /\ u = events'[i]
    OBVIOUS
  <1>5. PICK row, next : row = ingredient[i] /\ next = ingredient'[i]
    OBVIOUS
  <1>6. /\ next.revision \in Nat /\ row.revision \in Nat
        /\ next.quantity = after.quantity /\ next.threshold = after.threshold
        /\ next.active = after.active
        /\ next.revision = row.revision + (IF StateChanged(row, after) THEN 1 ELSE 0)
    BY <1>5, RecordedRow
  <1>7. /\ w \in Seq(EpisodeRows)
        /\ \/ b = "opened" /\ Opens(i)
           \/ b = "resolved" /\ Resolves(i)
           \/ b = "none" /\ KeepsEpisodes(i)
    BY <1>1, <1>2, <1>3, RecordedEpisodes DEF EpisodeRows
  <1>8. /\ u \in Seq(EventRec)
        /\ ~StateChanged(row, after) => b = "none" /\ u = v
        /\ StateChanged(row, after) => EventsGrew(v, u, next, b)
    BY <1>1, <1>2, <1>4, <1>5, RecordedEvents
  <1>9. e \in Seq(EpisodeRows) /\ v \in Seq(EventRec)
    BY <1>3, <1>4, LedgerParts
  <1>10. Len(e) \in Nat /\ Len(w) \in Nat /\ Len(v) \in Nat /\ Len(u) \in Nat
    BY <1>7, <1>8, <1>9
  <1>11. EpisodesMoved(i, b)
    <2>1. CASE b = "opened" /\ Opens(i)
      <3>1. /\ Len(w) = Len(e) + 1 /\ \A n \in 1 .. Len(e) : w[n] = e[n]
            /\ w[Len(e) + 1].opened = next.revision
            /\ w[Len(e) + 1].closing = Unresolved /\ ~w[Len(e) + 1].suppressed
        BY <1>3, <1>5, <2>1 DEF Opens
      <3>2. \A x \in 1 .. Len(e) : x \in 1 .. Len(w)
        BY <1>10, <3>1
      <3>3. \A x \in 1 .. Len(w) : x \in 1 .. Len(e) \/ x = Len(e) + 1
        BY <1>10, <3>1
      <3> QED
        BY <1>3, <1>5, <1>10, <2>1, <3>1, <3>2, <3>3 DEF EpisodesMoved
    <2>2. CASE b = "resolved" /\ Resolves(i)
      <3>1. /\ HasOpenEpisode(i) /\ Len(w) = Len(e)
            /\ \A n \in 1 .. Len(e) : n # Len(e) => w[n] = e[n]
            /\ w[Len(e)].opened = e[Len(e)].opened
            /\ w[Len(e)].suppressed = e[Len(e)].suppressed
            /\ w[Len(e)].closing # Unresolved
            /\ w[Len(e)].closing.revision = next.revision
        BY <1>3, <1>5, <2>2 DEF Resolves
      <3>2. e[Len(e)].closing = Unresolved
        BY <1>3, <3>1 DEF HasOpenEpisode
      <3> QED
        BY <1>3, <1>5, <1>10, <2>2, <3>1, <3>2 DEF EpisodesMoved
    <2>3. CASE b = "none" /\ KeepsEpisodes(i)
      <3>1. w = e
        BY <1>3, <2>3 DEF KeepsEpisodes
      <3> QED
        BY <1>3, <1>10, <3>1 DEF EpisodesMoved
    <2> QED
      BY <1>7, <2>1, <2>2, <2>3
  <1>12. EventsMoved(i, b)
    <2>1. CASE StateChanged(row, after)
      <3>1. /\ Len(u) = Len(v) + (IF b = "opened" THEN 2 ELSE 1)
            /\ \A n \in 1 .. Len(v) : u[n] = v[n]
            /\ u[Len(v) + 1] = StateEvent(next, b)
            /\ b = "opened" => u[Len(v) + 2] = LowEvent(next)
        BY <1>8, <2>1 DEF EventsGrew
      <3>2. /\ u[Len(v) + 1].type = "state_changed" /\ u[Len(v) + 1].boundary = b
            /\ u[Len(v) + 1].revision = next.revision
            /\ b = "opened" => /\ u[Len(v) + 2].revision = next.revision
                               /\ u[Len(v) + 2].boundary = "opened"
        BY <3>1 DEF StateEvent, LowEvent
      <3>3. \A n \in 1 .. Len(v) : n \in 1 .. Len(u)
        BY <1>10, <3>1
      <3>4. \A n \in 1 .. Len(u) :
              n \in 1 .. Len(v) \/ n = Len(v) + 1 \/ (b = "opened" /\ n = Len(v) + 2)
        BY <1>10, <3>1
      <3>5. Len(v) + 1 \in 1 .. Len(u)
        BY <1>10, <3>1
      <3>6. \A n \in 1 .. Len(u) :
              \/ n \in 1 .. Len(v)
              \/ /\ u[n].revision = next.revision
                 /\ u[n].boundary = b \/ (b = "opened" /\ u[n].boundary = "opened")
                 /\ u[n].type = "low" => u[n].boundary = "opened"
        BY <3>2, <3>4
      <3> QED
        BY <1>4, <1>5, <1>10, <3>1, <3>2, <3>3, <3>5, <3>6 DEF EventsMoved
    <2>2. CASE ~StateChanged(row, after)
      <3>1. u = v /\ next.revision = row.revision
        BY <1>6, <1>8, <2>2
      <3> QED
        BY <1>4, <1>5, <1>10, <3>1 DEF EventsMoved
    <2> QED
      BY <2>1, <2>2
  <1>13. RowMoved(i, b)
    <2>1. CASE StateChanged(row, after)
      BY <1>5, <1>6, <2>1 DEF RowMoved
    <2>2. CASE ~StateChanged(row, after)
      <3>1. /\ row.exists /\ row.quantity = after.quantity
            /\ row.threshold = after.threshold /\ row.active = after.active
        BY <2>2 DEF StateChanged
      <3>2. b = "none" /\ u = v /\ next.revision = row.revision
        BY <1>6, <1>8, <2>2
      <3>3. w = e
        BY <1>3, <1>7, <3>2 DEF KeepsEpisodes
      <3> QED
        BY <1>3, <1>4, <1>5, <1>6, <3>1, <3>2, <3>3 DEF RowMoved
    <2> QED
      BY <2>1, <2>2
  <1>14. b = "opened" => Opened(i)
    <2> SUFFICES ASSUME b = "opened"
                 PROVE  Opened(i)
      OBVIOUS
    <2>1. /\ Len(w) = Len(e) + 1 /\ w[Len(e) + 1].opened = next.revision
          /\ ~w[Len(e) + 1].suppressed
      BY <1>3, <1>5, <1>7 DEF Opens
    <2>2. Len(e) + 1 \in 1 .. Len(w)
      BY <1>10, <2>1
    <2> QED
      BY <1>3, <1>5, <2>1, <2>2 DEF Opened
  <1> QED
    BY <1>7, <1>11, <1>12, <1>13, <1>14 DEF Moves

\* A command of a stock manager moves one ingredient and leaves the others.
LEMMA StepMoves ==
  ASSUME LInv({NoOrder}), NEW j \in Ingredients, LedgerStep(j)
  PROVE  /\ \E b : Moves(j, b)
         /\ \A i \in Ingredients \ {j} : Same(i)
  <1>1. NoOrder \in {NoOrder} /\ {j} \in SUBSET Ingredients /\ j \in {j}
    OBVIOUS
  <1>2. PICK after, source : Command({NoOrder}, {j}, after, source, NoOrder)
    BY <1>1, StepRecords
  <1>3. /\ \A i \in {j} : Recorded({NoOrder}, i, after[i], source, NoOrder)
        /\ \A i \in Ingredients \ {j} :
             /\ ingredient'[i] = ingredient[i] /\ episodes'[i] = episodes[i]
             /\ events'[i] = events[i] /\ movements'[i] = movements[i]
    BY <1>1, <1>2, CommandRecords
  <1>4. Recorded({NoOrder}, j, after[j], source, NoOrder)
    BY <1>1, <1>3
  <1> QED
    BY <1>3, <1>4, RecordedMoves DEF Same

-----------------------------------------------------------------------------
(* Commands do not take from the consumers what they know *)

\* A new episode opens at a revision no other has.
LEMMA ApartStays ==
  ASSUME LInv({NoOrder}), NEW i \in Ingredients, EpisodesApart(i),
         NEW b, Moves(i, b)
  PROVE  EpisodesApart(i)'
  <1>1. PICK e, w : e = episodes[i] /\ w = episodes'[i]
    OBVIOUS
  <1>2. PICK r, s : r = ingredient'[i].revision /\ s = ingredient[i].revision
    OBVIOUS
  <1>3. r \in Nat /\ s \in Nat /\ Len(e) \in Nat /\ Len(w) \in Nat
    BY <1>1, <1>2, LedgerParts DEF Moves, RowMoved, EpisodesMoved
  <1>4. b # "none" => r = s + 1
    BY <1>2 DEF Moves, RowMoved
  <1>5. ASSUME NEW x \in 1 .. Len(w), NEW y \in 1 .. Len(w), x < y
        PROVE  w[x].opened < w[y].opened /\ w[x].closing.revision < w[y].opened
    <2>1. x \in 1 .. Len(e)
      BY <1>1, <1>3, <1>5 DEF Moves, EpisodesMoved
    <2>2. PICK c : c = e[x]
      OBVIOUS
    <2>3. /\ c.opened \in Nat /\ c.opened <= s
          /\ c.closing.revision \in Nat /\ c.closing.revision <= s
          /\ (c.closing = Unresolved => x = Len(e))
      BY <1>1, <1>2, <2>1, <2>2, EpisodeBounds
    <2>4. w[x].opened = c.opened
      BY <1>1, <2>1, <2>2 DEF Moves, EpisodesMoved
    <2>5. CASE y \in 1 .. Len(e)
      <3>1. x # Len(e)
        BY <1>3, <1>5, <2>1, <2>5
      <3>2. w[x] = c
        BY <1>1, <2>1, <2>2, <2>3, <3>1 DEF Moves, EpisodesMoved
      <3>3. w[y].opened = e[y].opened
        BY <1>1, <2>5 DEF Moves, EpisodesMoved
      <3>4. c.opened < e[y].opened /\ c.closing.revision < e[y].opened
        BY <1>1, <1>5, <2>1, <2>2, <2>5 DEF EpisodesApart
      <3> QED
        BY <3>2, <3>3, <3>4
    <2>6. CASE y \notin 1 .. Len(e)
      <3>1. b = "opened" /\ w[y].opened = r
        BY <1>1, <1>2, <2>6 DEF Moves, EpisodesMoved
      <3>2. w[x] = c
        BY <1>1, <2>1, <2>2, <3>1 DEF Moves, EpisodesMoved
      <3> QED
        BY <1>3, <1>4, <2>3, <3>1, <3>2
    <2> QED
      BY <2>5, <2>6
  <1> QED
    BY <1>1, <1>5 DEF EpisodesApart

\* What is appended names what is opened or resolved with it.
LEMMA NamesStay ==
  ASSUME LInv({NoOrder}), NEW i \in Ingredients, EventsName(i),
         NEW b, Moves(i, b)
  PROVE  EventsName(i)'
  <1>1. PICK e, w : e = episodes[i] /\ w = episodes'[i]
    OBVIOUS
  <1>2. PICK v, u : v = events[i] /\ u = events'[i]
    OBVIOUS
  <1>3. PICK r, s : r = ingredient'[i].revision /\ s = ingredient[i].revision
    OBVIOUS
  <1>4. /\ r \in Nat /\ s \in Nat /\ Len(e) \in Nat /\ Len(w) \in Nat
        /\ Len(v) \in Nat /\ Len(u) \in Nat /\ b \in {"none", "opened", "resolved"}
    BY <1>1, <1>2, <1>3, LedgerParts DEF Moves, RowMoved, EpisodesMoved, EventsMoved
  <1>5. /\ \A x \in 1 .. Len(e) :
             /\ x \in 1 .. Len(w)
             /\ w[x].opened = e[x].opened /\ w[x].suppressed = e[x].suppressed
             /\ \/ w[x] = e[x]
                \/ /\ b = "resolved" /\ e[x].closing = Unresolved
                   /\ w[x].closing # Unresolved /\ w[x].closing.revision = r
        /\ \A x \in 1 .. Len(w) :
             \/ x \in 1 .. Len(e)
             \/ /\ b = "opened" /\ x = Len(e) + 1
                /\ ~w[x].suppressed /\ w[x].opened = r /\ w[x].closing = Unresolved
    BY <1>1, <1>3 DEF Moves, EpisodesMoved
  <1>6. /\ \A n \in 1 .. Len(v) : n \in 1 .. Len(u) /\ u[n] = v[n]
        /\ \A n \in 1 .. Len(u) :
             \/ n \in 1 .. Len(v)
             \/ /\ u[n].revision = r
                /\ u[n].boundary = b \/ (b = "opened" /\ u[n].boundary = "opened")
                /\ u[n].type = "low" => u[n].boundary = "opened"
        /\ r # s => \E n \in 1 .. Len(u) : /\ u[n].type = "state_changed" /\ u[n].boundary = b
                                           /\ u[n].revision = r
    BY <1>2, <1>3 DEF Moves, EventsMoved
  <1>7. \/ r = s + 1
        \/ b = "none" /\ u = v /\ w = e /\ r = s
    BY <1>1, <1>2, <1>3 DEF Moves, RowMoved
  <1>8. \A n \in 1 .. Len(u) : u[n].type = "low" => u[n].boundary = "opened"
    <2>1. \A n \in 1 .. Len(v) : v[n].type = "low" => v[n].boundary = "opened"
      BY <1>2 DEF EventsName
    <2> QED
      BY <1>6, <2>1
  <1>9. ASSUME NEW n \in 1 .. Len(u), u[n].boundary = "opened"
        PROVE  \E x \in 1 .. Len(w) : ~w[x].suppressed /\ w[x].opened = u[n].revision
    <2>1. CASE n \in 1 .. Len(v)
      <3>1. PICK x \in 1 .. Len(e) : ~e[x].suppressed /\ e[x].opened = v[n].revision
        BY <1>1, <1>2, <1>6, <1>9, <2>1 DEF EventsName
      <3> QED
        BY <1>5, <1>6, <2>1, <3>1
    <2>2. CASE n \notin 1 .. Len(v)
      <3>1. b = "opened" /\ u[n].revision = r
        BY <1>6, <1>9, <2>2
      <3>2. \E x \in 1 .. Len(w) : ~w[x].suppressed /\ w[x].opened = r
        <4>1. Opened(i)
          BY <1>4, <3>1 DEF Moves
        <4> QED
          BY <1>1, <1>3, <4>1 DEF Opened
      <3> QED
        BY <3>1, <3>2
    <2> QED
      BY <2>1, <2>2
  <1>10. ASSUME NEW x \in 1 .. Len(w), w[x].closing.revision # 0
         PROVE  \E n \in 1 .. Len(u) : /\ u[n].type = "state_changed"
                                       /\ u[n].boundary = "resolved"
                                       /\ u[n].revision = w[x].closing.revision
    <2>1. x \in 1 .. Len(e)
      <3>1. Unresolved.revision = 0
        BY DEF Unresolved
      <3> QED
        BY <1>5, <1>10, <3>1
    <2>2. CASE w[x] = e[x]
      <3>1. PICK n \in 1 .. Len(v) : /\ v[n].type = "state_changed"
                                     /\ v[n].boundary = "resolved"
                                     /\ v[n].revision = e[x].closing.revision
        BY <1>1, <1>2, <1>10, <2>1, <2>2 DEF EventsName
      <3> QED
        BY <1>6, <2>2, <3>1
    <2>3. CASE w[x] # e[x]
      <3>1. b = "resolved" /\ w[x].closing.revision = r
        BY <1>5, <2>1, <2>3
      <3>2. r # s
        BY <1>4, <1>7, <3>1
      <3> QED
        BY <1>6, <3>1, <3>2
    <2> QED
      BY <2>2, <2>3
  <1>11. ASSUME Len(u) > 0
         PROVE  \E n \in 1 .. Len(u) : u[n].type = "state_changed" /\ u[n].revision = r
    <2>1. CASE r = s + 1
      BY <1>4, <1>6, <2>1
    <2>2. CASE u = v /\ r = s
      BY <1>2, <1>3, <1>11, <2>2 DEF EventsName
    <2> QED
      BY <1>7, <2>1, <2>2
  <1> QED
    BY <1>1, <1>2, <1>3, <1>8, <1>9, <1>10, <1>11 DEF EventsName

\* Alerts' row is behind a new revision and true of an old one.
LEMMA StateStays ==
  ASSUME LInv({NoOrder}), ProjectionTyped, NEW i \in Ingredients,
         HandledWritten(i), StateKnown(i), NEW b, Moves(i, b),
         alertState'[i] = alertState[i], handled'[i] = handled[i]
  PROVE  StateKnown(i)'
  <1>1. PICK s : s = alertState[i]
    OBVIOUS
  <1>2. PICK v, u : v = events[i] /\ u = events'[i]
    OBVIOUS
  <1>3. PICK row, next : row = ingredient[i] /\ next = ingredient'[i]
    OBVIOUS
  <1>4. row.revision \in Nat /\ next.revision \in Nat /\ s.revision \in Nat
    BY <1>1, <1>3, LedgerParts DEF Moves, RowMoved, ProjectionTyped, StateRec
  <1>5. s.revision <= row.revision
    BY <1>1, <1>3 DEF StateKnown
  <1>6. \/ next.revision = row.revision + 1
        \/ /\ row.exists /\ episodes'[i] = episodes[i]
           /\ next.revision = row.revision /\ next.quantity = row.quantity
           /\ next.threshold = row.threshold /\ next.active = row.active
    BY <1>3 DEF Moves, RowMoved
  <1>7. s.revision <= next.revision
    BY <1>4, <1>5, <1>6
  <1>8. s.revision = next.revision => s = Current(ingredient', episodes', i)
    <2> SUFFICES ASSUME s.revision = next.revision
                 PROVE  s = Current(ingredient', episodes', i)
      OBVIOUS
    <2>1. /\ row.exists /\ episodes'[i] = episodes[i]
          /\ next.revision = row.revision /\ next.quantity = row.quantity
          /\ next.threshold = row.threshold /\ next.active = row.active
      BY <1>4, <1>5, <1>6
    <2>2. s = Current(ingredient, episodes, i)
      BY <1>1, <1>3, <2>1 DEF StateKnown
    <2>3. OpenEpisode(episodes', i) = OpenEpisode(episodes, i)
      BY <2>1 DEF OpenEpisode
    <2>4. IsLow(ingredient'[i]) = IsLow(ingredient[i])
      BY <1>3, <2>1 DEF IsLow
    <2> QED
      BY <1>3, <2>1, <2>2, <2>3, <2>4 DEF Current
  <1>9. ASSUME NEW n \in 1 .. Len(u), <<"alerts", n>> \in handled'[i],
               u[n].type = "state_changed"
        PROVE  u[n].revision <= s.revision
    <2>1. n \in 1 .. Len(v)
      BY <1>2, <1>9 DEF HandledWritten
    <2>2. u[n] = v[n]
      BY <1>2, <2>1 DEF Moves, EventsMoved
    <2> QED
      BY <1>1, <1>2, <1>9, <2>1, <2>2 DEF StateKnown
  <1> QED
    BY <1>1, <1>2, <1>3, <1>7, <1>8, <1>9 DEF StateKnown

\* What alerts knows of an episode is what it was, or it is over now.
LEMMA EpisodesStayKnown ==
  ASSUME NEW i \in Ingredients, HandledWritten(i), EpisodesKnown(i),
         NEW b, Moves(i, b),
         alertEpisodes'[i] = alertEpisodes[i], handled'[i] = handled[i]
  PROVE  EpisodesKnown(i)'
  <1>1. PICK e, w : e = episodes[i] /\ w = episodes'[i]
    OBVIOUS
  <1>2. PICK v, u : v = events[i] /\ u = events'[i]
    OBVIOUS
  <1>3. PICK a : a = alertEpisodes[i]
    OBVIOUS
  <1>4. /\ \A x \in 1 .. Len(e) :
             /\ x \in 1 .. Len(w)
             /\ w[x].opened = e[x].opened /\ w[x].suppressed = e[x].suppressed
             /\ w[x] = e[x] \/ (e[x].closing = Unresolved /\ w[x].closing # Unresolved)
        /\ \A x \in 1 .. Len(w) : x \in 1 .. Len(e) \/ ~w[x].suppressed
    BY <1>1 DEF Moves, EpisodesMoved
  <1>5. /\ DOMAIN a \subseteq 1 .. Len(e)
        /\ \A x \in 1 .. Len(e) : e[x].suppressed => x \in DOMAIN a
        /\ \A x \in DOMAIN a :
             a[x] = e[x] \/ (a[x].closing = Unresolved /\ e[x].closing # Unresolved)
        /\ \A n \in 1 .. Len(v) : <<"alerts", n>> \in handled[i] =>
             /\ v[n].boundary = "opened" =>
                  \E x \in DOMAIN a : ~e[x].suppressed /\ e[x].opened = v[n].revision
             /\ v[n].boundary = "resolved" =>
                  \E x \in DOMAIN a : /\ e[x].closing.revision = v[n].revision
                                      /\ e[x].closing # Unresolved
                                      /\ a[x] = e[x]
    BY <1>1, <1>2, <1>3 DEF EpisodesKnown
  <1>6. DOMAIN a \subseteq 1 .. Len(w)
    BY <1>4, <1>5
  <1>7. \A x \in 1 .. Len(w) : w[x].suppressed => x \in DOMAIN a
    BY <1>4, <1>5
  <1>8. \A x \in DOMAIN a :
          a[x] = w[x] \/ (a[x].closing = Unresolved /\ w[x].closing # Unresolved)
    BY <1>4, <1>5
  <1>9. ASSUME NEW n \in 1 .. Len(u), <<"alerts", n>> \in handled'[i]
        PROVE  /\ u[n].boundary = "opened" =>
                    \E x \in DOMAIN a : ~w[x].suppressed /\ w[x].opened = u[n].revision
               /\ u[n].boundary = "resolved" =>
                    \E x \in DOMAIN a : /\ w[x].closing.revision = u[n].revision
                                        /\ w[x].closing # Unresolved
                                        /\ a[x] = w[x]
    <2>1. n \in 1 .. Len(v) /\ <<"alerts", n>> \in handled[i]
      BY <1>2, <1>9 DEF HandledWritten
    <2>2. u[n] = v[n]
      BY <1>2, <2>1 DEF Moves, EventsMoved
    <2>3. ASSUME u[n].boundary = "opened"
          PROVE  \E x \in DOMAIN a : ~w[x].suppressed /\ w[x].opened = u[n].revision
      <3>1. PICK x \in DOMAIN a : ~e[x].suppressed /\ e[x].opened = v[n].revision
        BY <1>5, <2>1, <2>2, <2>3
      <3> QED
        BY <1>4, <1>5, <2>2, <3>1
    <2>4. ASSUME u[n].boundary = "resolved"
          PROVE  \E x \in DOMAIN a : /\ w[x].closing.revision = u[n].revision
                                     /\ w[x].closing # Unresolved
                                     /\ a[x] = w[x]
      <3>1. PICK x \in DOMAIN a : /\ e[x].closing.revision = v[n].revision
                                  /\ e[x].closing # Unresolved
                                  /\ a[x] = e[x]
        BY <1>5, <2>1, <2>2, <2>4
      <3>2. w[x] = e[x]
        BY <1>4, <1>5, <3>1
      <3> QED
        BY <2>2, <3>1, <3>2
    <2> QED
      BY <2>3, <2>4
  <1> QED
    BY <1>1, <1>2, <1>3, <1>6, <1>7, <1>8, <1>9 DEF EpisodesKnown

\* What is over stays over.
LEMMA StubsStayKnown ==
  ASSUME NEW i \in Ingredients, HandledWritten(i), StubsKnown(i),
         NEW b, Moves(i, b), stubs'[i] = stubs[i], handled'[i] = handled[i]
  PROVE  StubsKnown(i)'
  <1>1. PICK e, w : e = episodes[i] /\ w = episodes'[i]
    OBVIOUS
  <1>2. PICK v, u : v = events[i] /\ u = events'[i]
    OBVIOUS
  <1>3. PICK a : a = stubs[i]
    OBVIOUS
  <1>4. \A x \in 1 .. Len(e) :
          /\ x \in 1 .. Len(w)
          /\ w[x].opened = e[x].opened /\ w[x].suppressed = e[x].suppressed
          /\ w[x] = e[x] \/ w[x].closing # Unresolved
    BY <1>1 DEF Moves, EpisodesMoved
  <1>5. /\ DOMAIN a \subseteq 1 .. Len(e)
        /\ \A x \in DOMAIN a : /\ ~e[x].suppressed
                               /\ a[x] = "skipped" => e[x].closing # Unresolved
        /\ \A n \in 1 .. Len(v) : <<"notification_sink", n>> \in handled[i] =>
             /\ v[n].boundary = "opened"
             /\ \E x \in DOMAIN a : ~e[x].suppressed /\ e[x].opened = v[n].revision
    BY <1>1, <1>2, <1>3 DEF StubsKnown
  <1>6. ASSUME NEW n \in 1 .. Len(u), <<"notification_sink", n>> \in handled'[i]
        PROVE  /\ u[n].boundary = "opened"
               /\ \E x \in DOMAIN a : ~w[x].suppressed /\ w[x].opened = u[n].revision
    <2>1. n \in 1 .. Len(v) /\ <<"notification_sink", n>> \in handled[i]
      BY <1>2, <1>6 DEF HandledWritten
    <2>2. u[n] = v[n]
      BY <1>2, <2>1 DEF Moves, EventsMoved
    <2> QED
      BY <1>4, <1>5, <2>1, <2>2
  <1>7. /\ DOMAIN a \subseteq 1 .. Len(w)
        /\ \A x \in DOMAIN a : /\ ~w[x].suppressed
                               /\ a[x] = "skipped" => w[x].closing # Unresolved
    BY <1>4, <1>5
  <1> QED
    BY <1>1, <1>2, <1>3, <1>6, <1>7 DEF StubsKnown

-----------------------------------------------------------------------------
(* Handlers *)

\* What an alert row may hold.
LEMMA CurrentIsRow ==
  ASSUME NEW rows, NEW eps, NEW i \in Ingredients,
         rows[i] \in Row, eps[i] \in Seq(EpisodeRows)
  PROVE  /\ Current(rows, eps, i) \in StateRec
         /\ Current(rows, eps, i).revision = rows[i].revision
  <1>1. PICK row \in Row : row = rows[i]
    OBVIOUS
  <1>2. OpenEpisode(eps, i) \in Nat
    BY DEF OpenEpisode
  <1>3. IsLow(row) \in BOOLEAN
    BY DEF IsLow, Row
  <1>4. /\ row.revision \in Nat /\ row.quantity \in Quantities
        /\ row.threshold \in Quantities /\ row.active \in BOOLEAN
    BY Bounds DEF Row
  <1>5. PICK x, l : /\ x = (IF IsLow(row) THEN OpenEpisode(eps, i) ELSE 0)
                    /\ l = IsLow(row)
    OBVIOUS
  <1>6. x \in Nat /\ l \in BOOLEAN
    BY <1>2, <1>3, <1>5
  <1>7. Current(rows, eps, i) =
          [revision |-> row.revision, quantity |-> row.quantity,
           threshold |-> row.threshold, active |-> row.active, low |-> l, episode |-> x]
    BY <1>1, <1>5 DEF Current
  <1> QED
    BY <1>1, <1>4, <1>6, <1>7 DEF StateRec

\* What an alert row may hold now.
LEMMA CurrentRow ==
  ASSUME LInv({NoOrder}), NEW i \in Ingredients
  PROVE  /\ Current(ingredient, episodes, i) \in StateRec
         /\ Current(ingredient, episodes, i).revision = ingredient[i].revision
  <1>1. ingredient[i] \in Row /\ episodes[i] \in Seq(EpisodeRows)
    BY LedgerParts
  <1> QED
    BY <1>1, CurrentIsRow

\* Nothing is known less, and nothing changed, of an ingredient no step is about.
LEMMA NothingKnown ==
  ASSUME NEW i \in Ingredients, Known(i), ProjectionTyped, Same(i),
         alertState'[i] = alertState[i], alertEpisodes'[i] = alertEpisodes[i],
         stubs'[i] = stubs[i], handled'[i] = handled[i]
  PROVE  Known(i)' /\ Forward(i)
  <1>1. HandledWritten(i)'
    BY DEF Known, HandledWritten, Same
  <1>2. StateKnown(i)'
    <2>1. Current(ingredient', episodes', i) = Current(ingredient, episodes, i)
      BY DEF Current, OpenEpisode, Same
    <2>2. StateKnown(i)
      BY DEF Known
    <2> QED
      BY <2>1, <2>2 DEF StateKnown, Same
  <1>3. EpisodesKnown(i)'
    BY DEF Known, EpisodesKnown, Same
  <1>4. StubsKnown(i)'
    BY DEF Known, StubsKnown, Same
  <1>5. Forward(i)
    <2>1. alertState[i].revision \in Nat
      BY DEF ProjectionTyped, StateRec
    <2> QED
      BY <2>1 DEF Forward
  <1> QED
    BY <1>1, <1>2, <1>3, <1>4, <1>5 DEF Known

\* The ledger as the handlers leave it.
LEMMA LedgerSame ==
  ASSUME UNCHANGED ledger
  PROVE  /\ ingredient' = ingredient /\ episodes' = episodes /\ events' = events
         /\ movements' = movements /\ initialized' = initialized
         /\ \A i \in Ingredients : Same(i)
  BY DEF ledger, Same

\* A receipt is of the event that was handled.
LEMMA ReceiptWritten ==
  ASSUME NEW i \in Ingredients, HandledWritten(i), UNCHANGED ledger,
         NEW n \in 1 .. Len(events[i]), NEW c \in {"alerts", "notification_sink"},
         handled'[i] = handled[i] \cup {<<c, n>>}
  PROVE  HandledWritten(i)'
  BY LedgerSame DEF HandledWritten

\* What _sync_episode writes.
LEMMA SyncedRows ==
  ASSUME LInv({NoOrder}), ProjectionTyped, NEW i \in Ingredients,
         NEW x \in 1 .. Len(episodes[i])
  PROVE  /\ Synced(i, x) \in Partial(EpisodeRows)
         /\ DOMAIN Synced(i, x) = DOMAIN alertEpisodes[i] \cup {x}
         /\ Synced(i, x)[x] = episodes[i][x]
         /\ \A y \in DOMAIN alertEpisodes[i] : y # x => Synced(i, x)[y] = alertEpisodes[i][y]
  <1>1. PICK a : a = alertEpisodes[i]
    OBVIOUS
  <1>2. DOMAIN a \subseteq Nat /\ a \in [DOMAIN a -> EpisodeRows]
    BY <1>1, PartialRows DEF ProjectionTyped
  <1>3. PICK e : e = episodes[i][x]
    OBVIOUS
  <1>4. e \in EpisodeRows /\ x \in Nat
    BY <1>3, EpisodeBounds
  <1>5. PICK w : w = [y \in DOMAIN a \cup {x} |-> IF y = x THEN e ELSE a[y]]
    OBVIOUS
  <1>6. w \in [DOMAIN a \cup {x} -> EpisodeRows] /\ DOMAIN a \cup {x} \in SUBSET Nat
    BY <1>2, <1>4, <1>5
  <1>7. w \in Partial(EpisodeRows)
    BY <1>6, PartialOf
  <1>8. Synced(i, x) = w
    BY <1>1, <1>3, <1>5 DEF Synced
  <1>9. /\ DOMAIN w = DOMAIN a \cup {x} /\ w[x] = e
        /\ \A y \in DOMAIN a : y # x => w[y] = a[y]
    BY <1>5
  <1> QED
    BY <1>1, <1>3, <1>7, <1>8, <1>9

\* The projection learns the episode of an event as it is now.
LEMMA EpisodeLearnt ==
  ASSUME LInv({NoOrder}), ProjectionTyped, NEW i \in Ingredients, EpisodesKnown(i),
         UNCHANGED ledger, NEW n \in 1 .. Len(events[i]),
         handled'[i] = handled[i] \cup {<<"alerts", n>>},
         NEW x, Names(i, n, x), alertEpisodes'[i] = Synced(i, x)
  PROVE  /\ EpisodesKnown(i)'
         /\ \A y \in DOMAIN alertEpisodes[i] :
              /\ y \in DOMAIN alertEpisodes'[i]
              /\ alertEpisodes[i][y].closing.revision # 0 =>
                   alertEpisodes'[i][y] = alertEpisodes[i][y]
  <1>1. PICK e, v : e = episodes[i] /\ v = events[i]
    OBVIOUS
  <1>2. PICK a, w : a = alertEpisodes[i] /\ w = alertEpisodes'[i]
    OBVIOUS
  <1>3. episodes'[i] = e /\ events'[i] = v
    BY <1>1, LedgerSame
  <1>4. /\ DOMAIN w = DOMAIN a \cup {x} /\ w[x] = e[x] /\ x \in 1 .. Len(e)
        /\ \A y \in DOMAIN a : y # x => w[y] = a[y]
    <2>1. x \in 1 .. Len(episodes[i])
      BY DEF Names
    <2>2. w = Synced(i, x)
      BY <1>2
    <2>3. /\ DOMAIN Synced(i, x) = DOMAIN alertEpisodes[i] \cup {x}
          /\ Synced(i, x)[x] = episodes[i][x]
          /\ \A y \in DOMAIN alertEpisodes[i] : y # x => Synced(i, x)[y] = alertEpisodes[i][y]
      BY <2>1, SyncedRows
    <2> QED
      BY <1>1, <1>2, <2>1, <2>2, <2>3
  <1>5. /\ DOMAIN a \subseteq 1 .. Len(e)
        /\ \A y \in 1 .. Len(e) : e[y].suppressed => y \in DOMAIN a
        /\ \A y \in DOMAIN a :
             a[y] = e[y] \/ (a[y].closing = Unresolved /\ e[y].closing # Unresolved)
        /\ \A m \in 1 .. Len(v) : <<"alerts", m>> \in handled[i] =>
             /\ v[m].boundary = "opened" =>
                  \E y \in DOMAIN a : ~e[y].suppressed /\ e[y].opened = v[m].revision
             /\ v[m].boundary = "resolved" =>
                  \E y \in DOMAIN a : /\ e[y].closing.revision = v[m].revision
                                      /\ e[y].closing # Unresolved
                                      /\ a[y] = e[y]
    BY <1>1, <1>2 DEF EpisodesKnown
  <1>6. \A y \in DOMAIN w :
          w[y] = e[y] \/ (w[y].closing = Unresolved /\ e[y].closing # Unresolved)
    BY <1>4, <1>5
  <1>7. ASSUME NEW m \in 1 .. Len(v), <<"alerts", m>> \in handled'[i]
        PROVE  /\ v[m].boundary = "opened" =>
                    \E y \in DOMAIN w : ~e[y].suppressed /\ e[y].opened = v[m].revision
               /\ v[m].boundary = "resolved" =>
                    \E y \in DOMAIN w : /\ e[y].closing.revision = v[m].revision
                                        /\ e[y].closing # Unresolved
                                        /\ w[y] = e[y]
    <2>1. CASE m = n
      BY <1>1, <1>4, <2>1 DEF Names
    <2>2. CASE m # n
      <3>1. <<"alerts", m>> \in handled[i]
        BY <1>7, <2>2
      <3>2. v[m].boundary = "opened" =>
              \E y \in DOMAIN w : ~e[y].suppressed /\ e[y].opened = v[m].revision
        BY <1>4, <1>5, <3>1
      <3>3. ASSUME v[m].boundary = "resolved"
            PROVE  \E y \in DOMAIN w : /\ e[y].closing.revision = v[m].revision
                                       /\ e[y].closing # Unresolved
                                       /\ w[y] = e[y]
        <4>1. PICK y \in DOMAIN a : /\ e[y].closing.revision = v[m].revision
                                    /\ e[y].closing # Unresolved
                                    /\ a[y] = e[y]
          BY <1>5, <3>1, <3>3
        <4>2. w[y] = e[y] /\ y \in DOMAIN w
          BY <1>4, <4>1
        <4> QED
          BY <4>1, <4>2
      <3> QED
        BY <3>2, <3>3
    <2> QED
      BY <2>1, <2>2
  <1>8. EpisodesKnown(i)'
    BY <1>1, <1>2, <1>3, <1>4, <1>5, <1>6, <1>7 DEF EpisodesKnown
  <1>9. ASSUME NEW y \in DOMAIN a
        PROVE  y \in DOMAIN w /\ (a[y].closing.revision # 0 => w[y] = a[y])
    <2>1. Unresolved.revision = 0
      BY DEF Unresolved
    <2> QED
      BY <1>4, <1>5, <2>1
  <1> QED
    BY <1>2, <1>8, <1>9

\* Only receipts of alerts, for state events, concern the alert row.
LEMMA RowUntouched ==
  ASSUME NEW i \in Ingredients, StateKnown(i), UNCHANGED ledger,
         alertState'[i] = alertState[i], NEW n, NEW c,
         handled'[i] = handled[i] \cup {<<c, n>>},
         c # "alerts" \/ events[i][n].type # "state_changed"
  PROVE  StateKnown(i)'
  <1>1. ingredient' = ingredient /\ episodes' = episodes /\ events' = events
    BY LedgerSame
  <1>2. Current(ingredient', episodes', i) = Current(ingredient, episodes, i)
    BY <1>1
  <1>3. \A m : <<"alerts", m>> \in handled'[i] =>
          <<"alerts", m>> \in handled[i] \/ events[i][m].type # "state_changed"
    OBVIOUS
  <1> QED
    BY <1>1, <1>2, <1>3 DEF StateKnown

\* Only receipts of alerts, for events of a boundary, concern its episodes.
LEMMA EpisodesUntouched ==
  ASSUME NEW i \in Ingredients, EpisodesKnown(i), UNCHANGED ledger,
         alertEpisodes'[i] = alertEpisodes[i], NEW n, NEW c,
         handled'[i] = handled[i] \cup {<<c, n>>},
         c # "alerts" \/ events[i][n].boundary = "none"
  PROVE  EpisodesKnown(i)'
  <1>1. episodes' = episodes /\ events' = events
    BY LedgerSame
  <1>2. \A m : <<"alerts", m>> \in handled'[i] =>
          <<"alerts", m>> \in handled[i] \/ events[i][m].boundary = "none"
    OBVIOUS
  <1> QED
    BY <1>1, <1>2 DEF EpisodesKnown

\* Receipts of alerts do not concern stubs.
LEMMA StubsUntouched ==
  ASSUME NEW i \in Ingredients, StubsKnown(i), UNCHANGED ledger,
         stubs'[i] = stubs[i], NEW n, handled'[i] = handled[i] \cup {<<"alerts", n>>}
  PROVE  StubsKnown(i)'
  <1>1. episodes' = episodes /\ events' = events
    BY LedgerSame
  <1>2. \A m : <<"notification_sink", m>> \in handled'[i] =>
          <<"notification_sink", m>> \in handled[i]
    OBVIOUS
  <1> QED
    BY <1>1, <1>2 DEF StubsKnown

\* A handler is about one ingredient and leaves the ledger.
LEMMA HandlerSound ==
  ASSUME PInv, NEW i \in Ingredients, UNCHANGED ledger, ProjectionTyped',
         Known(i)', Forward(i),
         \A j \in Ingredients \ {i} :
           /\ alertState'[j] = alertState[j] /\ alertEpisodes'[j] = alertEpisodes[j]
           /\ stubs'[j] = stubs[j] /\ handled'[j] = handled[j]
  PROVE  PInv' /\ \A j \in Ingredients : Forward(j)
  <1>1. LInv({NoOrder})'
    <2>1. NoOrder \in {NoOrder}
      OBVIOUS
    <2> QED
      BY <2>1, LedgerNextSound DEF PInv
  <1>2. ASSUME NEW j \in Ingredients
        PROVE  Known(j)' /\ Forward(j)
    <2>1. CASE j = i
      BY <2>1
    <2>2. CASE j # i
      <3>1. Same(j) /\ Known(j) /\ ProjectionTyped
        BY LedgerSame DEF PInv
      <3> QED
        BY <2>2, <3>1, NothingKnown
    <2> QED
      BY <2>1, <2>2
  <1>3. ASSUME NEW j \in Ingredients
        PROVE  EpisodesApart(j)' /\ EventsName(j)'
    BY LedgerSame DEF PInv, EpisodesApart, EventsName
  <1> QED
    BY <1>1, <1>2, <1>3 DEF PInv

\* The receipt of a handler.
LEMMA ReceiptTyped ==
  ASSUME ProjectionTyped, NEW i \in Ingredients, NEW n \in Nat,
         NEW c \in {"alerts", "notification_sink"}, Receipt(i, n, c)
  PROVE  /\ handled' \in [Ingredients -> SUBSET Receipts]
         /\ handled'[i] = handled[i] \cup {<<c, n>>}
         /\ \A j \in Ingredients \ {i} : handled'[j] = handled[j]
  <1>1. handled \in [Ingredients -> SUBSET Receipts]
    BY DEF ProjectionTyped
  <1>2. <<c, n>> \in Receipts
    BY DEF Receipts
  <1> QED
    BY <1>1, <1>2 DEF Receipt

\* What _sync_episode leaves, by ingredient.
LEMMA SyncTyped ==
  ASSUME LInv({NoOrder}), ProjectionTyped, NEW i \in Ingredients,
         NEW x \in 1 .. Len(episodes[i]),
         alertEpisodes' = [alertEpisodes EXCEPT ![i] = Synced(i, x)]
  PROVE  /\ alertEpisodes' \in [Ingredients -> Partial(EpisodeRows)]
         /\ alertEpisodes'[i] = Synced(i, x)
         /\ \A j \in Ingredients \ {i} : alertEpisodes'[j] = alertEpisodes[j]
  <1>1. PICK w : w = Synced(i, x)
    OBVIOUS
  <1>2. w \in Partial(EpisodeRows)
    BY <1>1, SyncedRows
  <1>3. alertEpisodes \in [Ingredients -> Partial(EpisodeRows)]
    BY DEF ProjectionTyped
  <1> QED
    BY <1>1, <1>2, <1>3

\* A state event brings its episode and the current state.
LEMMA StateChangedSound ==
  ASSUME PInv, NEW i \in Ingredients, NEW n \in DOMAIN events[i],
         ApplyStateChanged(i, n)
  PROVE  PInv' /\ \A j \in Ingredients : Forward(j)
  <1>1. PICK e : e = events[i][n]
    OBVIOUS
  <1>2. PICK x : x = EpisodeOf(i, e)
    OBVIOUS
  <1>3. PICK s, c, r : /\ s = alertState[i] /\ c = Current(ingredient, episodes, i)
                       /\ r = ingredient[i].revision
    OBVIOUS
  <1>4. /\ LInv({NoOrder}) /\ ProjectionTyped /\ EpisodesApart(i) /\ EventsName(i)
        /\ HandledWritten(i) /\ StateKnown(i) /\ EpisodesKnown(i) /\ StubsKnown(i)
    BY DEF PInv, Known
  <1>5. n \in 1 .. Len(events[i]) /\ n \in Nat
    BY <1>4, LedgerParts
  <1>6. /\ UNCHANGED ledger /\ UNCHANGED stubs /\ Receipt(i, n, "alerts")
        /\ alertState' = [alertState EXCEPT ![i] = IF s.revision >= r THEN s ELSE c]
        /\ alertEpisodes' = IF e.boundary # "none"
                            THEN [alertEpisodes EXCEPT ![i] = Synced(i, x)]
                            ELSE alertEpisodes
    BY <1>1, <1>2, <1>3 DEF ApplyStateChanged, AlertStateAfter, NamesEpisode
  <1>7. /\ handled' \in [Ingredients -> SUBSET Receipts]
        /\ handled'[i] = handled[i] \cup {<<"alerts", n>>}
        /\ \A j \in Ingredients \ {i} : handled'[j] = handled[j]
    BY <1>4, <1>5, <1>6, ReceiptTyped
  <1>8. /\ alertState \in [Ingredients -> StateRec]
        /\ alertEpisodes \in [Ingredients -> Partial(EpisodeRows)]
        /\ stubs \in [Ingredients -> Partial({"created", "skipped"})]
    BY <1>4 DEF ProjectionTyped
  <1>9. /\ s \in StateRec /\ c \in StateRec /\ s.revision \in Nat /\ r \in Nat
        /\ c.revision = r /\ s.revision <= r
        /\ s.revision = r /\ ingredient[i].exists => s = c
    BY <1>3, <1>4, <1>8, CurrentRow, LedgerParts DEF StateRec, StateKnown
  <1>10. PICK t : t = IF s.revision >= r THEN s ELSE c
    OBVIOUS
  <1>11. /\ t \in StateRec /\ t.revision = r /\ t.revision >= s.revision
         /\ ingredient[i].exists => t = c
    BY <1>9, <1>10
  <1>12. /\ alertState' \in [Ingredients -> StateRec] /\ alertState'[i] = t
         /\ \A j \in Ingredients \ {i} : alertState'[j] = alertState[j]
    BY <1>6, <1>8, <1>10, <1>11
  <1>13. HandledWritten(i)'
    BY <1>4, <1>5, <1>6, <1>7, ReceiptWritten
  <1>14. StateKnown(i)'
    <2>1. ingredient' = ingredient /\ episodes' = episodes /\ events' = events
      BY <1>6, LedgerSame
    <2>2. Current(ingredient', episodes', i) = c
      BY <1>3, <2>1
    <2>3. \A m \in 1 .. Len(events[i]) : events[i][m].revision <= r
      BY <1>3, <1>4, EventBounds
    <2>4. t.revision <= r
      BY <1>9, <1>11
    <2> QED
      BY <1>3, <1>11, <1>12, <2>1, <2>2, <2>3, <2>4 DEF StateKnown
  <1>15. StubsKnown(i)'
    BY <1>4, <1>6, <1>7, StubsUntouched
  <1>16. /\ EpisodesKnown(i)'
         /\ alertEpisodes' \in [Ingredients -> Partial(EpisodeRows)]
         /\ \A j \in Ingredients \ {i} : alertEpisodes'[j] = alertEpisodes[j]
         /\ \A y \in DOMAIN alertEpisodes[i] :
              /\ y \in DOMAIN alertEpisodes'[i]
              /\ alertEpisodes[i][y].closing.revision # 0 =>
                   alertEpisodes'[i][y] = alertEpisodes[i][y]
    <2>1. CASE e.boundary = "none"
      <3>1. alertEpisodes' = alertEpisodes
        BY <1>6, <2>1
      <3>2. EpisodesKnown(i)'
        BY <1>1, <1>4, <1>6, <1>7, <2>1, <3>1, EpisodesUntouched
      <3> QED
        BY <1>8, <3>1, <3>2
    <2>2. CASE e.boundary # "none"
      <3>1. alertEpisodes' = [alertEpisodes EXCEPT ![i] = Synced(i, x)]
        BY <1>6, <2>2
      <3>2. Names(i, n, x)
        BY <1>1, <1>2, <1>4, <1>5, <2>2, EventNames
      <3>3. x \in 1 .. Len(episodes[i])
        BY <3>2 DEF Names
      <3>4. /\ alertEpisodes' \in [Ingredients -> Partial(EpisodeRows)]
            /\ alertEpisodes'[i] = Synced(i, x)
            /\ \A j \in Ingredients \ {i} : alertEpisodes'[j] = alertEpisodes[j]
        BY <1>4, <3>1, <3>3, SyncTyped
      <3> QED
        BY <1>4, <1>5, <1>6, <1>7, <3>2, <3>4, EpisodeLearnt
    <2> QED
      BY <2>1, <2>2
  <1>17. Forward(i)
    BY <1>3, <1>6, <1>11, <1>12, <1>16 DEF Forward
  <1>18. ProjectionTyped'
    BY <1>6, <1>7, <1>8, <1>12, <1>16 DEF ProjectionTyped
  <1>19. Known(i)'
    BY <1>13, <1>14, <1>15, <1>16 DEF Known
  <1> QED
    BY <1>6, <1>7, <1>12, <1>16, <1>17, <1>18, <1>19, HandlerSound

\* A low event brings the episode it opened.
LEMMA LowSound ==
  ASSUME PInv, NEW i \in Ingredients, NEW n \in DOMAIN events[i], ApplyLow(i, n)
  PROVE  PInv' /\ \A j \in Ingredients : Forward(j)
  <1>1. PICK x : x = EpisodeOf(i, events[i][n])
    OBVIOUS
  <1>2. /\ LInv({NoOrder}) /\ ProjectionTyped /\ EpisodesApart(i) /\ EventsName(i)
        /\ HandledWritten(i) /\ StateKnown(i) /\ EpisodesKnown(i) /\ StubsKnown(i)
    BY DEF PInv, Known
  <1>3. n \in 1 .. Len(events[i]) /\ n \in Nat
    BY <1>2, LedgerParts
  <1>4. /\ UNCHANGED ledger /\ alertState' = alertState /\ stubs' = stubs
        /\ Receipt(i, n, "alerts") /\ events[i][n].type = "low"
        /\ alertEpisodes' = [alertEpisodes EXCEPT ![i] = Synced(i, x)]
    BY <1>1 DEF ApplyLow, Deliverable
  <1>5. /\ handled' \in [Ingredients -> SUBSET Receipts]
        /\ handled'[i] = handled[i] \cup {<<"alerts", n>>}
        /\ \A j \in Ingredients \ {i} : handled'[j] = handled[j]
    BY <1>2, <1>3, <1>4, ReceiptTyped
  <1>6. Names(i, n, x)
    <2>1. events[i][n].boundary = "opened"
      BY <1>2, <1>3, <1>4 DEF EventsName
    <2> QED
      BY <1>1, <1>2, <1>3, <2>1, EventNames
  <1>7. x \in 1 .. Len(episodes[i])
    BY <1>6 DEF Names
  <1>8. /\ alertEpisodes' \in [Ingredients -> Partial(EpisodeRows)]
        /\ alertEpisodes'[i] = Synced(i, x)
        /\ \A j \in Ingredients \ {i} : alertEpisodes'[j] = alertEpisodes[j]
    BY <1>2, <1>4, <1>7, SyncTyped
  <1>9. HandledWritten(i)'
    BY <1>2, <1>3, <1>4, <1>5, ReceiptWritten
  <1>10. StateKnown(i)'
    BY <1>2, <1>4, <1>5, RowUntouched
  <1>11. StubsKnown(i)'
    BY <1>2, <1>4, <1>5, StubsUntouched
  <1>12. /\ EpisodesKnown(i)'
         /\ \A y \in DOMAIN alertEpisodes[i] :
              /\ y \in DOMAIN alertEpisodes'[i]
              /\ alertEpisodes[i][y].closing.revision # 0 =>
                   alertEpisodes'[i][y] = alertEpisodes[i][y]
    BY <1>2, <1>3, <1>4, <1>5, <1>6, <1>8, EpisodeLearnt
  <1>13. ProjectionTyped'
    BY <1>2, <1>4, <1>5, <1>8 DEF ProjectionTyped
  <1>14. Forward(i)
    <2>1. alertState[i].revision \in Nat
      BY <1>2 DEF ProjectionTyped, StateRec
    <2> QED
      BY <1>4, <1>12, <2>1 DEF Forward
  <1>15. Known(i)'
    BY <1>9, <1>10, <1>11, <1>12 DEF Known
  <1> QED
    BY <1>4, <1>5, <1>8, <1>13, <1>14, <1>15, HandlerSound

\* An episode that is not the open one, or whose ingredient is not low, is over.
LEMMA SkippedIsOver ==
  ASSUME LInv({NoOrder}), NEW i \in Ingredients, NEW x \in 1 .. Len(episodes[i]),
         ~IsLow(ingredient[i]) \/ OpenEpisode(episodes, i) # x
  PROVE  episodes[i][x].closing # Unresolved
  <1> SUFFICES ASSUME episodes[i][x].closing = Unresolved
               PROVE  FALSE
    OBVIOUS
  <1>1. EpisodesSound(i) /\ episodes[i] \in Seq(EpisodeRows)
    BY LedgerParts
  <1>2. x = Len(episodes[i])
    BY EpisodeBounds
  <1>3. episodes[i] # <<>>
    BY <1>1
  <1>4. HasOpenEpisode(i)
    BY <1>2, <1>3 DEF HasOpenEpisode
  <1>5. IsLow(ingredient[i])
    BY <1>1, <1>4 DEF EpisodesSound
  <1>6. OpenEpisode(episodes, i) = x
    BY <1>2, <1>3 DEF OpenEpisode
  <1> QED
    BY <1>5, <1>6

\* A low event leaves a stub of the episode it opened.
LEMMA NotificationSound ==
  ASSUME PInv, NEW i \in Ingredients, NEW n \in DOMAIN events[i],
         ApplyNotification(i, n)
  PROVE  PInv' /\ \A j \in Ingredients : Forward(j)
  <1>1. PICK x : x = EpisodeOf(i, events[i][n])
    OBVIOUS
  <1>2. /\ LInv({NoOrder}) /\ ProjectionTyped /\ EpisodesApart(i) /\ EventsName(i)
        /\ HandledWritten(i) /\ StateKnown(i) /\ EpisodesKnown(i) /\ StubsKnown(i)
    BY DEF PInv, Known
  <1>3. n \in 1 .. Len(events[i]) /\ n \in Nat
    BY <1>2, LedgerParts
  <1>4. PICK o : o = Outcome(i, events[i][n])
    OBVIOUS
  <1>5. PICK b : b = stubs[i]
    OBVIOUS
  <1>6. /\ UNCHANGED ledger /\ alertState' = alertState /\ alertEpisodes' = alertEpisodes
        /\ Receipt(i, n, "notification_sink") /\ events[i][n].type = "low"
        /\ stubs' = IF x \in DOMAIN b THEN stubs
                    ELSE [stubs EXCEPT ![i] =
                            [y \in DOMAIN b \cup {x} |-> IF y = x THEN o ELSE b[y]]]
    <2>1. stubs' = IF x \in DOMAIN stubs[i] THEN stubs
                   ELSE [stubs EXCEPT ![i] =
                           [y \in DOMAIN @ \cup {x} |-> IF y = x THEN o ELSE @[y]]]
      BY <1>1, <1>4 DEF ApplyNotification
    <2>2. /\ UNCHANGED ledger /\ alertState' = alertState
          /\ alertEpisodes' = alertEpisodes
          /\ Receipt(i, n, "notification_sink") /\ events[i][n].type = "low"
      BY DEF ApplyNotification, Deliverable
    <2> QED
      BY <1>5, <2>1, <2>2
  <1>7. /\ handled' \in [Ingredients -> SUBSET Receipts]
        /\ handled'[i] = handled[i] \cup {<<"notification_sink", n>>}
        /\ \A j \in Ingredients \ {i} : handled'[j] = handled[j]
    BY <1>2, <1>3, <1>6, ReceiptTyped
  <1>8. events[i][n].boundary = "opened"
    BY <1>2, <1>3, <1>6 DEF EventsName
  <1>9. Names(i, n, x)
    BY <1>1, <1>2, <1>3, <1>8, EventNames
  <1>10. /\ x \in 1 .. Len(episodes[i]) /\ x \in Nat /\ ~episodes[i][x].suppressed
         /\ episodes[i][x].opened = events[i][n].revision
    BY <1>2, <1>8, <1>9, LedgerParts DEF Names
  <1>11. /\ o \in {"created", "skipped"}
         /\ o = "skipped" => episodes[i][x].closing # Unresolved
    <2>1. /\ o \in {"created", "skipped"}
          /\ o = "skipped" => ~IsLow(ingredient[i]) \/ OpenEpisode(episodes, i) # x
      BY <1>1, <1>4, <1>10 DEF Outcome
    <2> QED
      BY <1>2, <1>10, <2>1, SkippedIsOver
  <1>12. b \in [DOMAIN b -> {"created", "skipped"}] /\ DOMAIN b \subseteq Nat
    BY <1>2, <1>5, PartialRows DEF ProjectionTyped
  <1>13. PICK w : w = IF x \in DOMAIN b THEN b
                      ELSE [y \in DOMAIN b \cup {x} |-> IF y = x THEN o ELSE b[y]]
    OBVIOUS
  <1>14. /\ w \in [DOMAIN w -> {"created", "skipped"}] /\ DOMAIN w \in SUBSET Nat
         /\ DOMAIN w = DOMAIN b \cup {x}
         /\ \A y \in DOMAIN b : w[y] = b[y]
         /\ x \notin DOMAIN b => w[x] = o
    <2>1. CASE x \in DOMAIN b
      BY <1>12, <1>13, <2>1
    <2>2. CASE x \notin DOMAIN b
      <3>1. w = [y \in DOMAIN b \cup {x} |-> IF y = x THEN o ELSE b[y]]
        BY <1>13, <2>2
      <3>2. DOMAIN w = DOMAIN b \cup {x} /\ w[x] = o /\ \A y \in DOMAIN b : w[y] = b[y]
        BY <2>2, <3>1
      <3>3. w \in [DOMAIN w -> {"created", "skipped"}]
        BY <1>11, <1>12, <3>1, <3>2
      <3> QED
        BY <1>10, <1>12, <3>2, <3>3
    <2> QED
      BY <2>1, <2>2
  <1>15. w \in Partial({"created", "skipped"})
    BY <1>14, PartialOf
  <1>16. /\ stubs' \in [Ingredients -> Partial({"created", "skipped"})]
         /\ stubs'[i] = w
         /\ \A j \in Ingredients \ {i} : stubs'[j] = stubs[j]
    <2>1. stubs \in [Ingredients -> Partial({"created", "skipped"})]
      BY <1>2 DEF ProjectionTyped
    <2>2. CASE x \in DOMAIN b
      BY <1>5, <1>6, <1>13, <2>1, <2>2
    <2>3. CASE x \notin DOMAIN b
      <3>1. stubs' = [stubs EXCEPT ![i] = w]
        BY <1>6, <1>13, <2>3
      <3> QED
        BY <1>15, <2>1, <3>1
    <2> QED
      BY <2>2, <2>3
  <1>17. ProjectionTyped'
    BY <1>2, <1>6, <1>7, <1>16 DEF ProjectionTyped
  <1>18. HandledWritten(i)'
    BY <1>2, <1>3, <1>6, <1>7, ReceiptWritten
  <1>19. StateKnown(i)'
    BY <1>2, <1>6, <1>7, RowUntouched
  <1>20. EpisodesKnown(i)'
    BY <1>2, <1>6, <1>7, EpisodesUntouched
  <1>21. StubsKnown(i)'
    <2>1. episodes' = episodes /\ events' = events
      BY <1>6, LedgerSame
    <2>2. /\ DOMAIN w \subseteq 1 .. Len(episodes[i])
          /\ \A y \in DOMAIN w : /\ ~episodes[i][y].suppressed
                                 /\ w[y] = "skipped" => episodes[i][y].closing # Unresolved
      BY <1>2, <1>5, <1>10, <1>11, <1>14 DEF StubsKnown
    <2>3. ASSUME NEW m \in 1 .. Len(events[i]), <<"notification_sink", m>> \in handled'[i]
          PROVE  /\ events[i][m].boundary = "opened"
                 /\ \E y \in DOMAIN w : /\ ~episodes[i][y].suppressed
                                        /\ episodes[i][y].opened = events[i][m].revision
      <3>1. CASE m = n
        BY <1>8, <1>10, <1>14, <3>1
      <3>2. CASE m # n
        <4>1. <<"notification_sink", m>> \in handled[i]
          BY <1>7, <2>3, <3>2
        <4> QED
          BY <1>2, <1>5, <1>14, <4>1 DEF StubsKnown
      <3> QED
        BY <3>1, <3>2
    <2> QED
      BY <1>16, <2>1, <2>2, <2>3 DEF StubsKnown
  <1>22. Forward(i)
    <2>1. alertState[i].revision \in Nat
      BY <1>2 DEF ProjectionTyped, StateRec
    <2> QED
      BY <1>5, <1>6, <1>14, <1>16, <2>1 DEF Forward
  <1>23. Known(i)'
    BY <1>18, <1>19, <1>20, <1>21 DEF Known
  <1> QED
    BY <1>6, <1>7, <1>16, <1>17, <1>22, <1>23, HandlerSound

\* A command of the ledger takes nothing from what its consumers know.
LEMMA CommandKeepsKnown ==
  ASSUME PInv, NEW i \in Ingredients, LedgerStep(i), UNCHANGED projection
  PROVE  PInv' /\ \A j \in Ingredients : Forward(j)
  <1>1. LInv({NoOrder}) /\ ProjectionTyped
    BY DEF PInv
  <1>2. /\ alertState' = alertState /\ alertEpisodes' = alertEpisodes
        /\ stubs' = stubs /\ handled' = handled
    BY DEF projection
  <1>3. LInv({NoOrder})'
    <2>1. NoOrder \in {NoOrder} /\ LedgerNext
      BY DEF LedgerNext
    <2> QED
      BY <1>1, <2>1, LedgerNextSound
  <1>4. ProjectionTyped'
    BY <1>1, <1>2 DEF ProjectionTyped
  <1>5. /\ \E b : Moves(i, b)
        /\ \A j \in Ingredients \ {i} : Same(j)
    BY <1>1, StepMoves
  <1>6. ASSUME NEW j \in Ingredients
        PROVE  EpisodesApart(j)' /\ EventsName(j)' /\ Known(j)' /\ Forward(j)
    <2>1. /\ EpisodesApart(j) /\ EventsName(j) /\ Known(j)
          /\ HandledWritten(j) /\ StateKnown(j) /\ EpisodesKnown(j) /\ StubsKnown(j)
      BY DEF PInv, Known
    <2>2. CASE j # i
      <3>1. Same(j)
        BY <1>5, <2>2
      <3>2. EpisodesApart(j)' /\ EventsName(j)'
        BY <2>1, <3>1 DEF EpisodesApart, EventsName, Same
      <3> QED
        BY <1>1, <1>2, <2>1, <3>1, <3>2, NothingKnown
    <2>3. CASE j = i
      <3>1. PICK b : Moves(j, b)
        BY <1>5, <2>3
      <3>2. EpisodesApart(j)' /\ EventsName(j)'
        BY <1>1, <2>1, <3>1, ApartStays, NamesStay
      <3>3. HandledWritten(j)'
        <4>1. \A n \in 1 .. Len(events[j]) : n \in 1 .. Len(events'[j])
          BY <3>1 DEF Moves, EventsMoved
        <4> QED
          BY <1>2, <2>1, <4>1 DEF HandledWritten
      <3>4. StateKnown(j)'
        BY <1>1, <1>2, <2>1, <3>1, StateStays
      <3>5. EpisodesKnown(j)'
        BY <1>2, <2>1, <3>1, EpisodesStayKnown
      <3>6. StubsKnown(j)'
        BY <1>2, <2>1, <3>1, StubsStayKnown
      <3>7. Forward(j)
        <4>1. alertState[j].revision \in Nat
          BY <1>1 DEF ProjectionTyped, StateRec
        <4> QED
          BY <1>2, <4>1 DEF Forward
      <3> QED
        BY <3>2, <3>3, <3>4, <3>5, <3>6, <3>7 DEF Known
    <2> QED
      BY <2>2, <2>3
  <1> QED
    BY <1>3, <1>4, <1>6 DEF PInv

-----------------------------------------------------------------------------
(* Initialization *)

\* A baseline episode is the first one, it is open and it is never notified.
LEMMA BaselineRows ==
  ASSUME LInv({NoOrder}), NEW i \in Ingredients, NEW w, w = Baseline(i)
  PROVE  \/ w = episodes[i]
         \/ /\ episodes[i] = <<>> /\ Len(w) = 1
            /\ w[1].suppressed /\ w[1].closing = Unresolved
  <1>1. CASE IsLow(ingredient[i]) /\ ~HasOpenEpisode(i)
    <2>1. PICK x : x = Episode(ingredient[i], "maintenance_initialization", NoOrder)
      OBVIOUS
    <2>2. x.suppressed /\ x.closing = Unresolved
      BY <2>1 DEF Episode
    <2>3. episodes[i] = <<>>
      BY <1>1, LedgerParts DEF EpisodesSound, LegacyLow
    <2>4. w = Append(<<>>, x)
      BY <1>1, <2>1, <2>3 DEF Baseline
    <2>5. Len(w) = 1 /\ w[1] = x
      BY <2>4
    <2> QED
      BY <2>2, <2>3, <2>5
  <1>2. CASE ~(IsLow(ingredient[i]) /\ ~HasOpenEpisode(i))
    BY <1>2 DEF Baseline
  <1> QED
    BY <1>1, <1>2

\* Initialization keeps every episode and rebuilds the rows of alerts.
LEMMA RebuiltKnown ==
  ASSUME PInv, LInv({NoOrder})', InitializeAlerts, NEW i \in Ingredients
  PROVE  /\ alertState'[i] \in StateRec /\ alertEpisodes'[i] \in Partial(EpisodeRows)
         /\ EpisodesApart(i)' /\ EventsName(i)' /\ Known(i)' /\ Forward(i)
  <1>1. PICK e, w : e = episodes[i] /\ w = episodes'[i]
    OBVIOUS
  <1>2. PICK v : v = events[i]
    OBVIOUS
  <1>3. PICK a : a = alertEpisodes[i]
    OBVIOUS
  <1>4. PICK s, c, r : /\ s = alertState[i] /\ c = Current(ingredient', episodes', i)
                       /\ r = ingredient[i].revision
    OBVIOUS
  <1>5. /\ LInv({NoOrder}) /\ ProjectionTyped /\ EpisodesApart(i) /\ EventsName(i)
        /\ HandledWritten(i) /\ StateKnown(i) /\ EpisodesKnown(i) /\ StubsKnown(i)
    BY DEF PInv, Known
  <1>6. /\ ingredient' = ingredient /\ events' = events
        /\ stubs' = stubs /\ handled' = handled
        /\ episodes' = [j \in Ingredients |-> Baseline(j)]
        /\ alertEpisodes' = [j \in Ingredients |-> episodes'[j]]
        /\ alertState' = [j \in Ingredients |->
             IF ~ingredient'[j].exists
                \/ RebuildKeeps(alertState[j], Current(ingredient', episodes', j))
             THEN alertState[j] ELSE Current(ingredient', episodes', j)]
    BY DEF InitializeAlerts, Initialize, Rebuild
  <1>7. /\ w = e \/ (e = <<>> /\ Len(w) = 1 /\ w[1].suppressed /\ w[1].closing = Unresolved)
        /\ alertEpisodes'[i] = w
    BY <1>1, <1>5, <1>6, BaselineRows
  <1>8. /\ ingredient'[i] \in Row /\ ingredient'[i].revision = r /\ r \in Nat
        /\ e \in Seq(EpisodeRows) /\ w \in Seq(EpisodeRows)
    BY <1>1, <1>4, <1>5, <1>6, LedgerParts DEF LInv, LedgerTyped, EpisodeRows
  <1>9. /\ s \in StateRec /\ s.revision \in Nat /\ s.revision <= r
        /\ c \in StateRec /\ c.revision = r
    BY <1>1, <1>4, <1>5, <1>8, CurrentIsRow DEF ProjectionTyped, StateRec, StateKnown
  <1>10. alertState'[i] = IF ~ingredient[i].exists THEN s ELSE c
    <2>1. ~RebuildKeeps(s, c)
      BY <1>8, <1>9 DEF RebuildKeeps
    <2> QED
      BY <1>4, <1>6, <2>1
  <1>11. PICK t : t = alertState'[i]
    OBVIOUS
  <1>12. /\ t \in StateRec /\ t.revision \in Nat /\ t.revision <= r /\ s.revision <= t.revision
         /\ ingredient[i].exists => t = c /\ t.revision = r
         /\ ~ingredient[i].exists => t = s
    BY <1>8, <1>9, <1>10, <1>11
  <1>13. w \in [1 .. Len(w) -> EpisodeRows] /\ Len(w) \in Nat /\ DOMAIN w = 1 .. Len(w)
    BY <1>8
  <1>14. w \in Partial(EpisodeRows)
    <2>1. 1 .. Len(w) \in SUBSET Nat
      BY <1>13
    <2> QED
      BY <1>13, <2>1, PartialOf
  <1>15. \A x \in 1 .. Len(e) : x \in 1 .. Len(w) /\ w[x] = e[x]
    BY <1>7, <1>8
  <1>16. Unresolved.revision = 0
    BY DEF Unresolved
  <1>17. EpisodesApart(i)'
    <2>1. CASE w = e
      BY <1>1, <1>5, <2>1 DEF EpisodesApart
    <2>2. CASE Len(w) = 1
      <3>1. \A x, y \in 1 .. Len(w) : ~(x < y)
        BY <2>2
      <3> QED
        BY <1>1, <3>1 DEF EpisodesApart
    <2> QED
      BY <1>7, <2>1, <2>2
  <1>18. EventsName(i)'
    <2>1. \A x \in 1 .. Len(w) : w[x].closing.revision # 0 => x \in 1 .. Len(e)
      BY <1>7, <1>13, <1>16
    <2>2. /\ \A n \in 1 .. Len(v) : v[n].type = "low" => v[n].boundary = "opened"
          /\ \A n \in 1 .. Len(v) : v[n].boundary = "opened" =>
               \E x \in 1 .. Len(e) : ~e[x].suppressed /\ e[x].opened = v[n].revision
          /\ \A x \in 1 .. Len(e) : e[x].closing.revision # 0 =>
               \E n \in 1 .. Len(v) : /\ v[n].type = "state_changed"
                                      /\ v[n].boundary = "resolved"
                                      /\ v[n].revision = e[x].closing.revision
          /\ Len(v) > 0 => \E n \in 1 .. Len(v) : /\ v[n].type = "state_changed"
                                                  /\ v[n].revision = r
      BY <1>1, <1>2, <1>4, <1>5 DEF EventsName
    <2>3. ASSUME NEW n \in 1 .. Len(v), v[n].boundary = "opened"
          PROVE  \E x \in 1 .. Len(w) : ~w[x].suppressed /\ w[x].opened = v[n].revision
      <3>1. PICK x \in 1 .. Len(e) : ~e[x].suppressed /\ e[x].opened = v[n].revision
        BY <2>2, <2>3
      <3> QED
        BY <1>15, <3>1
    <2>4. \A x \in 1 .. Len(w) : w[x].closing.revision # 0 =>
            \E n \in 1 .. Len(v) : /\ v[n].type = "state_changed"
                                   /\ v[n].boundary = "resolved"
                                   /\ v[n].revision = w[x].closing.revision
      BY <1>15, <2>1, <2>2
    <2>5. events'[i] = v /\ ingredient'[i].revision = r
      BY <1>2, <1>6, <1>8
    <2> QED
      BY <1>1, <2>2, <2>3, <2>4, <2>5 DEF EventsName
  <1>19. HandledWritten(i)'
    BY <1>5, <1>6 DEF HandledWritten
  <1>20. StateKnown(i)'
    <2>1. \A n \in 1 .. Len(v) : <<"alerts", n>> \in handled[i] /\ v[n].type = "state_changed"
            => v[n].revision <= t.revision
      <3>1. CASE ingredient[i].exists
        BY <1>2, <1>4, <1>5, <1>12, <3>1, EventBounds
      <3>2. CASE ~ingredient[i].exists
        BY <1>2, <1>4, <1>5, <1>12, <3>2 DEF StateKnown
      <3> QED
        BY <3>1, <3>2
    <2>2. /\ alertState'[i] = t /\ events'[i] = v /\ handled'[i] = handled[i]
          /\ ingredient'[i] = ingredient[i] /\ ingredient'[i].revision = r
      BY <1>2, <1>4, <1>6, <1>11
    <2> QED
      BY <1>4, <1>12, <2>1, <2>2 DEF StateKnown
  <1>21. EpisodesKnown(i)'
    <2>1. /\ DOMAIN a \subseteq 1 .. Len(e)
          /\ \A n \in 1 .. Len(v) : <<"alerts", n>> \in handled[i] =>
               /\ v[n].boundary = "opened" =>
                    \E x \in DOMAIN a : ~e[x].suppressed /\ e[x].opened = v[n].revision
               /\ v[n].boundary = "resolved" =>
                    \E x \in DOMAIN a : /\ e[x].closing.revision = v[n].revision
                                        /\ e[x].closing # Unresolved
      BY <1>1, <1>2, <1>3, <1>5 DEF EpisodesKnown
    <2>2. \A n \in 1 .. Len(v) : <<"alerts", n>> \in handled[i] =>
               /\ v[n].boundary = "opened" =>
                    \E x \in DOMAIN w : ~w[x].suppressed /\ w[x].opened = v[n].revision
               /\ v[n].boundary = "resolved" =>
                    \E x \in DOMAIN w : /\ w[x].closing.revision = v[n].revision
                                        /\ w[x].closing # Unresolved
      BY <1>13, <1>15, <2>1
    <2>3. events'[i] = v /\ handled'[i] = handled[i]
      BY <1>2, <1>6
    <2> QED
      BY <1>1, <1>7, <1>13, <2>2, <2>3 DEF EpisodesKnown
  <1>22. StubsKnown(i)'
    <2>1. PICK b : b = stubs[i]
      OBVIOUS
    <2>2. /\ DOMAIN b \subseteq 1 .. Len(e)
          /\ \A x \in DOMAIN b : /\ ~e[x].suppressed
                                 /\ b[x] = "skipped" => e[x].closing # Unresolved
          /\ \A n \in 1 .. Len(v) : <<"notification_sink", n>> \in handled[i] =>
               /\ v[n].boundary = "opened"
               /\ \E x \in DOMAIN b : ~e[x].suppressed /\ e[x].opened = v[n].revision
      BY <1>1, <1>2, <1>5, <2>1 DEF StubsKnown
    <2>3. /\ DOMAIN b \subseteq 1 .. Len(w)
          /\ \A x \in DOMAIN b : w[x] = e[x]
      BY <1>15, <2>2
    <2>4. stubs'[i] = b /\ events'[i] = v /\ handled'[i] = handled[i]
      BY <1>2, <1>6, <2>1
    <2> QED
      BY <1>1, <2>2, <2>3, <2>4 DEF StubsKnown
  <1>23. Forward(i)
    <2>1. \A n \in DOMAIN a : /\ n \in DOMAIN w
                              /\ a[n].closing.revision # 0 => w[n] = a[n]
      BY <1>1, <1>3, <1>5, <1>13, <1>15, <1>16 DEF EpisodesKnown
    <2> QED
      BY <1>3, <1>4, <1>6, <1>7, <1>11, <1>12, <2>1 DEF Forward
  <1>24. Known(i)'
    BY <1>19, <1>20, <1>21, <1>22 DEF Known
  <1> QED
    BY <1>7, <1>11, <1>12, <1>14, <1>17, <1>18, <1>23, <1>24

\* Initialization and the rebuild after it.
LEMMA InitializeAlertsSound ==
  ASSUME PInv, InitializeAlerts
  PROVE  PInv' /\ \A i \in Ingredients : Forward(i)
  <1>1. LInv({NoOrder})'
    <2>1. NoOrder \in {NoOrder} /\ Initialize
      BY DEF InitializeAlerts
    <2> QED
      BY <2>1, InitializeSound DEF PInv
  <1>2. \A i \in Ingredients :
          /\ alertState'[i] \in StateRec /\ alertEpisodes'[i] \in Partial(EpisodeRows)
          /\ EpisodesApart(i)' /\ EventsName(i)' /\ Known(i)' /\ Forward(i)
    BY <1>1, RebuiltKnown
  <1>3. ProjectionTyped'
    <2>1. /\ stubs' = stubs /\ handled' = handled
          /\ alertState' = [i \in Ingredients |-> alertState'[i]]
          /\ alertEpisodes' = [i \in Ingredients |-> alertEpisodes'[i]]
      BY DEF InitializeAlerts, Rebuild
    <2>2. ProjectionTyped
      BY DEF PInv
    <2> QED
      BY <1>2, <2>1, <2>2 DEF ProjectionTyped
  <1> QED
    BY <1>1, <1>2, <1>3 DEF PInv

\* No row, no episode and no receipt to begin with.
LEMMA InitKnown ==
  ASSUME AlertInit
  PROVE  PInv
  <1>1. LInv({NoOrder})
    <2>1. NoOrder \in {NoOrder} /\ LedgerInit
      BY DEF AlertInit
    <2> QED
      BY <2>1, InitSound
  <1>2. /\ alertState = [i \in Ingredients |-> NoState]
        /\ alertEpisodes = [i \in Ingredients |-> NoRows]
        /\ stubs = [i \in Ingredients |-> NoRows]
        /\ handled = [i \in Ingredients |-> {}]
    BY DEF AlertInit
  <1>3. \A i \in Ingredients : episodes[i] = <<>> /\ events[i] = <<>>
    BY DEF AlertInit, LedgerInit
  <1>4. \A S : NoRows \in Partial(S)
    <2> TAKE S
    <2>1. NoRows \in [{} -> S] /\ {} \in SUBSET Nat
      BY DEF NoRows
    <2> QED
      BY <2>1, PartialOf
  <1>5. NoState \in StateRec /\ NoState.revision = 0 /\ DOMAIN NoRows = {}
    BY Bounds DEF NoState, StateRec, NoRows
  <1>6. ProjectionTyped
    BY <1>2, <1>4, <1>5 DEF ProjectionTyped
  <1>7. ASSUME NEW i \in Ingredients
        PROVE  EpisodesApart(i) /\ EventsName(i) /\ Known(i)
    <2>1. /\ 1 .. Len(episodes[i]) = {} /\ 1 .. Len(events[i]) = {}
          /\ ~(Len(events[i]) > 0)
      BY <1>3
    <2>2. EpisodesApart(i) /\ EventsName(i)
      BY <2>1 DEF EpisodesApart, EventsName
    <2>3. HandledWritten(i)
      BY <1>2 DEF HandledWritten
    <2>4. StateKnown(i)
      <3>1. /\ ingredient[i].revision \in Nat
            /\ ingredient[i].exists => ingredient[i].revision >= 1
        BY <1>1, LedgerParts DEF RowSound
      <3> QED
        BY <1>2, <1>5, <2>1, <3>1 DEF StateKnown
    <2>5. EpisodesKnown(i)
      BY <1>2, <1>5, <2>1 DEF EpisodesKnown
    <2>6. StubsKnown(i)
      BY <1>2, <1>5, <2>1 DEF StubsKnown
    <2> QED
      BY <2>2, <2>3, <2>4, <2>5, <2>6 DEF Known
  <1> QED
    BY <1>1, <1>6, <1>7 DEF PInv

\* Every step keeps what is known and goes forward.
LEMMA NextSound ==
  ASSUME PInv, [AlertNext]_alertVars
  PROVE  PInv' /\ \A i \in Ingredients : Forward(i)
  <1>1. CASE InitializeAlerts
    BY <1>1, InitializeAlertsSound
  <1>2. ASSUME NEW i \in Ingredients, LedgerStep(i), UNCHANGED projection
        PROVE  PInv' /\ \A j \in Ingredients : Forward(j)
    BY <1>2, CommandKeepsKnown
  <1>3. ASSUME NEW i \in Ingredients, NEW n \in DOMAIN events[i], ConsumerStep(i, n)
        PROVE  PInv' /\ \A j \in Ingredients : Forward(j)
    BY <1>3, StateChangedSound, LowSound, NotificationSound DEF ConsumerStep
  <1>4. CASE UNCHANGED alertVars
    <2>1. /\ UNCHANGED ledger /\ alertState' = alertState
          /\ alertEpisodes' = alertEpisodes /\ stubs' = stubs /\ handled' = handled
      BY <1>4 DEF alertVars, projection
    <2>2. LInv({NoOrder})'
      <3>1. NoOrder \in {NoOrder}
        OBVIOUS
      <3> QED
        BY <2>1, <3>1, LedgerNextSound DEF PInv
    <2>3. ASSUME NEW i \in Ingredients
          PROVE  EpisodesApart(i)' /\ EventsName(i)' /\ Known(i)' /\ Forward(i)
      <3>1. Same(i) /\ Known(i) /\ ProjectionTyped /\ EpisodesApart(i) /\ EventsName(i)
        BY <2>1, LedgerSame DEF PInv
      <3>2. Known(i)' /\ Forward(i)
        BY <2>1, <3>1, NothingKnown
      <3> QED
        BY <3>1, <3>2 DEF EpisodesApart, EventsName, Same
    <2>4. ProjectionTyped'
      BY <2>1 DEF PInv, ProjectionTyped
    <2> QED
      BY <2>2, <2>3, <2>4 DEF PInv
  <1> QED
    BY <1>1, <1>2, <1>3, <1>4 DEF AlertNext

-----------------------------------------------------------------------------
(* What the consumers promise *)

\* Whoever has handled every event knows every episode and the state.
LEMMA HandledAll ==
  ASSUME PInv, NEW i \in Ingredients,
         \A n \in 1 .. Len(events[i]) : <<"alerts", n>> \in handled[i]
  PROVE  /\ DOMAIN alertEpisodes[i] = 1 .. Len(episodes[i])
         /\ \A x \in 1 .. Len(episodes[i]) : alertEpisodes[i][x] = episodes[i][x]
         /\ events[i] # <<>> => alertState[i] = Current(ingredient, episodes, i)
  <1>1. PICK e, v : e = episodes[i] /\ v = events[i]
    OBVIOUS
  <1>2. PICK a, s : a = alertEpisodes[i] /\ s = alertState[i]
    OBVIOUS
  <1>3. PICK r : r = ingredient[i].revision
    OBVIOUS
  <1>4. /\ LInv({NoOrder}) /\ ProjectionTyped /\ EpisodesApart(i) /\ EventsName(i)
        /\ StateKnown(i) /\ EpisodesKnown(i)
    BY DEF PInv, Known
  <1>5. /\ DOMAIN a \subseteq 1 .. Len(e)
        /\ \A x \in 1 .. Len(e) : e[x].suppressed => x \in DOMAIN a
        /\ \A x \in DOMAIN a :
             a[x] = e[x] \/ (a[x].closing = Unresolved /\ e[x].closing # Unresolved)
        /\ \A n \in 1 .. Len(v) :
             /\ v[n].boundary = "opened" =>
                  \E x \in DOMAIN a : ~e[x].suppressed /\ e[x].opened = v[n].revision
             /\ v[n].boundary = "resolved" =>
                  \E x \in DOMAIN a : /\ e[x].closing.revision = v[n].revision
                                      /\ e[x].closing # Unresolved
                                      /\ a[x] = e[x]
    BY <1>1, <1>2, <1>4 DEF EpisodesKnown
  <1>6. ASSUME NEW x \in 1 .. Len(e)
        PROVE  x \in DOMAIN a
    <2>1. CASE e[x].suppressed
      BY <1>5, <2>1
    <2>2. CASE ~e[x].suppressed
      <3>1. LowsMatch(i)
        BY <1>4, LedgerParts DEF EventsSound
      <3>2. PICK n \in 1 .. Len(v) : v[n].type = "low" /\ v[n].revision = e[x].opened
        BY <1>1, <2>2, <3>1 DEF LowsMatch
      <3>3. v[n].boundary = "opened"
        BY <1>1, <1>4, <3>2 DEF EventsName
      <3>4. PICK y \in DOMAIN a : e[y].opened = v[n].revision
        BY <1>5, <3>3
      <3>5. y = x
        BY <1>1, <1>4, <1>5, <3>2, <3>4, OneEpisode
      <3> QED
        BY <3>4, <3>5
    <2> QED
      BY <2>1, <2>2
  <1>7. ASSUME NEW x \in 1 .. Len(e)
        PROVE  a[x] = e[x]
    <2> SUFFICES ASSUME a[x] # e[x]
                 PROVE  FALSE
      OBVIOUS
    <2>1. e[x].closing # Unresolved
      BY <1>5, <1>6
    <2>2. e[x].closing.revision # 0
      BY <1>1, <1>4, <2>1, EpisodeBounds
    <2>3. PICK n \in 1 .. Len(v) : /\ v[n].boundary = "resolved"
                                   /\ v[n].revision = e[x].closing.revision
      BY <1>1, <1>4, <2>2 DEF EventsName
    <2>4. PICK y \in DOMAIN a : e[y].closing.revision = v[n].revision /\ a[y] = e[y]
      BY <1>5, <2>3
    <2>5. y = x
      <3>1. y \in 1 .. Len(episodes[i]) /\ x \in 1 .. Len(episodes[i])
        BY <1>1, <1>5
      <3>2. /\ episodes[i][y].closing.revision = episodes[i][x].closing.revision
            /\ episodes[i][y].closing.revision # 0
        BY <1>1, <2>2, <2>3, <2>4
      <3> QED
        BY <1>4, <3>1, <3>2, OneEpisode
    <2> QED
      BY <2>4, <2>5
  <1>8. ASSUME v # <<>>
        PROVE  s = Current(ingredient, episodes, i)
    <2>1. v \in Seq(EventRec) /\ r \in Nat /\ s.revision \in Nat
      BY <1>1, <1>2, <1>3, <1>4, LedgerParts DEF ProjectionTyped, StateRec
    <2>2. Len(v) > 0
      BY <1>8, <2>1
    <2>3. PICK n \in 1 .. Len(v) : v[n].type = "state_changed" /\ v[n].revision = r
      BY <1>1, <1>3, <1>4, <2>2 DEF EventsName
    <2>4. r <= s.revision /\ s.revision <= r
      BY <1>1, <1>2, <1>3, <1>4, <2>3 DEF StateKnown
    <2>5. ingredient[i].exists
      BY <1>1, <1>4, <1>8, LedgerParts DEF RowSound
    <2> QED
      BY <1>2, <1>3, <1>4, <2>1, <2>4, <2>5 DEF StateKnown
  <1> QED
    BY <1>1, <1>2, <1>5, <1>6, <1>7, <1>8

\* A stub stands for every low event that was handled, and says what it must.
LEMMA StubsSay ==
  ASSUME PInv, NEW i \in Ingredients
  PROVE  /\ \A n \in 1 .. Len(events[i]) : <<"notification_sink", n>> \in handled[i] =>
              /\ EpisodeOf(i, events[i][n]) \in DOMAIN stubs[i]
              /\ episodes[i][EpisodeOf(i, events[i][n])].closing.revision = 0 =>
                   stubs[i][EpisodeOf(i, events[i][n])] = "created"
         /\ \A x \in DOMAIN stubs[i] :
              /\ ~episodes[i][x].suppressed
              /\ stubs[i][x] = "skipped" => episodes[i][x].closing.revision # 0
  <1>1. PICK e, v : e = episodes[i] /\ v = events[i]
    OBVIOUS
  <1>2. PICK b : b = stubs[i]
    OBVIOUS
  <1>3. /\ LInv({NoOrder}) /\ ProjectionTyped /\ EpisodesApart(i) /\ EventsName(i)
        /\ StubsKnown(i)
    BY DEF PInv, Known
  <1>4. /\ DOMAIN b \subseteq 1 .. Len(e)
        /\ \A x \in DOMAIN b : /\ ~e[x].suppressed
                               /\ b[x] = "skipped" => e[x].closing # Unresolved
        /\ \A n \in 1 .. Len(v) : <<"notification_sink", n>> \in handled[i] =>
             /\ v[n].boundary = "opened"
             /\ \E x \in DOMAIN b : ~e[x].suppressed /\ e[x].opened = v[n].revision
    BY <1>1, <1>2, <1>3 DEF StubsKnown
  <1>5. ASSUME NEW x \in DOMAIN b, b[x] = "skipped"
        PROVE  e[x].closing.revision # 0
    <2>1. x \in 1 .. Len(episodes[i]) /\ episodes[i][x].closing # Unresolved
      BY <1>1, <1>4, <1>5
    <2> QED
      BY <1>1, <1>3, <2>1, EpisodeBounds
  <1>6. \A x \in DOMAIN b : b[x] \in {"created", "skipped"}
    BY <1>2, <1>3, PartialRows DEF ProjectionTyped
  <1>7. ASSUME NEW n \in 1 .. Len(v), <<"notification_sink", n>> \in handled[i],
               NEW x, x = EpisodeOf(i, v[n])
        PROVE  x \in DOMAIN b /\ (e[x].closing.revision = 0 => b[x] = "created")
    <2>1. v[n].boundary = "opened"
      BY <1>4, <1>7
    <2>2. Names(i, n, x)
      BY <1>1, <1>3, <1>7, <2>1, EventNames
    <2>3. x \in 1 .. Len(episodes[i]) /\ episodes[i][x].opened = v[n].revision
      BY <1>1, <2>1, <2>2 DEF Names
    <2>4. PICK y \in DOMAIN b : e[y].opened = v[n].revision
      BY <1>4, <1>7
    <2>5. y \in 1 .. Len(episodes[i]) /\ episodes[i][y].opened = episodes[i][x].opened
      BY <1>1, <1>4, <2>3, <2>4
    <2>6. y = x
      BY <1>3, <2>3, <2>5, OneEpisode
    <2> QED
      BY <1>5, <1>6, <2>4, <2>6
  <1> QED
    BY <1>1, <1>2, <1>4, <1>5, <1>7

\* What the invariant says to a reader of the tables.
LEMMA KnownFollows ==
  ASSUME PInv
  PROVE  AlertsFollowLedger
  <1>1. AlertStateTrue
    BY DEF PInv, Known, StateKnown, AlertStateTrue
  <1>2. \A i \in Ingredients : /\ DOMAIN events[i] = 1 .. Len(events[i])
                               /\ DOMAIN episodes[i] = 1 .. Len(episodes[i])
    <2> TAKE i \in Ingredients
    <2>1. episodes[i] \in Seq(EpisodeRows) /\ events[i] \in Seq(EventRec)
      BY LedgerParts DEF PInv
    <2> QED
      BY <2>1
  <1>3. AlertsCatchUp
    BY <1>2, HandledAll DEF AlertsCatchUp
  <1>4. EpisodesNotified
    BY <1>2, StubsSay DEF EpisodesNotified
  <1> QED
    BY <1>1, <1>3, <1>4 DEF AlertsFollowLedger

-----------------------------------------------------------------------------
(* Theorems *)

\* The invariant of the ledger and its consumers (record_inventory_transition,
\* apply_alert_event, apply_notification_event, AlertProjectionService.rebuild).
THEOREM AlertsInvariant == AlertSpec => []PInv
  <1>1. AlertInit => PInv
    BY InitKnown
  <1>2. PInv /\ [AlertNext]_alertVars => PInv'
    BY NextSound
  <1> QED
    BY <1>1, <1>2, PTL DEF AlertSpec

\* With its consumers, too, the ledger explains its balances.
THEOREM LedgerStaysExplained == AlertSpec => []LedgerExplained
  <1>1. PInv => LedgerExplained
    BY SoundIsExplained DEF PInv
  <1> QED
    BY <1>1, AlertsInvariant, PTL

\* With its consumers, too, episodes and events tell the ledger.
THEOREM LedgerStaysTold == AlertSpec => []EpisodesTellLedger
  <1>1. PInv => EpisodesTellLedger
    BY SoundIsTold DEF PInv
  <1> QED
    BY <1>1, AlertsInvariant, PTL

\* An alert row of the ledger's revision is its state, whoever has handled every
\* event, in any order, is up to date, and an open episode whose event was handled
\* was notified (apply_alert_event, apply_notification_event).
THEOREM AlertsAreTrue == AlertSpec => []AlertsFollowLedger
  <1>1. PInv => AlertsFollowLedger
    BY KnownFollows
  <1> QED
    BY <1>1, AlertsInvariant, PTL

\* No event, however late, and no rebuild takes the projection back
\* (AlertProjectionService, notification stubs).
THEOREM AlertsGoForward == AlertSpec => AlertsNeverGoBack
  <1>1. PInv /\ [AlertNext]_alertVars =>
          [\A i \in Ingredients :
             /\ alertState'[i].revision >= alertState[i].revision
             /\ \A n \in DOMAIN alertEpisodes[i] :
                  /\ n \in DOMAIN alertEpisodes'[i]
                  /\ alertEpisodes[i][n].closing.revision # 0 =>
                       alertEpisodes'[i][n] = alertEpisodes[i][n]
             /\ \A x \in DOMAIN stubs[i] : /\ x \in DOMAIN stubs'[i]
                                           /\ stubs'[i][x] = stubs[i][x]]_alertVars
    BY NextSound DEF Forward
  <1> QED
    BY <1>1, AlertsInvariant, PTL DEF AlertSpec, AlertsNeverGoBack

=============================================================================
