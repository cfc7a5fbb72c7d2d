----------------------- MODULE InventoryLedgerProofs -----------------------
(***************************************************************************)
(* Proofs about InventoryLedger, for every set of ingredients and keys and *)
(* every bound.                                                            *)
(*                                                                         *)
(* LInv describes each ingredient alone: its row, its movements, its       *)
(* episodes and its events.  What keeps episodes and events together is    *)
(* that revisions only grow: what is recorded at a new revision cannot be  *)
(* mistaken for anything recorded before.  Os stands for the orders whose  *)
(* consumption the ledger may record, NoOrder among them.                  *)
(***************************************************************************)
EXTENDS InventoryLedger, SequenceTheorems, TLAPS

MovementRec(Os) == [kind: Kinds, delta: Int, after: Quantities, version: Nat,
                    key: Keys \cup {NoKey}, order: Os]
ClosingRec(Os) == [revision: Nat, reason: Reasons \cup {"none"}, quantity: Quantities,
                   threshold: Quantities, active: BOOLEAN,
                   source: Sources \cup {"none"}, order: Os]
EpisodeRec(Os) == [opened: Nat, quantity: Quantities, threshold: Quantities,
                   source: Sources, order: Os, suppressed: BOOLEAN,
                   closing: ClosingRec(Os)]
EventRec == [type: {"state_changed", "low"}, revision: Nat, quantity: Quantities,
             threshold: Quantities, active: BOOLEAN,
             boundary: {"none", "opened", "resolved"}]

LedgerTyped(Os) ==
    /\ ingredient \in [Ingredients -> Row]
    /\ movements \in [Ingredients -> Seq(MovementRec(Os))]
    /\ episodes \in [Ingredients -> Seq(EpisodeRec(Os))]
    /\ events \in [Ingredients -> Seq(EventRec)]
    /\ initialized \in BOOLEAN

RowSound(i) ==
    LET row == ingredient[i]
    IN /\ row.exists => row.revision >= 1
       /\ ~row.exists => row = NoRow /\ episodes[i] = <<>> /\ events[i] = <<>>
       /\ ~row.active => row.quantity = 0

MovementsSound(i) ==
    LET m == movements[i]
    IN /\ m = <<>> <=> ~ingredient[i].exists
       /\ \A n \in 1 .. Len(m) : MovementRow(m[n])
       /\ ingredient[i].version = Len(m)
       /\ ingredient[i].quantity = IF Len(m) = 0 THEN 0 ELSE m[Len(m)].after
       /\ \A n \in 1 .. Len(m) :
            /\ m[n].version = n
            /\ m[n].after = m[n].delta + (IF n = 1 THEN 0 ELSE m[n - 1].after)
       /\ \A x, y \in 1 .. Len(m) : m[x].key = m[y].key /\ m[x].key # NoKey => x = y

\* Low without an open episode: since before there were episodes.
LegacyLow(i) ==
    /\ movements[i][1].key = NoKey /\ ~initialized
    /\ episodes[i] = <<>>
    /\ \A n \in 1 .. Len(events[i]) : IsLow(events[i][n])

EpisodesSound(i) ==
    LET e == episodes[i]
    IN /\ \A n \in 1 .. Len(e) : /\ EpisodeRow(e[n])
                                 /\ e[n].opened <= ingredient[i].revision
                                 /\ e[n].closing.revision <= ingredient[i].revision
       /\ \A n \in 1 .. Len(e) :
            /\ e[n].closing = Unresolved => n = Len(e)
            /\ n < Len(e) => e[n].closing.revision < e[n + 1].opened
       /\ HasOpenEpisode(i) => IsLow(ingredient[i])
       /\ IsLow(ingredient[i]) /\ ~HasOpenEpisode(i) => LegacyLow(i)

\* State events number the revisions; the last one is the row.
StatesTold(i) ==
    LET v == events[i]
        state == {n \in DOMAIN v : v[n].type = "state_changed"}
        row == ingredient[i]
    IN /\ state = {} => row.revision = IF row.exists THEN 1 ELSE 0
       /\ \A m, n \in state :
            m < n /\ (\A x \in state : x <= m \/ n <= x) =>
                v[n].revision = v[m].revision + 1
       /\ \A n \in state : (\A x \in state : x <= n) =>
            /\ v[n].revision = row.revision /\ v[n].quantity = row.quantity
            /\ v[n].threshold = row.threshold /\ v[n].active = row.active

\* Low events and episodes that may be notified belong together, one by one.
LowsMatch(i) ==
    LET e == episodes[i]
        v == events[i]
    IN /\ \A n \in 1 .. Len(v) : v[n].type = "low" =>
             \E x \in 1 .. Len(e) : ~e[x].suppressed /\ e[x].opened = v[n].revision
       /\ \A x \in 1 .. Len(e) : ~e[x].suppressed =>
             \E n \in 1 .. Len(v) : v[n].type = "low" /\ v[n].revision = e[x].opened
       /\ \A m, n \in 1 .. Len(v) :
             v[m].type = "low" /\ v[n].type = "low" /\ v[m].revision = v[n].revision => m = n

EventsSound(i) ==
    /\ \A n \in 1 .. Len(events[i]) : /\ TransitionFacts(i, events[i][n])
                                      /\ events[i][n].revision <= ingredient[i].revision
    /\ LowsMatch(i)
    /\ StatesTold(i)

LInv(Os) ==
    /\ LedgerTyped(Os)
    /\ \A i \in Ingredients :
         RowSound(i) /\ MovementsSound(i) /\ EpisodesSound(i) /\ EventsSound(i)

-----------------------------------------------------------------------------
(* Rows, boundaries and what a transition appends *)

\* Bounds.
LEMMA Bounds ==
    /\ MaxQuantity \in Nat /\ 0 \in Quantities /\ Thresholds \subseteq Quantities
    /\ \A q \in Quantities : q \in Nat /\ q <= MaxQuantity
  BY LedgerAssumption DEF Quantities, Thresholds

\* A row that was never created.
LEMMA NoRowIsRow ==
    /\ NoRow \in Row /\ ~NoRow.exists /\ ~NoRow.active /\ NoRow.quantity = 0
    /\ NoRow.version = 0 /\ NoRow.revision = 0 /\ ~IsLow(NoRow)
  BY LedgerAssumption DEF NoRow, Row, Quantities, Thresholds, IsLow

\* inventory_state_changed numbers a change with the next revision and nothing else.
LEMMA RevisedRow ==
  ASSUME NEW before \in Row, NEW after \in Row, after.revision = before.revision
  PROVE  LET row == Revised(before, after)
         IN /\ row \in Row /\ row.exists = after.exists /\ row.quantity = after.quantity
            /\ row.version = after.version /\ row.threshold = after.threshold
            /\ row.active = after.active
            /\ row.revision = before.revision + (IF StateChanged(before, after) THEN 1 ELSE 0)
  BY DEF Revised, Row

\* A boundary is a change of what is low, and shows in the row.
LEMMA BoundaryChanges ==
  ASSUME NEW before \in Row, NEW after \in Row, before.exists => after.exists,
         ~before.exists => before = NoRow
  PROVE  /\ EpisodeTransition(before, after) \in {"none", "opened", "resolved"}
         /\ EpisodeTransition(before, after) = "opened" <=> ~IsLow(before) /\ IsLow(after)
         /\ EpisodeTransition(before, after) = "resolved" <=> IsLow(before) /\ ~IsLow(after)
         /\ EpisodeTransition(before, after) # "none" => StateChanged(before, after)
         /\ ResolutionReason(before, after) \in Reasons
  BY DEF EpisodeTransition, IsLow, StateChanged, ResolutionReason, Reasons

\* A sequence grows by one element, or by two.
LEMMA GrownByOne ==
  ASSUME NEW S, NEW v \in Seq(S), NEW a \in S, NEW w, w = v \o <<a>> \o <<>>
  PROVE  /\ w \in Seq(S) /\ Len(w) = Len(v) + 1 /\ w[Len(v) + 1] = a
         /\ \A n \in 1 .. Len(v) : w[n] = v[n]
  <1>1. PICK u : u = v \o <<a>>
    OBVIOUS
  <1>2. <<a>> \in Seq(S) /\ Len(<<a>>) = 1 /\ <<a>>[1] = a
    OBVIOUS
  <1>3. /\ u \in Seq(S) /\ Len(u) = Len(v) + 1 /\ u[Len(v) + 1] = a
        /\ \A n \in 1 .. Len(v) : u[n] = v[n]
    BY <1>1, <1>2, ConcatProperties
  <1>4. w = u
    BY <1>1, <1>3, ConcatEmptySeq
  <1> QED
    BY <1>3, <1>4

LEMMA GrownByTwo ==
  ASSUME NEW S, NEW v \in Seq(S), NEW a \in S, NEW b \in S, NEW w,
         w = v \o <<a>> \o <<b>>
  PROVE  /\ w \in Seq(S) /\ Len(w) = Len(v) + 2
         /\ w[Len(v) + 1] = a /\ w[Len(v) + 2] = b
         /\ \A n \in 1 .. Len(v) : w[n] = v[n]
  <1>1. PICK u : u = v \o <<a>> \o <<>>
    OBVIOUS
  <1>2. <<b>> \in Seq(S) /\ Len(<<b>>) = 1 /\ <<b>>[1] = b
    OBVIOUS
  <1>3. /\ u \in Seq(S) /\ Len(u) = Len(v) + 1 /\ u[Len(v) + 1] = a
        /\ \A n \in 1 .. Len(v) : u[n] = v[n]
    BY <1>1, GrownByOne
  <1>4. v \o <<a>> \in Seq(S)
    OBVIOUS
  <1>5. u = v \o <<a>>
    BY <1>1, <1>4, ConcatEmptySeq
  <1>6. w = u \o <<b>>
    BY <1>5
  <1> QED
    BY <1>2, <1>3, <1>6, ConcatProperties

\* Events are appended: the state, then, when stock gets low, inventory.low.
EventsGrew(v, w, row, b) ==
    /\ Len(w) = Len(v) + (IF b = "opened" THEN 2 ELSE 1)
    /\ \A n \in 1 .. Len(v) : w[n] = v[n]
    /\ w[Len(v) + 1] = StateEvent(row, b)
    /\ b = "opened" => w[Len(v) + 2] = LowEvent(row)

\* What EventsAfter appends.
LEMMA EventsGrow ==
  ASSUME NEW i \in Ingredients, NEW v \in Seq(EventRec), v = events[i],
         ingredient[i] \in Row,
         NEW after \in Row, StateChanged(ingredient[i], after),
         NEW row \in Row, row = Revised(ingredient[i], after),
         NEW b \in {"none", "opened", "resolved"}, b = RecordedBoundary(i, after),
         NEW w, w = EventsAfter(i, after)
  PROVE  w \in Seq(EventRec) /\ EventsGrew(v, w, row, b)
  <1>1. StateEvent(row, b) \in EventRec /\ LowEvent(row) \in EventRec
    BY Bounds DEF StateEvent, LowEvent, EventRec, Row
  <1>2. CASE b = "opened"
    <2>1. w = v \o <<StateEvent(row, b)>> \o <<LowEvent(row)>>
      BY <1>2 DEF EventsAfter
    <2> QED
      BY <1>1, <1>2, <2>1, GrownByTwo DEF EventsGrew
  <1>3. CASE b # "opened"
    <2>1. w = v \o <<StateEvent(row, b)>> \o <<>>
      BY <1>3 DEF EventsAfter
    <2> QED
      BY <1>1, <1>3, <2>1, GrownByOne DEF EventsGrew
  <1> QED
    BY <1>2, <1>3

\* An unresolved episode has no closing revision.
LEMMA ClosingFacts ==
  ASSUME NEW Os, NoOrder \in Os
  PROVE  /\ Unresolved \in ClosingRec(Os) /\ Unresolved.revision = 0
         /\ Unresolved.reason = "none"
  BY Bounds DEF Unresolved, ClosingRec

\* An opened episode satisfies the constraints of its table.
LEMMA OpenedEpisode ==
  ASSUME NEW Os, NoOrder \in Os, NEW row \in Row, IsLow(row), row.revision >= 1,
         NEW source \in Sources, NEW order \in Os,
         (source = "order_acceptance") <=> order # NoOrder,
         NEW x, x = Episode(row, source, order)
  PROVE  /\ x \in EpisodeRec(Os) /\ EpisodeRow(x) /\ x.opened = row.revision
         /\ x.closing = Unresolved
         /\ x.suppressed <=> source = "maintenance_initialization"
  <1>1. x \in EpisodeRec(Os)
    BY Bounds, ClosingFacts DEF Episode, EpisodeRec, Row
  <1>2. /\ x.opened = row.revision /\ x.quantity = row.quantity
        /\ x.threshold = row.threshold /\ x.source = source /\ x.order = order
        /\ x.closing = Unresolved /\ x.suppressed = (source = "maintenance_initialization")
    BY DEF Episode
  <1>3. /\ row.quantity \in Quantities /\ row.threshold \in Quantities
        /\ row.quantity <= row.threshold
    BY Bounds DEF Row, IsLow
  <1> QED
    BY <1>1, <1>2, <1>3 DEF EpisodeRow, EpisodeFacts

Closed(e, c) == [e EXCEPT !.closing = c]

\* A resolved episode satisfies them too.
LEMMA ResolvedEpisode ==
  ASSUME NEW Os, NoOrder \in Os, NEW e \in EpisodeRec(Os), EpisodeRow(e),
         NEW row \in Row, ~IsLow(row), e.opened < row.revision,
         NEW reason \in Reasons, NEW source \in Sources, NEW order \in Os,
         (source = "order_acceptance") <=> order # NoOrder,
         NEW c, c = Closing(row, reason, source, order), NEW x, x = Closed(e, c)
  PROVE  /\ x \in EpisodeRec(Os) /\ EpisodeRow(x) /\ x.opened = e.opened
         /\ x.suppressed = e.suppressed
         /\ x.closing # Unresolved /\ x.closing.revision = row.revision
  <1>1. c = Closing(row, reason, source, order)
    OBVIOUS
  <1>2. c \in ClosingRec(Os)
    BY <1>1, Bounds DEF Closing, ClosingRec, Row
  <1>3. /\ c.revision = row.revision /\ c.reason = reason /\ c.quantity = row.quantity
        /\ c.threshold = row.threshold /\ c.active = row.active /\ c.source = source
        /\ c.order = order
    BY <1>1 DEF Closing
  <1>4. c # Unresolved /\ reason # "none" /\ source # "none"
    BY <1>3, ClosingFacts DEF Reasons, Sources
  <1>5. /\ x \in EpisodeRec(Os) /\ x.opened = e.opened /\ x.quantity = e.quantity
        /\ x.threshold = e.threshold /\ x.source = e.source /\ x.order = e.order
        /\ x.suppressed = e.suppressed /\ x.closing = c
    BY <1>2 DEF EpisodeRec, Closed
  <1>6. c.active => c.quantity > c.threshold
    BY <1>3, Bounds DEF IsLow, Row
  <1>7. EpisodeFacts(x)
    BY <1>3, <1>4, <1>5 DEF EpisodeRow, EpisodeFacts
  <1>8. EpisodeRow(x)
    BY <1>3, <1>5, <1>6, <1>7 DEF EpisodeRow
  <1> QED
    BY <1>3, <1>4, <1>5, <1>8


-----------------------------------------------------------------------------
(* One ingredient across a step *)

\* What a step leaves alone stays sound.
LEMMA SoundKept ==
  ASSUME NEW i \in Ingredients,
         RowSound(i), MovementsSound(i), EpisodesSound(i), EventsSound(i),
         ingredient'[i] = ingredient[i], movements'[i] = movements[i],
         episodes'[i] = episodes[i], events'[i] = events[i], initialized' = initialized
  PROVE  RowSound(i)' /\ MovementsSound(i)' /\ EpisodesSound(i)' /\ EventsSound(i)'
  <1>1. RowSound(i)'
    BY DEF RowSound
  <1>2. MovementsSound(i)'
    BY DEF MovementsSound
  <1>3. HasOpenEpisode(i)' <=> HasOpenEpisode(i)
    BY DEF HasOpenEpisode
  <1>4. LegacyLow(i) => LegacyLow(i)'
    BY DEF LegacyLow
  <1>5. EpisodesSound(i)'
    BY <1>3, <1>4 DEF EpisodesSound
  <1>6. \A n \in 1 .. Len(events[i]) : TransitionFacts(i, events[i][n])
    BY DEF EventsSound
  <1>7. \A n \in 1 .. Len(events'[i]) : TransitionFacts(i, events[i][n])'
    BY <1>6 DEF TransitionFacts
  <1>8. LowsMatch(i)'
    BY DEF EventsSound, LowsMatch
  <1>9. StatesTold(i)'
    BY DEF EventsSound, StatesTold
  <1> QED
    BY <1>1, <1>2, <1>5, <1>7, <1>8, <1>9 DEF EventsSound

\* What record_inventory_transition does to one ingredient, from a state in
\* which everything about it is sound.
Recorded(Os, i, after, source, order) ==
    /\ ingredient[i] \in Row /\ episodes[i] \in Seq(EpisodeRec(Os))
    /\ events[i] \in Seq(EventRec)
    /\ RowSound(i) /\ EpisodesSound(i) /\ EventsSound(i)
    /\ after \in Row /\ after.exists /\ after.revision = ingredient[i].revision
    /\ ~after.active => after.quantity = 0
    /\ source \in Sources \ {"maintenance_initialization"} /\ order \in Os
    /\ (source = "order_acceptance") <=> order # NoOrder
    /\ ingredient'[i] = Revised(ingredient[i], after)
    /\ episodes'[i] = EpisodesAfter(i, after, source, order)
    /\ events'[i] = EventsAfter(i, after)
    /\ ingredient[i].exists => movements'[i][1] = movements[i][1]
    /\ initialized' = initialized

\* The row after it.
LEMMA RecordedRow ==
  ASSUME NEW Os, NEW i \in Ingredients, NEW after, NEW source, NEW order,
         Recorded(Os, i, after, source, order)
  PROVE  /\ ingredient'[i] \in Row /\ ingredient'[i].exists
         /\ ingredient'[i].quantity = after.quantity
         /\ ingredient'[i].threshold = after.threshold
         /\ ingredient'[i].active = after.active
         /\ ingredient'[i].version = after.version
         /\ ingredient[i].revision \in Nat /\ ingredient'[i].revision \in Nat
         /\ ingredient'[i].revision >= 1
         /\ ingredient'[i].revision =
              ingredient[i].revision + (IF StateChanged(ingredient[i], after) THEN 1 ELSE 0)
         /\ IsLow(ingredient'[i]) <=> IsLow(after)
         /\ ingredient[i].exists <=> ingredient[i] # NoRow
         /\ RowSound(i)'
  <1>1. /\ ingredient[i] \in Row /\ after \in Row
        /\ after.revision = ingredient[i].revision
        /\ ingredient'[i] = Revised(ingredient[i], after) /\ RowSound(i)
        /\ after.exists /\ (~after.active => after.quantity = 0)
    BY DEF Recorded
  <1>2. PICK row : row = Revised(ingredient[i], after)
    OBVIOUS
  <1>3. /\ row \in Row /\ row.exists = after.exists /\ row.quantity = after.quantity
        /\ row.version = after.version /\ row.threshold = after.threshold
        /\ row.active = after.active
        /\ row.revision = ingredient[i].revision
                            + (IF StateChanged(ingredient[i], after) THEN 1 ELSE 0)
    BY <1>1, <1>2, RevisedRow
  <1>4. ~ingredient[i].exists => (ingredient[i] = NoRow /\ StateChanged(ingredient[i], after))
    BY <1>1 DEF RowSound, StateChanged
  <1>5. ingredient[i].exists => ingredient[i].revision >= 1
    BY <1>1 DEF RowSound
  <1>6. ingredient[i].revision \in Nat
    BY <1>1 DEF Row
  <1>7. row.revision \in Nat /\ row.revision >= 1
    BY <1>3, <1>4, <1>5, <1>6
  <1>8. ingredient'[i] = row
    BY <1>1, <1>2
  <1>9. ~row.active => row.quantity = 0
    BY <1>1, <1>3
  <1>10. RowSound(i)'
    BY <1>1, <1>3, <1>7, <1>8, <1>9 DEF RowSound
  <1>11. IsLow(row) <=> IsLow(after)
    BY <1>3 DEF IsLow
  <1> QED
    BY <1>1, <1>3, <1>4, <1>6, <1>7, <1>8, <1>10, <1>11, NoRowIsRow

\* The three things that can happen to the episodes of an ingredient.
Opens(i) ==
    LET e == episodes[i]
        w == episodes'[i]
        x == w[Len(e) + 1]
    IN /\ ~IsLow(ingredient[i]) /\ IsLow(ingredient'[i])
       /\ ingredient'[i].revision = ingredient[i].revision + 1
       /\ Len(w) = Len(e) + 1
       /\ \A n \in 1 .. Len(e) : w[n] = e[n]
       /\ EpisodeRow(x) /\ x.opened = ingredient'[i].revision
       /\ x.closing = Unresolved /\ ~x.suppressed

Resolves(i) ==
    LET e == episodes[i]
        w == episodes'[i]
        x == w[Len(e)]
    IN /\ IsLow(ingredient[i]) /\ ~IsLow(ingredient'[i])
       /\ ingredient'[i].revision = ingredient[i].revision + 1
       /\ HasOpenEpisode(i)
       /\ Len(w) = Len(e) /\ Len(e) >= 1
       /\ \A n \in 1 .. Len(e) : n # Len(e) => w[n] = e[n]
       /\ EpisodeRow(x) /\ x.opened = e[Len(e)].opened
       /\ x.suppressed = e[Len(e)].suppressed
       /\ x.closing # Unresolved /\ x.closing.revision = ingredient'[i].revision

KeepsEpisodes(i) ==
    /\ episodes'[i] = episodes[i]
    /\ IsLow(ingredient'[i]) => IsLow(ingredient[i])
    /\ IsLow(ingredient[i]) /\ ~IsLow(ingredient'[i]) => ~HasOpenEpisode(i)

LEMMA RecordedEpisodes ==
  ASSUME NEW Os, NoOrder \in Os, NEW i \in Ingredients, NEW after, NEW source, NEW order,
         Recorded(Os, i, after, source, order)
  PROVE  /\ episodes'[i] \in Seq(EpisodeRec(Os))
         /\ \/ /\ RecordedBoundary(i, after) = "opened" /\ Opens(i)
            \/ /\ RecordedBoundary(i, after) = "resolved" /\ Resolves(i)
            \/ /\ RecordedBoundary(i, after) = "none" /\ KeepsEpisodes(i)
  <1>1. PICK row : row = ingredient'[i]
    OBVIOUS
  <1>2. /\ row \in Row /\ ingredient[i].revision \in Nat /\ row.revision >= 1
        /\ row.revision =
              ingredient[i].revision + (IF StateChanged(ingredient[i], after) THEN 1 ELSE 0)
        /\ IsLow(row) <=> IsLow(after)
    BY <1>1, RecordedRow
  <1>3. /\ ingredient[i] \in Row /\ after \in Row /\ after.exists
        /\ (~ingredient[i].exists => ingredient[i] = NoRow)
        /\ row = Revised(ingredient[i], after)
    BY <1>1 DEF Recorded, RowSound
  <1>4. PICK e : e = episodes[i]
    OBVIOUS
  <1>5. PICK w : w = episodes'[i]
    OBVIOUS
  <1>6. e \in Seq(EpisodeRec(Os)) /\ w = EpisodesAfter(i, after, source, order)
    BY <1>4, <1>5 DEF Recorded
  <1>7. /\ source \in Sources /\ source # "maintenance_initialization" /\ order \in Os
        /\ ((source = "order_acceptance") <=> order # NoOrder)
    BY DEF Recorded
  <1>8. /\ EpisodeTransition(ingredient[i], after) \in {"none", "opened", "resolved"}
        /\ (EpisodeTransition(ingredient[i], after) = "opened"
              <=> ~IsLow(ingredient[i]) /\ IsLow(after))
        /\ (EpisodeTransition(ingredient[i], after) = "resolved"
              <=> IsLow(ingredient[i]) /\ ~IsLow(after))
        /\ (EpisodeTransition(ingredient[i], after) # "none"
              => StateChanged(ingredient[i], after))
        /\ ResolutionReason(ingredient[i], after) \in Reasons
    BY <1>3, BoundaryChanges
  <1>9. CASE EpisodeTransition(ingredient[i], after) = "opened"
    <2>1. PICK x : x = Episode(row, source, order)
      OBVIOUS
    <2>2. IsLow(row) /\ row.revision = ingredient[i].revision + 1
      BY <1>2, <1>8, <1>9
    <2>3. /\ x \in EpisodeRec(Os) /\ EpisodeRow(x) /\ x.opened = row.revision
          /\ x.closing = Unresolved /\ ~x.suppressed
      BY <1>2, <1>7, <2>1, <2>2, OpenedEpisode
    <2>4. w = Append(e, x)
      BY <1>3, <1>4, <1>6, <1>9, <2>1 DEF EpisodesAfter
    <2>5. /\ w \in Seq(EpisodeRec(Os)) /\ Len(w) = Len(e) + 1 /\ w[Len(e) + 1] = x
          /\ \A n \in 1 .. Len(e) : w[n] = e[n]
      BY <1>6, <2>3, <2>4, AppendProperties
    <2>6. Opens(i)
      BY <1>1, <1>4, <1>5, <1>8, <1>9, <2>2, <2>3, <2>5 DEF Opens
    <2>7. RecordedBoundary(i, after) = "opened"
      BY <1>9 DEF RecordedBoundary
    <2> QED
      BY <1>5, <2>5, <2>6, <2>7
  <1>10. CASE EpisodeTransition(ingredient[i], after) = "resolved" /\ HasOpenEpisode(i)
    <2>1. e # <<>> /\ Len(e) \in Nat /\ Len(e) >= 1 /\ e[Len(e)] \in EpisodeRec(Os)
      BY <1>4, <1>6, <1>10, EmptySeq DEF HasOpenEpisode
    <2>2. PICK reason \in Reasons : reason = ResolutionReason(ingredient[i], after)
      BY <1>8
    <2>3. PICK c, x : c = Closing(row, reason, source, order) /\ x = Closed(e[Len(e)], c)
      OBVIOUS
    <2>4. ~IsLow(row) /\ row.revision = ingredient[i].revision + 1
      BY <1>2, <1>8, <1>10
    <2>5. EpisodeRow(e[Len(e)]) /\ e[Len(e)].opened <= ingredient[i].revision
      BY <1>4, <2>1 DEF Recorded, EpisodesSound
    <2>6. e[Len(e)].opened < row.revision
      BY <1>2, <2>1, <2>4, <2>5 DEF EpisodeRec
    <2>7. /\ x \in EpisodeRec(Os) /\ EpisodeRow(x) /\ x.opened = e[Len(e)].opened
          /\ x.suppressed = e[Len(e)].suppressed
          /\ x.closing # Unresolved /\ x.closing.revision = row.revision
      <3>1. PICK last \in EpisodeRec(Os) : last = e[Len(e)]
        BY <2>1
      <3>2. EpisodeRow(last) /\ last.opened < row.revision
        BY <2>5, <2>6, <3>1
      <3>3. c = Closing(row, reason, source, order) /\ x = Closed(last, c)
        BY <2>3, <3>1
      <3>4. /\ x \in EpisodeRec(Os) /\ EpisodeRow(x) /\ x.opened = last.opened
            /\ x.suppressed = last.suppressed
            /\ x.closing # Unresolved /\ x.closing.revision = row.revision
        BY <1>2, <1>7, <2>4, <3>2, <3>3, ResolvedEpisode
      <3> QED
        BY <3>1, <3>4
    <2>8. w = [e EXCEPT ![Len(e)].closing = Closing(row, reason, source, order)]
      BY <1>3, <1>4, <1>6, <1>10, <2>2 DEF EpisodesAfter
    <2>9. w = [e EXCEPT ![Len(e)] = x]
      BY <2>3, <2>8 DEF Closed
    <2>10. Len(e) \in 1 .. Len(e)
      BY <2>1
    <2>11. /\ w \in Seq(EpisodeRec(Os)) /\ Len(w) = Len(e) /\ w[Len(e)] = x
           /\ \A n \in 1 .. Len(e) : n # Len(e) => w[n] = e[n]
      BY <1>6, <2>7, <2>9, <2>10, ExceptSeq
    <2>12. Resolves(i)
      BY <1>1, <1>4, <1>5, <1>8, <1>10, <2>1, <2>4, <2>7, <2>11, <1>2 DEF Resolves
    <2>13. RecordedBoundary(i, after) = "resolved"
      BY <1>10 DEF RecordedBoundary
    <2> QED
      BY <1>5, <2>11, <2>12, <2>13
  <1>11. CASE ~(\/ EpisodeTransition(ingredient[i], after) = "opened"
                \/ EpisodeTransition(ingredient[i], after) = "resolved" /\ HasOpenEpisode(i))
    <2>1. w = e
      BY <1>4, <1>6, <1>11 DEF EpisodesAfter
    <2>2. RecordedBoundary(i, after) = "none"
      BY <1>8, <1>11 DEF RecordedBoundary
    <2>3. KeepsEpisodes(i)
      BY <1>1, <1>2, <1>4, <1>5, <1>8, <1>11, <2>1 DEF KeepsEpisodes
    <2> QED
      BY <1>4, <1>5, <1>6, <2>1, <2>2, <2>3
  <1> QED
    BY <1>9, <1>10, <1>11

\* Events of a recorded transition.
LEMMA RecordedEvents ==
  ASSUME NEW Os, NoOrder \in Os, NEW i \in Ingredients, NEW after, NEW source, NEW order,
         Recorded(Os, i, after, source, order),
         NEW b, b = RecordedBoundary(i, after)
  PROVE  /\ events'[i] \in Seq(EventRec)
         /\ ~StateChanged(ingredient[i], after) => b = "none" /\ events'[i] = events[i]
         /\ StateChanged(ingredient[i], after) =>
              EventsGrew(events[i], events'[i], ingredient'[i], b)
  <1>1. /\ ingredient[i] \in Row /\ after \in Row /\ after.exists
        /\ (~ingredient[i].exists => ingredient[i] = NoRow)
        /\ events[i] \in Seq(EventRec)
        /\ ingredient'[i] = Revised(ingredient[i], after)
        /\ events'[i] = EventsAfter(i, after)
    BY DEF Recorded, RowSound
  <1>2. /\ b \in {"none", "opened", "resolved"}
        /\ (b # "none" => StateChanged(ingredient[i], after))
    <2>1. /\ EpisodeTransition(ingredient[i], after) \in {"none", "opened", "resolved"}
          /\ (EpisodeTransition(ingredient[i], after) # "none"
                => StateChanged(ingredient[i], after))
      BY <1>1, BoundaryChanges
    <2> QED
      BY <2>1 DEF RecordedBoundary
  <1>3. CASE StateChanged(ingredient[i], after)
    <2>1. ingredient'[i] \in Row
      BY RecordedRow
    <2>2. PICK w : w = events'[i]
      OBVIOUS
    <2>5. PICK v \in Seq(EventRec), row \in Row : v = events[i] /\ row = ingredient'[i]
      BY <1>1, <2>1
    <2>3. row = Revised(ingredient[i], after) /\ w = EventsAfter(i, after)
      BY <1>1, <2>2, <2>5
    <2>4. w \in Seq(EventRec) /\ EventsGrew(v, w, row, b)
      BY <1>1, <1>2, <1>3, <2>5, <2>3, EventsGrow
    <2> QED
      BY <1>3, <2>2, <2>4, <2>5
  <1>4. CASE ~StateChanged(ingredient[i], after)
    <2>1. events'[i] = events[i]
      BY <1>1, <1>4 DEF EventsAfter
    <2> QED
      BY <1>1, <1>2, <1>4, <2>1
  <1> QED
    BY <1>3, <1>4

\* The episodes stay sound.
LEMMA EpisodesStay ==
  ASSUME NEW Os, NoOrder \in Os, NEW i \in Ingredients, NEW after, NEW source, NEW order,
         Recorded(Os, i, after, source, order)
  PROVE  EpisodesSound(i)'
  <1>1. /\ episodes[i] \in Seq(EpisodeRec(Os)) /\ EpisodesSound(i)
        /\ (ingredient[i].exists => movements'[i][1] = movements[i][1])
        /\ initialized' = initialized
    BY DEF Recorded
  <1>2. /\ ingredient[i].revision \in Nat /\ ingredient'[i].revision \in Nat
        /\ ingredient'[i].revision >= ingredient[i].revision
    BY RecordedRow
  <1>3. episodes'[i] \in Seq(EpisodeRec(Os))
    BY RecordedEpisodes
  <1>4. PICK e : e = episodes[i]
    OBVIOUS
  <1>5. PICK w : w = episodes'[i]
    OBVIOUS
  <1>6. /\ Len(e) \in Nat /\ Len(w) \in Nat
        /\ \A n \in 1 .. Len(e) : e[n] \in EpisodeRec(Os)
        /\ \A n \in 1 .. Len(w) : w[n] \in EpisodeRec(Os)
    BY <1>1, <1>3, <1>4, <1>5, ElementOfSeq, LenProperties
  <1>7. \A n \in 1 .. Len(e) :
          /\ EpisodeRow(e[n]) /\ e[n].opened <= ingredient[i].revision
          /\ e[n].closing.revision <= ingredient[i].revision
          /\ (e[n].closing = Unresolved => n = Len(e))
          /\ (n < Len(e) => e[n].closing.revision < e[n + 1].opened)
          /\ e[n].opened \in Nat /\ e[n].closing.revision \in Nat
    BY <1>1, <1>4, <1>6 DEF EpisodesSound, EpisodeRec, ClosingRec
  <1>8. /\ (HasOpenEpisode(i) => IsLow(ingredient[i]))
        /\ (IsLow(ingredient[i]) /\ ~HasOpenEpisode(i) => LegacyLow(i))
    BY <1>1 DEF EpisodesSound
  <1>9. HasOpenEpisode(i) <=> e # <<>> /\ e[Len(e)].closing = Unresolved
    BY <1>4 DEF HasOpenEpisode
  <1>10. HasOpenEpisode(i)' <=> w # <<>> /\ w[Len(w)].closing = Unresolved
    BY <1>5 DEF HasOpenEpisode
  <1>11. SUFFICES
          /\ \A n \in 1 .. Len(w) : /\ EpisodeRow(w[n])
                                    /\ w[n].opened <= ingredient'[i].revision
                                    /\ w[n].closing.revision <= ingredient'[i].revision
          /\ \A n \in 1 .. Len(w) :
               /\ w[n].closing = Unresolved => n = Len(w)
               /\ n < Len(w) => w[n].closing.revision < w[n + 1].opened
          /\ HasOpenEpisode(i)' => IsLow(ingredient'[i])
          /\ IsLow(ingredient'[i]) /\ ~HasOpenEpisode(i)' => LegacyLow(i)'
    BY <1>5 DEF EpisodesSound
  <1>12. CASE Opens(i)
    <2>1. /\ ~IsLow(ingredient[i]) /\ IsLow(ingredient'[i])
          /\ ingredient'[i].revision = ingredient[i].revision + 1
          /\ Len(w) = Len(e) + 1
          /\ \A n \in 1 .. Len(e) : w[n] = e[n]
          /\ EpisodeRow(w[Len(e) + 1]) /\ w[Len(e) + 1].opened = ingredient'[i].revision
          /\ w[Len(e) + 1].closing = Unresolved
      BY <1>4, <1>5, <1>12 DEF Opens
    <2>2. \A n \in 1 .. Len(e) : e[n].closing # Unresolved
      BY <1>6, <1>7, <1>8, <1>9, <2>1
    <2>3. Unresolved.revision = 0
      BY DEF Unresolved
    <2>4. w # <<>>
      BY <1>6, <2>1
    <2>5. HasOpenEpisode(i)'
      BY <1>6, <1>10, <2>1, <2>4
    <2>6. \A n \in 1 .. Len(w) : n \in 1 .. Len(e) \/ n = Len(e) + 1
      BY <1>6, <2>1
    <2>7. /\ ingredient'[i].revision \in Nat
          /\ \A n \in 1 .. Len(w) : /\ EpisodeRow(w[n])
                                    /\ w[n].opened <= ingredient'[i].revision
                                    /\ w[n].closing.revision <= ingredient'[i].revision
      BY SMTT(30), <1>2, <1>7, <2>1, <2>3, <2>6
    <2>8. \A n \in 1 .. Len(w) : w[n].closing = Unresolved => n = Len(w)
      BY <2>1, <2>2, <2>6
    <2>9. ASSUME NEW n \in 1 .. Len(w), n < Len(w)
          PROVE  w[n].closing.revision < w[n + 1].opened
      <3>1. n \in 1 .. Len(e)
        BY <1>6, <2>1, <2>9
      <3>2. w[n] = e[n]
        BY <2>1, <3>1
      <3>3. CASE n = Len(e)
        <4>1. e[n].closing.revision <= ingredient[i].revision /\ e[n].closing.revision \in Nat
          BY <1>7, <3>1
        <4>2. w[n + 1].opened = ingredient[i].revision + 1
          BY <2>1, <3>3
        <4> QED
          BY <1>2, <3>2, <4>1, <4>2
      <3>4. CASE n # Len(e)
        <4>1. n + 1 \in 1 .. Len(e) /\ n < Len(e)
          BY <1>6, <3>1, <3>4
        <4> QED
          BY <1>7, <2>1, <3>1, <3>2, <4>1
      <3> QED
        BY <3>3, <3>4
    <2> QED
      BY <2>1, <2>5, <2>7, <2>8, <2>9
  <1>13. CASE Resolves(i)
    <2>1. /\ IsLow(ingredient[i]) /\ ~IsLow(ingredient'[i])
          /\ ingredient'[i].revision = ingredient[i].revision + 1
          /\ Len(w) = Len(e) /\ Len(e) >= 1
          /\ \A n \in 1 .. Len(e) : n # Len(e) => w[n] = e[n]
          /\ EpisodeRow(w[Len(e)]) /\ w[Len(e)].opened = e[Len(e)].opened
          /\ w[Len(e)].closing # Unresolved
          /\ w[Len(e)].closing.revision = ingredient'[i].revision
      BY <1>4, <1>5, <1>13 DEF Resolves
    <2>2. ~HasOpenEpisode(i)'
      BY <1>6, <1>10, <2>1
    <2>3. \A n \in 1 .. Len(w) : /\ EpisodeRow(w[n])
                                  /\ w[n].opened <= ingredient'[i].revision
                                  /\ w[n].closing.revision <= ingredient'[i].revision
      <3> TAKE n \in 1 .. Len(w)
      <3>1. n \in 1 .. Len(e) /\ e[n].opened <= ingredient[i].revision
        BY <1>7, <2>1
      <3>2. CASE n = Len(e)
        BY <1>2, <1>7, <2>1, <3>1, <3>2
      <3>3. CASE n # Len(e)
        BY <1>2, <1>7, <2>1, <3>1, <3>3
      <3> QED
        BY <3>2, <3>3
    <2>4. \A n \in 1 .. Len(w) : w[n].closing = Unresolved => n = Len(w)
      BY <1>6, <1>7, <2>1
    <2>5. ASSUME NEW n \in 1 .. Len(w), n < Len(w)
          PROVE  w[n].closing.revision < w[n + 1].opened
      <3>1. n \in 1 .. Len(e) /\ n + 1 \in 1 .. Len(e) /\ n < Len(e) /\ n # Len(e)
        BY <1>6, <2>1, <2>5
      <3>2. w[n] = e[n] /\ w[n + 1].opened = e[n + 1].opened
        BY <2>1, <3>1
      <3> QED
        BY <1>7, <3>1, <3>2
    <2> QED
      BY <2>1, <2>2, <2>3, <2>4, <2>5
  <1>14. CASE KeepsEpisodes(i)
    <2>1. /\ w = e /\ (IsLow(ingredient'[i]) => IsLow(ingredient[i]))
          /\ (IsLow(ingredient[i]) /\ ~IsLow(ingredient'[i]) => ~HasOpenEpisode(i))
          /\ (HasOpenEpisode(i)' <=> HasOpenEpisode(i))
      BY <1>4, <1>5, <1>9, <1>10, <1>14 DEF KeepsEpisodes
    <2>2. HasOpenEpisode(i)' => IsLow(ingredient'[i])
      BY <1>8, <2>1
    <2>3. ASSUME IsLow(ingredient'[i]), ~HasOpenEpisode(i)'
          PROVE  LegacyLow(i)'
      <3>1. LegacyLow(i) /\ IsLow(ingredient[i])
        BY <1>8, <2>1, <2>3
      <3>2. ingredient[i].exists
        BY <3>1, NoRowIsRow DEF Recorded, RowSound
      <3>3. /\ movements'[i][1].key = NoKey /\ ~initialized' /\ episodes'[i] = <<>>
        BY <1>1, <1>4, <1>5, <2>1, <3>1, <3>2 DEF LegacyLow
      <3>4. \A n \in 1 .. Len(events[i]) : IsLow(events[i][n])
        BY <3>1 DEF LegacyLow
      <3>5. PICK b : b = RecordedBoundary(i, after)
        OBVIOUS
      <3>6. b = "none"
        <4>1. ~Opens(i) /\ ~Resolves(i)
          BY <2>3, <3>1 DEF Opens, Resolves
        <4> QED
          BY <3>5, <4>1, RecordedEpisodes
      <3>7. IsLow(StateEvent(ingredient'[i], "none"))
        BY <2>3 DEF IsLow, StateEvent
      <3>8. \A n \in 1 .. Len(events'[i]) : IsLow(events'[i][n])
        <4>1. events[i] \in Seq(EventRec)
          BY DEF Recorded
        <4>2. Len(events[i]) \in Nat
          BY <4>1
        <4>3. PICK v, w2 : v = events[i] /\ w2 = events'[i]
          OBVIOUS
        <4>4. \/ w2 = v
              \/ /\ Len(w2) = Len(v) + 1
                 /\ \A n \in 1 .. Len(v) : w2[n] = v[n]
                 /\ w2[Len(v) + 1] = StateEvent(ingredient'[i], "none")
          <5>1. \/ events'[i] = events[i]
                \/ EventsGrew(events[i], events'[i], ingredient'[i], b)
            BY <3>5, RecordedEvents
          <5> QED
            BY <3>6, <4>3, <5>1 DEF EventsGrew
        <4> QED
          BY <3>4, <3>7, <4>2, <4>3, <4>4
      <3> QED
        BY <3>3, <3>8 DEF LegacyLow
    <2> QED
      BY <1>2, <1>6, <1>7, <2>1, <2>2, <2>3
  <1> QED
    BY <1>12, <1>13, <1>14, RecordedEpisodes

\* What an episode says of its opening and of its closing stands.
EpisodesLast(i) ==
    LET e == episodes[i]
        w == episodes'[i]
    IN \A x \in 1 .. Len(e) :
         /\ x \in 1 .. Len(w)
         /\ w[x].opened = e[x].opened /\ w[x].suppressed = e[x].suppressed
         /\ e[x].closing.revision # 0 => w[x].closing.revision = e[x].closing.revision

LEMMA EpisodesRemain ==
  ASSUME NEW Os, NEW i \in Ingredients, episodes[i] \in Seq(EpisodeRec(Os)),
         Opens(i) \/ Resolves(i) \/ KeepsEpisodes(i)
  PROVE  /\ EpisodesLast(i)
         /\ \A x \in 1 .. Len(episodes'[i]) :
              x \in 1 .. Len(episodes[i]) \/ (Opens(i) /\ x = Len(episodes[i]) + 1)
  <1>1. PICK e, w : e = episodes[i] /\ w = episodes'[i]
    OBVIOUS
  <1>2. Len(e) \in Nat
    BY <1>1
  <1>3. CASE Opens(i)
    <2>1. Len(w) = Len(e) + 1 /\ \A n \in 1 .. Len(e) : w[n] = e[n]
      BY <1>1, <1>3 DEF Opens
    <2>2. EpisodesLast(i)
      BY <1>1, <1>2, <2>1 DEF EpisodesLast
    <2> QED
      BY <1>1, <1>2, <1>3, <2>1, <2>2
  <1>4. CASE Resolves(i)
    <2>1. /\ Len(w) = Len(e) /\ Len(e) >= 1
          /\ \A n \in 1 .. Len(e) : n # Len(e) => w[n] = e[n]
          /\ w[Len(e)].opened = e[Len(e)].opened
          /\ w[Len(e)].suppressed = e[Len(e)].suppressed
      BY <1>1, <1>4 DEF Resolves
    <2>2. e[Len(e)].closing.revision = 0
      BY <1>1, <1>4 DEF Resolves, HasOpenEpisode, Unresolved
    <2>3. EpisodesLast(i)
      BY <1>1, <1>2, <2>1, <2>2 DEF EpisodesLast
    <2> QED
      BY <1>1, <2>1, <2>3
  <1>5. CASE KeepsEpisodes(i)
    BY <1>1, <1>2, <1>5 DEF KeepsEpisodes, EpisodesLast
  <1> QED
    BY <1>3, <1>4, <1>5

\* The facts of an event stand as long as its episode does.
LEMMA FactsRemain ==
  ASSUME NEW Os, NEW i \in Ingredients, episodes[i] \in Seq(EpisodeRec(Os)),
         episodes'[i] \in Seq(EpisodeRec(Os)), EpisodesLast(i),
         NEW e \in EventRec, TransitionFacts(i, e)
  PROVE  TransitionFacts(i, e)'
  <1>1. DOMAIN episodes[i] = 1 .. Len(episodes[i]) /\ DOMAIN episodes'[i] = 1 .. Len(episodes'[i])
    OBVIOUS
  <1>2. e.revision >= 1 /\ e.revision # 0
    BY DEF TransitionFacts, EventRec
  <1>3. e.boundary = "opened" =>
          /\ IsLow(e)
          /\ \E n \in DOMAIN episodes'[i] : episodes'[i][n].opened = e.revision
    BY <1>1 DEF TransitionFacts, EpisodesLast
  <1>4. e.boundary = "resolved" =>
          /\ ~IsLow(e)
          /\ \E n \in DOMAIN episodes'[i] : episodes'[i][n].closing.revision = e.revision
    BY <1>1, <1>2 DEF TransitionFacts, EpisodesLast
  <1> QED
    BY <1>2, <1>3, <1>4 DEF TransitionFacts

\* A new event states the facts of the step it records.
LEMMA NewEventFacts ==
  ASSUME NEW Os, NEW i \in Ingredients, episodes[i] \in Seq(EpisodeRec(Os)),
         episodes'[i] \in Seq(EpisodeRec(Os)),
         NEW row \in Row, row = ingredient'[i], row.revision >= 1,
         NEW b, \/ b = "opened" /\ Opens(i)
                \/ b = "resolved" /\ Resolves(i)
                \/ b = "none"
  PROVE  /\ TransitionFacts(i, StateEvent(row, b))'
         /\ b = "opened" => TransitionFacts(i, LowEvent(row))'
  <1>1. PICK e, w : e = episodes[i] /\ w = episodes'[i]
    OBVIOUS
  <1>2. Len(e) \in Nat /\ DOMAIN w = 1 .. Len(w)
    BY <1>1
  <1>3. PICK s, l : s = StateEvent(row, b) /\ l = LowEvent(row)
    OBVIOUS
  <1>4. /\ s.revision = row.revision /\ s.boundary = b /\ (IsLow(s) <=> IsLow(row))
        /\ l.revision = row.revision /\ l.boundary = "opened" /\ (IsLow(l) <=> IsLow(row))
    BY <1>3 DEF StateEvent, LowEvent, IsLow
  <1>5. b = "opened" =>
          IsLow(row) /\ \E n \in DOMAIN w : w[n].opened = row.revision
    <2>1. SUFFICES ASSUME Opens(i)
                   PROVE  IsLow(row) /\ \E n \in DOMAIN w : w[n].opened = row.revision
      BY DEF Resolves
    <2>2. /\ IsLow(row) /\ Len(w) = Len(e) + 1 /\ w[Len(e) + 1].opened = row.revision
      BY <1>1, <2>1 DEF Opens
    <2> QED
      BY <1>2, <2>2
  <1>6. b = "resolved" =>
          ~IsLow(row) /\ \E n \in DOMAIN w : w[n].closing.revision = row.revision
    <2>1. SUFFICES ASSUME Resolves(i)
                   PROVE  ~IsLow(row) /\ \E n \in DOMAIN w : w[n].closing.revision = row.revision
      OBVIOUS
    <2>2. /\ ~IsLow(row) /\ Len(w) = Len(e) /\ Len(e) >= 1
          /\ w[Len(e)].closing.revision = row.revision
      BY <1>1, <2>1 DEF Resolves
    <2> QED
      BY <1>2, <2>2
  <1>7. /\ s.revision >= 1
        /\ (s.boundary = "opened" =>
              IsLow(s) /\ \E n \in DOMAIN w : w[n].opened = s.revision)
        /\ (s.boundary = "resolved" =>
              ~IsLow(s) /\ \E n \in DOMAIN w : w[n].closing.revision = s.revision)
    BY <1>4, <1>5, <1>6
  <1>8. b = "opened" =>
        /\ l.revision >= 1
        /\ (l.boundary = "opened" =>
              IsLow(l) /\ \E n \in DOMAIN w : w[n].opened = l.revision)
        /\ (l.boundary = "resolved" =>
              ~IsLow(l) /\ \E n \in DOMAIN w : w[n].closing.revision = l.revision)
    BY <1>4, <1>5
  <1>9. TransitionFacts(i, s)'
    BY <1>1, <1>7 DEF TransitionFacts
  <1>10. b = "opened" => TransitionFacts(i, l)'
    BY <1>1, <1>8 DEF TransitionFacts
  <1> QED
    BY <1>3, <1>9, <1>10 DEF TransitionFacts

\* What the appended events are.
LEMMA GrownEvents ==
  ASSUME NEW v, NEW u, NEW row, NEW b, EventsGrew(v, u, row, b), Len(v) \in Nat
  PROVE  /\ Len(v) + 1 \in 1 .. Len(u)
         /\ \A n \in 1 .. Len(v) : u[n] = v[n] /\ n \in 1 .. Len(u)
         /\ u[Len(v) + 1].type = "state_changed" /\ u[Len(v) + 1].revision = row.revision
         /\ u[Len(v) + 1].quantity = row.quantity
         /\ u[Len(v) + 1].threshold = row.threshold /\ u[Len(v) + 1].active = row.active
         /\ b = "opened" => /\ u[Len(v) + 2].type = "low" /\ Len(v) + 2 \in 1 .. Len(u)
                            /\ u[Len(v) + 2].revision = row.revision
         /\ \A n \in 1 .. Len(u) :
              n \in 1 .. Len(v) \/ n = Len(v) + 1 \/ (n = Len(v) + 2 /\ b = "opened")
  <1>1. PICK s, l : s = StateEvent(row, b) /\ l = LowEvent(row)
    OBVIOUS
  <1>2. /\ s.type = "state_changed" /\ s.revision = row.revision
        /\ s.quantity = row.quantity /\ s.threshold = row.threshold
        /\ s.active = row.active /\ l.type = "low" /\ l.revision = row.revision
    BY <1>1 DEF StateEvent, LowEvent
  <1>3. /\ (b = "opened" => Len(u) = Len(v) + 2) /\ (b # "opened" => Len(u) = Len(v) + 1)
        /\ \A n \in 1 .. Len(v) : u[n] = v[n]
        /\ u[Len(v) + 1] = s /\ (b = "opened" => u[Len(v) + 2] = l)
    BY <1>1 DEF EventsGrew
  <1> QED
    BY <1>2, <1>3

\* Low events and episodes keep belonging together.
LEMMA LowsStay ==
  ASSUME NEW Os, NEW i \in Ingredients, episodes[i] \in Seq(EpisodeRec(Os)),
         episodes'[i] \in Seq(EpisodeRec(Os)), EpisodesSound(i),
         events[i] \in Seq(EventRec), events'[i] \in Seq(EventRec),
         EventsSound(i), NEW r \in Nat, r = ingredient[i].revision,
         NEW row \in Row, row = ingredient'[i],
         NEW b, \/ b = "opened" /\ Opens(i)
                \/ b = "resolved" /\ Resolves(i)
                \/ b = "none" /\ KeepsEpisodes(i),
         EventsGrew(events[i], events'[i], row, b)
  PROVE  LowsMatch(i)'
  <1>1. PICK e, w : e = episodes[i] /\ w = episodes'[i]
    OBVIOUS
  <1>2. PICK v, u : v = events[i] /\ u = events'[i]
    OBVIOUS
  <1>3. /\ Len(e) \in Nat /\ Len(w) \in Nat /\ Len(v) \in Nat /\ Len(u) \in Nat
        /\ \A n \in 1 .. Len(v) : v[n] \in EventRec
    BY <1>1, <1>2, ElementOfSeq, LenProperties
  <1>4. /\ EpisodesLast(i)
        /\ \A x \in 1 .. Len(episodes'[i]) :
             x \in 1 .. Len(episodes[i]) \/ (Opens(i) /\ x = Len(episodes[i]) + 1)
    BY EpisodesRemain
  <1>5. \A x \in 1 .. Len(e) : /\ x \in 1 .. Len(w) /\ w[x].opened = e[x].opened
                               /\ w[x].suppressed = e[x].suppressed
    BY <1>1, <1>4 DEF EpisodesLast
  <1>6. /\ \A n \in 1 .. Len(v) : v[n].type = "low" =>
             \E x \in 1 .. Len(e) : ~e[x].suppressed /\ e[x].opened = v[n].revision
        /\ \A x \in 1 .. Len(e) : ~e[x].suppressed =>
             \E n \in 1 .. Len(v) : v[n].type = "low" /\ v[n].revision = e[x].opened
        /\ \A m, n \in 1 .. Len(v) :
             v[m].type = "low" /\ v[n].type = "low" /\ v[m].revision = v[n].revision => m = n
        /\ \A n \in 1 .. Len(v) : v[n].revision <= r
    BY <1>1, <1>2 DEF EventsSound, LowsMatch
  <1>7. /\ \A n \in 1 .. Len(v) : u[n] = v[n] /\ n \in 1 .. Len(u)
        /\ u[Len(v) + 1].type = "state_changed"
        /\ (b = "opened" => /\ u[Len(v) + 2].type = "low" /\ Len(v) + 2 \in 1 .. Len(u)
                            /\ u[Len(v) + 2].revision = row.revision)
        /\ \A n \in 1 .. Len(u) :
             n \in 1 .. Len(v) \/ n = Len(v) + 1 \/ (n = Len(v) + 2 /\ b = "opened")
    BY SMTT(30), <1>2, <1>3, GrownEvents
  <1>8. b = "opened" => /\ Len(w) = Len(e) + 1 /\ w[Len(e) + 1].opened = row.revision
                        /\ ~w[Len(e) + 1].suppressed /\ row.revision = r + 1
    BY <1>1 DEF Opens
  <1>9. \A n \in 1 .. Len(u) :
          \/ n \in 1 .. Len(v) /\ u[n] = v[n]
          \/ n = Len(v) + 1
          \/ n = Len(v) + 2 /\ b = "opened"
    BY <1>7
  <1>10. \A n \in 1 .. Len(u) : u[n].type = "low" =>
           \E x \in 1 .. Len(w) : ~w[x].suppressed /\ w[x].opened = u[n].revision
    <2> SUFFICES ASSUME NEW n \in 1 .. Len(u), u[n].type = "low"
                 PROVE  \E x \in 1 .. Len(w) : ~w[x].suppressed /\ w[x].opened = u[n].revision
      OBVIOUS
    <2>1. CASE n \in 1 .. Len(v) /\ u[n] = v[n]
      <3>1. PICK x \in 1 .. Len(e) : ~e[x].suppressed /\ e[x].opened = v[n].revision
        BY <1>6, <2>1
      <3> QED
        BY <1>5, <2>1, <3>1
    <2>2. CASE n = Len(v) + 2 /\ b = "opened"
      BY SMTT(30), <1>3, <1>7, <1>8, <2>2
    <2> QED
      BY <1>7, <1>9, <2>1, <2>2
  <1>11. \A x \in 1 .. Len(w) : ~w[x].suppressed =>
           \E n \in 1 .. Len(u) : u[n].type = "low" /\ u[n].revision = w[x].opened
    <2> SUFFICES ASSUME NEW x \in 1 .. Len(w), ~w[x].suppressed
                 PROVE  \E n \in 1 .. Len(u) : u[n].type = "low" /\ u[n].revision = w[x].opened
      OBVIOUS
    <2>1. CASE x \in 1 .. Len(e)
      <3>1. PICK n \in 1 .. Len(v) : v[n].type = "low" /\ v[n].revision = e[x].opened
        BY <1>5, <1>6, <2>1
      <3>2. n \in 1 .. Len(u)
        BY <1>7
      <3> QED
        BY <1>5, <1>7, <2>1, <3>1, <3>2
    <2>2. CASE Opens(i) /\ x = Len(e) + 1
      <3>1. b = "opened"
        BY <2>2 DEF Opens, Resolves, KeepsEpisodes
      <3>2. Len(v) + 2 \in 1 .. Len(u)
        BY <1>7, <3>1
      <3> QED
        BY <1>7, <1>8, <2>2, <3>1, <3>2
    <2> QED
      BY <1>1, <1>4, <2>1, <2>2
  <1>12. \A m, n \in 1 .. Len(u) :
           u[m].type = "low" /\ u[n].type = "low" /\ u[m].revision = u[n].revision => m = n
    <2>1. \A n \in 1 .. Len(u) : u[n].type = "low" =>
            \/ n \in 1 .. Len(v) /\ u[n] = v[n] /\ u[n].revision <= r
            \/ n = Len(v) + 2 /\ u[n].revision = r + 1
      BY <1>6, <1>7, <1>8, <1>9
    <2> SUFFICES ASSUME NEW m \in 1 .. Len(u), NEW n \in 1 .. Len(u),
                        u[m].type = "low", u[n].type = "low", u[m].revision = u[n].revision
                 PROVE  m = n
      OBVIOUS
    <2>2. CASE m \in 1 .. Len(v) /\ u[m] = v[m] /\ u[m].revision <= r
      <3>1. ~(u[n].revision = r + 1)
        BY <2>2
      <3> QED
        BY <1>6, <2>1, <2>2, <3>1
    <2>3. CASE m = Len(v) + 2 /\ u[m].revision = r + 1
      <3>1. ~(u[n].revision <= r)
        BY <2>3
      <3> QED
        BY <2>1, <2>3, <3>1
    <2> QED
      BY <2>1, <2>2, <2>3
  <1> QED
    BY <1>1, <1>2, <1>10, <1>11, <1>12 DEF LowsMatch

\* State events keep numbering the revisions.
LEMMA StatesStay ==
  ASSUME NEW i \in Ingredients, ingredient[i] \in Row,
         events[i] \in Seq(EventRec), StatesTold(i),
         ~ingredient[i].exists => ingredient[i] = NoRow /\ events[i] = <<>>,
         NEW row \in Row, row = ingredient'[i], row.exists,
         row.revision = ingredient[i].revision + 1,
         NEW b, EventsGrew(events[i], events'[i], row, b)
  PROVE  StatesTold(i)'
  <1>1. PICK v, u : v = events[i] /\ u = events'[i]
    OBVIOUS
  <1>2. Len(v) \in Nat /\ DOMAIN v = 1 .. Len(v)
    BY <1>1
  <1>3. /\ Len(v) + 1 \in 1 .. Len(u)
        /\ \A n \in 1 .. Len(v) : u[n] = v[n] /\ n \in 1 .. Len(u)
        /\ u[Len(v) + 1].type = "state_changed" /\ u[Len(v) + 1].revision = row.revision
        /\ u[Len(v) + 1].quantity = row.quantity
        /\ u[Len(v) + 1].threshold = row.threshold /\ u[Len(v) + 1].active = row.active
        /\ (b = "opened" => u[Len(v) + 2].type = "low")
        /\ \A n \in 1 .. Len(u) :
             n \in 1 .. Len(v) \/ n = Len(v) + 1 \/ (n = Len(v) + 2 /\ b = "opened")
    BY <1>1, <1>2, GrownEvents
  <1> DEFINE told == {n \in 1 .. Len(v) : v[n].type = "state_changed"}
             state == {n \in DOMAIN u : u[n].type = "state_changed"}
             last == Len(v) + 1
  <1>4. DOMAIN u = 1 .. Len(u)
    BY <1>1
  <1>5. state = told \cup {last}
    BY <1>2, <1>3, <1>4
  <1>6. /\ \A m, n \in told :
             m < n /\ (\A x \in told : x <= m \/ n <= x) => v[n].revision = v[m].revision + 1
        /\ \A n \in told : (\A x \in told : x <= n) => v[n].revision = ingredient[i].revision
    <2>1. told = {n \in DOMAIN v : v[n].type = "state_changed"}
      BY <1>2
    <2> HIDE DEF told
    <2> QED
      BY <1>1, <2>1 DEF StatesTold
  <1> HIDE DEF state
  <1>7. \A n \in told : n < last /\ u[n] = v[n]
    BY <1>2, <1>3
  <1>8. \A m, n \in state :
          m < n /\ (\A x \in state : x <= m \/ n <= x) => u[n].revision = u[m].revision + 1
    <2> SUFFICES ASSUME NEW m \in state, NEW n \in state, m < n,
                        \A x \in state : x <= m \/ n <= x
                 PROVE  u[n].revision = u[m].revision + 1
      OBVIOUS
    <2>1. m \in told
      BY <1>2, <1>5, <1>7
    <2>2. CASE n \in told
      BY <1>5, <1>6, <1>7, <2>1, <2>2
    <2>3. CASE n = last
      <3>1. \A x \in told : x <= m
        BY <1>2, <1>5, <1>7, <2>3
      <3>2. u[m].revision = ingredient[i].revision
        BY <1>6, <1>7, <2>1, <3>1
      <3> QED
        BY <1>3, <2>3, <3>2
    <2> QED
      BY <1>5, <2>2, <2>3
  <1>9. last \in state
    BY <1>5
  <1>10. ASSUME NEW n \in state, \A x \in state : x <= n
        PROVE  n = last
    <2>1. last <= n
      BY <1>10, <1>9
    <2> QED
      BY <1>2, <1>5, <1>7, <2>1
  <1>11. /\ state = {} => row.revision = IF row.exists THEN 1 ELSE 0
         /\ \A n \in state : (\A x \in state : x <= n) =>
              /\ u[n].revision = row.revision /\ u[n].quantity = row.quantity
              /\ u[n].threshold = row.threshold /\ u[n].active = row.active
    BY <1>3, <1>10, <1>9
  <1> QED
    BY <1>1, <1>8, <1>11 DEF StatesTold, state

\* The events stay sound.
LEMMA EventsStay ==
  ASSUME NEW Os, NoOrder \in Os, NEW i \in Ingredients, NEW after, NEW source, NEW order,
         Recorded(Os, i, after, source, order)
  PROVE  EventsSound(i)'
  <1>1. PICK b : b = RecordedBoundary(i, after)
    OBVIOUS
  <1>2. /\ ingredient[i] \in Row /\ episodes[i] \in Seq(EpisodeRec(Os))
        /\ events[i] \in Seq(EventRec) /\ EpisodesSound(i) /\ EventsSound(i)
        /\ (~ingredient[i].exists => ingredient[i] = NoRow /\ events[i] = <<>>)
    BY DEF Recorded, RowSound
  <1>3. /\ episodes'[i] \in Seq(EpisodeRec(Os))
        /\ \/ b = "opened" /\ Opens(i)
           \/ b = "resolved" /\ Resolves(i)
           \/ b = "none" /\ KeepsEpisodes(i)
    BY <1>1, RecordedEpisodes
  <1>4. /\ events'[i] \in Seq(EventRec)
        /\ (~StateChanged(ingredient[i], after) => b = "none" /\ events'[i] = events[i])
        /\ (StateChanged(ingredient[i], after) =>
              EventsGrew(events[i], events'[i], ingredient'[i], b))
    BY <1>1, RecordedEvents
  <1>5. EpisodesLast(i)
    BY <1>2, <1>3, EpisodesRemain
  <1>6. PICK v, u, row : v = events[i] /\ u = events'[i] /\ row = ingredient'[i]
    OBVIOUS
  <1>7. /\ row \in Row /\ row.exists /\ row.revision \in Nat /\ row.revision >= 1
        /\ ingredient[i].revision \in Nat
        /\ row.revision =
             ingredient[i].revision + (IF StateChanged(ingredient[i], after) THEN 1 ELSE 0)
        /\ row.quantity = after.quantity /\ row.threshold = after.threshold
        /\ row.active = after.active
    BY <1>6, RecordedRow
  <1>8. Len(v) \in Nat /\ \A n \in 1 .. Len(v) : v[n] \in EventRec
    BY <1>2, <1>6
  <1>9. \A n \in 1 .. Len(v) : /\ TransitionFacts(i, v[n])'
                               /\ v[n].revision <= row.revision
    <2> TAKE n \in 1 .. Len(v)
    <2>1. PICK x \in EventRec : x = v[n]
      BY <1>8
    <2>2. TransitionFacts(i, x) /\ x.revision <= ingredient[i].revision /\ x.revision \in Nat
      BY <1>2, <1>6, <2>1 DEF EventsSound, EventRec
    <2>3. TransitionFacts(i, x)'
      BY <1>2, <1>3, <1>5, <2>2, FactsRemain
    <2>4. x.revision <= row.revision
      BY <1>7, <2>2
    <2> QED
      BY <2>1, <2>3, <2>4 DEF TransitionFacts
  <1>10. CASE StateChanged(ingredient[i], after)
    <2>1. EventsGrew(v, u, row, b) /\ row.revision = ingredient[i].revision + 1
      BY <1>4, <1>6, <1>7, <1>10
    <2>2. LowsMatch(i)'
      BY <1>2, <1>3, <1>4, <1>6, <1>7, <2>1, LowsStay
    <2>3. StatesTold(i)'
      <3>1. StatesTold(i)
        BY <1>2 DEF EventsSound
      <3> QED
        BY <1>2, <1>6, <1>7, <2>1, <3>1, StatesStay
    <2>4. PICK s, l : s = StateEvent(row, b) /\ l = LowEvent(row)
      OBVIOUS
    <2>5. /\ TransitionFacts(i, s)' /\ (b = "opened" => TransitionFacts(i, l)')
          /\ s.revision = row.revision /\ l.revision = row.revision
      <3>1. /\ TransitionFacts(i, StateEvent(row, b))'
            /\ (b = "opened" => TransitionFacts(i, LowEvent(row))')
        BY <1>2, <1>3, <1>6, <1>7, NewEventFacts
      <3> QED
        BY <2>4, <3>1 DEF TransitionFacts, StateEvent, LowEvent
    <2>6. /\ \A n \in 1 .. Len(v) : u[n] = v[n]
          /\ u[Len(v) + 1] = s /\ (b = "opened" => u[Len(v) + 2] = l)
          /\ \A n \in 1 .. Len(u) :
               n \in 1 .. Len(v) \/ n = Len(v) + 1 \/ (n = Len(v) + 2 /\ b = "opened")
      BY <1>8, <2>1, <2>4, GrownEvents DEF EventsGrew
    <2>7. \A n \in 1 .. Len(u) : /\ TransitionFacts(i, u[n])'
                                 /\ u[n].revision <= row.revision
      <3> TAKE n \in 1 .. Len(u)
      <3>1. CASE n \in 1 .. Len(v)
        BY <1>9, <2>6, <3>1 DEF TransitionFacts
      <3>2. CASE n = Len(v) + 1
        BY <1>7, <2>5, <2>6, <3>2 DEF TransitionFacts
      <3>3. CASE n = Len(v) + 2 /\ b = "opened"
        BY <1>7, <2>5, <2>6, <3>3 DEF TransitionFacts
      <3> QED
        BY <2>6, <3>1, <3>2, <3>3
    <2> QED
      BY <1>6, <2>2, <2>3, <2>7 DEF EventsSound, TransitionFacts
  <1>11. CASE ~StateChanged(ingredient[i], after)
    <2>1. u = v /\ KeepsEpisodes(i)
      BY <1>3, <1>4, <1>6, <1>11
    <2>2. LowsMatch(i)'
      BY <1>2, <1>6, <2>1 DEF EventsSound, LowsMatch, KeepsEpisodes
    <2>3. /\ row.revision = ingredient[i].revision /\ row.exists = ingredient[i].exists
          /\ row.quantity = ingredient[i].quantity
          /\ row.threshold = ingredient[i].threshold /\ row.active = ingredient[i].active
      <3>1. /\ ingredient[i].exists /\ ingredient[i].quantity = after.quantity
            /\ ingredient[i].threshold = after.threshold
            /\ ingredient[i].active = after.active
        BY <1>11 DEF StateChanged
      <3>2. row.exists = TRUE /\ ingredient[i].exists = TRUE
        BY <1>2, <1>7, <3>1 DEF Row
      <3>3. row.revision = ingredient[i].revision
        BY <1>7, <1>11
      <3> QED
        BY <1>7, <3>1, <3>2, <3>3
    <2>4. StatesTold(i)'
      BY <1>2, <1>6, <2>1, <2>3 DEF EventsSound, StatesTold
    <2> QED
      BY <1>6, <1>9, <2>1, <2>2, <2>4 DEF EventsSound, TransitionFacts
  <1> QED
    BY <1>10, <1>11

-----------------------------------------------------------------------------
(* Movements *)

\* A movement that continues the history keeps it sound.
LEMMA MovementsGrow ==
  ASSUME NEW Os, NEW i \in Ingredients, ingredient[i] \in Row,
         movements[i] \in Seq(MovementRec(Os)), MovementsSound(i), ingredient[i].exists,
         ingredient'[i].exists, NEW m \in MovementRec(Os), MovementRow(m),
         m.version = ingredient[i].version + 1, m.after = m.delta + ingredient[i].quantity,
         m.key # NoKey => \A n \in 1 .. Len(movements[i]) : movements[i][n].key # m.key,
         ingredient'[i].version = m.version, ingredient'[i].quantity = m.after,
         movements'[i] = Append(movements[i], m)
  PROVE  /\ movements'[i] \in Seq(MovementRec(Os)) /\ MovementsSound(i)'
         /\ movements'[i][1] = movements[i][1]
  <1>1. PICK v, u : v = movements[i] /\ u = movements'[i]
    OBVIOUS
  <1>2. /\ Len(v) \in Nat /\ Len(v) >= 1 /\ Len(u) = Len(v) + 1 /\ u[Len(v) + 1] = m
        /\ \A n \in 1 .. Len(v) : u[n] = v[n]
        /\ u \in Seq(MovementRec(Os))
    <2>1. v # <<>>
      BY <1>1 DEF MovementsSound
    <2>2. v \in Seq(MovementRec(Os)) /\ u = Append(v, m)
      BY <1>1
    <2>3. Len(v) \in Nat /\ Len(v) >= 1
      BY <2>1, <2>2, EmptySeq
    <2> QED
      BY <2>2, <2>3, AppendProperties
  <1>3. /\ \A n \in 1 .. Len(v) : MovementRow(v[n])
        /\ ingredient[i].version = Len(v) /\ ingredient[i].quantity = v[Len(v)].after
        /\ \A n \in 1 .. Len(v) :
             /\ v[n].version = n
             /\ v[n].after = v[n].delta + (IF n = 1 THEN 0 ELSE v[n - 1].after)
        /\ \A x, y \in 1 .. Len(v) : v[x].key = v[y].key /\ v[x].key # NoKey => x = y
    BY <1>1, <1>2 DEF MovementsSound
  <1>4. \A n \in 1 .. Len(u) : n \in 1 .. Len(v) \/ n = Len(v) + 1
    BY <1>2
  <1>5. \A n \in 1 .. Len(u) : MovementRow(u[n]) /\ u[n].version = n
    BY <1>2, <1>3, <1>4
  <1>6. ASSUME NEW n \in 1 .. Len(u)
        PROVE  u[n].after = u[n].delta + (IF n = 1 THEN 0 ELSE u[n - 1].after)
    <2>1. CASE n = 1
      BY <1>2, <1>3, <2>1
    <2>2. CASE n \in 1 .. Len(v) /\ n # 1
      <3>1. n - 1 \in 1 .. Len(v)
        BY <1>2, <2>2
      <3> QED
        BY ZenonT(40), <1>2, <1>3, <2>2, <3>1
    <2>3. CASE n = Len(v) + 1
      <3>1. n - 1 = Len(v) /\ n # 1
        BY <1>2, <2>3
      <3>2. u[n - 1] = v[Len(v)]
        BY <1>2, <3>1
      <3> QED
        BY <1>2, <1>3, <2>3, <3>1, <3>2
    <2> QED
      BY <1>4, <2>1, <2>2, <2>3
  <1>7. ASSUME NEW x \in 1 .. Len(u), NEW y \in 1 .. Len(u),
               u[x].key = u[y].key, u[x].key # NoKey
        PROVE  x = y
    <2>1. m.key # NoKey => \A n \in 1 .. Len(v) : v[n].key # m.key
      BY <1>1
    <2> QED
      BY SMTT(30), <1>2, <1>3, <1>4, <1>7, <2>1
  <1>8. Len(u) # 0 /\ u # <<>> /\ u[Len(u)].after = m.after /\ ingredient'[i].version = Len(u)
    BY <1>2, <1>3
  <1>9. /\ (u = <<>> <=> ~ingredient'[i].exists)
        /\ ingredient'[i].quantity = IF Len(u) = 0 THEN 0 ELSE u[Len(u)].after
    BY <1>8
  <1>10. MovementsSound(i)'
    BY <1>1, <1>5, <1>6, <1>7, <1>8, <1>9 DEF MovementsSound
  <1>11. u[1] = v[1]
    BY <1>2
  <1> QED
    BY <1>1, <1>2, <1>10, <1>11

-----------------------------------------------------------------------------
(* Steps of the ledger *)

\* One ingredient across record_inventory_transition.
LEMMA TransitionSound ==
  ASSUME NEW Os, NoOrder \in Os, NEW i \in Ingredients, NEW after, NEW source, NEW order,
         Recorded(Os, i, after, source, order)
  PROVE  /\ ingredient'[i] \in Row /\ episodes'[i] \in Seq(EpisodeRec(Os))
         /\ events'[i] \in Seq(EventRec)
         /\ RowSound(i)' /\ EpisodesSound(i)' /\ EventsSound(i)'
  BY RecordedRow, RecordedEpisodes, RecordedEvents, EpisodesStay, EventsStay

\* The rows a command gives to record_inventory_transition.
RowsGiven(S, after) ==
    \A i \in S : /\ after[i] \in Row /\ after[i].exists
                 /\ after[i].revision = ingredient[i].revision
                 /\ (~after[i].active => after[i].quantity = 0)

\* What it does to the movements.
MovementsGiven(Os, S) ==
    /\ movements' \in [Ingredients -> Seq(MovementRec(Os))]
    /\ \A i \in S : /\ MovementsSound(i)'
                    /\ (ingredient[i].exists => movements'[i][1] = movements[i][1])
    /\ \A i \in Ingredients \ S : movements'[i] = movements[i]

\* A command that records the transitions of the ingredients it writes, and
\* gives each of them a sound history of movements.
Command(Os, S, after, source, order) ==
    /\ source \in Sources \ {"maintenance_initialization"} /\ order \in Os
    /\ (source = "order_acceptance") <=> order # NoOrder
    /\ RecordTransition(S, after, source, order)
    /\ RowsGiven(S, after) /\ MovementsGiven(Os, S)
    /\ initialized' = initialized

\* It records the transition of each of them and leaves the others alone.
LEMMA CommandRecords ==
  ASSUME NEW Os, LInv(Os), NEW S \in SUBSET Ingredients,
         NEW after, NEW source, NEW order, Command(Os, S, after, source, order)
  PROVE  /\ \A i \in S : Recorded(Os, i, after[i], source, order)
         /\ \A i \in Ingredients \ S :
              /\ ingredient'[i] = ingredient[i] /\ episodes'[i] = episodes[i]
              /\ events'[i] = events[i] /\ movements'[i] = movements[i]
  <1>1. LedgerTyped(Os) /\ \A i \in Ingredients :
          RowSound(i) /\ MovementsSound(i) /\ EpisodesSound(i) /\ EventsSound(i)
    BY DEF LInv
  <1>2. /\ ingredient' = [i \in Ingredients |->
             IF i \in S THEN Revised(ingredient[i], after[i]) ELSE ingredient[i]]
        /\ episodes' = [i \in Ingredients |->
             IF i \in S THEN EpisodesAfter(i, after[i], source, order) ELSE episodes[i]]
        /\ events' = [i \in Ingredients |->
             IF i \in S THEN EventsAfter(i, after[i]) ELSE events[i]]
    BY DEF Command, RecordTransition
  <1>3. ASSUME NEW i \in S
        PROVE  Recorded(Os, i, after[i], source, order)
    <2>1. /\ ingredient[i] \in Row /\ episodes[i] \in Seq(EpisodeRec(Os))
          /\ events[i] \in Seq(EventRec)
      BY <1>1 DEF LedgerTyped
    <2>2. /\ ingredient'[i] = Revised(ingredient[i], after[i])
          /\ episodes'[i] = EpisodesAfter(i, after[i], source, order)
          /\ events'[i] = EventsAfter(i, after[i])
      BY <1>2
    <2> QED
      BY <1>1, <2>1, <2>2 DEF Command, Recorded, RowsGiven, MovementsGiven
  <1>4. ASSUME NEW i \in Ingredients \ S
        PROVE  /\ ingredient'[i] = ingredient[i] /\ episodes'[i] = episodes[i]
               /\ events'[i] = events[i] /\ movements'[i] = movements[i]
    BY <1>2 DEF Command, MovementsGiven
  <1> QED
    BY <1>3, <1>4

\* It keeps the ledger sound.
LEMMA CommandSound ==
  ASSUME NEW Os, NoOrder \in Os, LInv(Os), NEW S \in SUBSET Ingredients,
         NEW after, NEW source, NEW order, Command(Os, S, after, source, order)
  PROVE  LInv(Os)'
  <1>1. LedgerTyped(Os) /\ \A i \in Ingredients :
          RowSound(i) /\ MovementsSound(i) /\ EpisodesSound(i) /\ EventsSound(i)
    BY DEF LInv
  <1>2. /\ ingredient' = [i \in Ingredients |->
             IF i \in S THEN Revised(ingredient[i], after[i]) ELSE ingredient[i]]
        /\ episodes' = [i \in Ingredients |->
             IF i \in S THEN EpisodesAfter(i, after[i], source, order) ELSE episodes[i]]
        /\ events' = [i \in Ingredients |->
             IF i \in S THEN EventsAfter(i, after[i]) ELSE events[i]]
    BY DEF Command, RecordTransition
  <1>3. ASSUME NEW i \in Ingredients
        PROVE  /\ ingredient[i] \in Row /\ episodes[i] \in Seq(EpisodeRec(Os))
               /\ events[i] \in Seq(EventRec)
    BY <1>1 DEF LedgerTyped
  <1>4. ASSUME NEW i \in S
        PROVE  /\ ingredient'[i] \in Row /\ episodes'[i] \in Seq(EpisodeRec(Os))
               /\ events'[i] \in Seq(EventRec)
               /\ RowSound(i)' /\ EpisodesSound(i)' /\ EventsSound(i)'
    <2>1. i \in Ingredients
      OBVIOUS
    <2>2. Recorded(Os, i, after[i], source, order)
      BY CommandRecords
    <2> QED
      BY <2>1, <2>2, TransitionSound
  <1>5. ASSUME NEW i \in Ingredients, i \notin S
        PROVE  /\ ingredient'[i] \in Row /\ episodes'[i] \in Seq(EpisodeRec(Os))
               /\ events'[i] \in Seq(EventRec)
               /\ RowSound(i)' /\ MovementsSound(i)' /\ EpisodesSound(i)' /\ EventsSound(i)'
    <2>1. /\ ingredient'[i] = ingredient[i] /\ episodes'[i] = episodes[i]
          /\ events'[i] = events[i] /\ movements'[i] = movements[i]
      BY <1>5, CommandRecords
    <2>2. initialized' = initialized
      BY DEF Command
    <2> QED
      BY <1>1, <1>3, <2>1, <2>2, SoundKept
  <1>6. LedgerTyped(Os)'
    <2>1. /\ ingredient' \in [Ingredients -> Row]
          /\ episodes' \in [Ingredients -> Seq(EpisodeRec(Os))]
          /\ events' \in [Ingredients -> Seq(EventRec)]
      BY <1>2, <1>4, <1>5
    <2> QED
      BY <1>1, <2>1 DEF LedgerTyped, Command, MovementsGiven
  <1> QED
    BY <1>4, <1>5, <1>6 DEF LInv, Command, MovementsGiven

\* What a written row is after its revision is given.
LEMMA WrittenRow ==
  ASSUME NEW S \in SUBSET Ingredients, NEW after, NEW source, NEW order,
         RecordTransition(S, after, source, order), NEW i \in S,
         ingredient[i] \in Row, after[i] \in Row, after[i].revision = ingredient[i].revision
  PROVE  /\ ingredient'[i].exists = after[i].exists
         /\ ingredient'[i].quantity = after[i].quantity
         /\ ingredient'[i].version = after[i].version
  <1>1. ingredient'[i] = Revised(ingredient[i], after[i])
    BY DEF RecordTransition
  <1>2. PICK x \in Row : x = after[i]
    OBVIOUS
  <1> QED
    BY <1>1, <1>2, RevisedRow

\* InventoryService.create
LEMMA CreateRecords ==
  ASSUME NEW Os, NoOrder \in Os, LInv(Os), NEW i \in Ingredients, NEW q \in Quantities,
         NEW t \in Thresholds, NEW k \in Keys, CreateIngredient(i, q, t, k)
  PROVE  \E after : Command(Os, {i}, after, "ingredient_creation", NoOrder)
  <1>1. PICK row : row = [exists |-> TRUE, quantity |-> q, version |-> 1,
                          threshold |-> t, active |-> TRUE, revision |-> 0]
    OBVIOUS
  <1>2. PICK after : after = [j \in {i} |-> row]
    OBVIOUS
  <1>3. PICK m : m = Movement("opening", q, q, 1, k, NoOrder)
    OBVIOUS
  <1>4. /\ ~ingredient[i].exists
        /\ RecordTransition({i}, after, "ingredient_creation", NoOrder)
        /\ movements' = [movements EXCEPT ![i] = <<m>>]
        /\ initialized' = initialized
    BY <1>1, <1>2, <1>3 DEF CreateIngredient
  <1>5. /\ LedgerTyped(Os) /\ RowSound(i)
        /\ ingredient[i] \in Row /\ movements[i] \in Seq(MovementRec(Os))
    BY DEF LInv, LedgerTyped
  <1>6. row \in Row /\ row.exists /\ row.revision = 0 /\ row.active
    BY <1>1, Bounds DEF Row
  <1>7. ingredient[i].revision = 0
    BY <1>4, <1>5, NoRowIsRow DEF RowSound
  <1>8. after[i] = row
    BY <1>2
  <1>9. /\ m \in MovementRec(Os) /\ MovementRow(m) /\ m.version = 1
        /\ m.after = q /\ m.delta = q
    BY <1>3, Bounds DEF Movement, MovementRec, MovementRow, Kinds
  <1>10. /\ ingredient'[i].exists = TRUE /\ ingredient'[i].quantity = q
         /\ ingredient'[i].version = 1
    <2>1. {i} \in SUBSET Ingredients /\ i \in {i}
      OBVIOUS
    <2>2. /\ ingredient'[i].exists = row.exists /\ ingredient'[i].quantity = row.quantity
          /\ ingredient'[i].version = row.version
      BY ZenonT(40), <1>4, <1>5, <1>6, <1>7, <1>8, <2>1, WrittenRow
    <2> QED
      BY <1>1, <2>2
  <1>11. PICK u : u = <<m>>
    OBVIOUS
  <1>12. /\ u \in Seq(MovementRec(Os)) /\ Len(u) = 1 /\ u[1] = m /\ u # <<>>
    BY <1>9, <1>11
  <1>13. movements'[i] = u /\ movements' \in [Ingredients -> Seq(MovementRec(Os))]
    BY <1>4, <1>5, <1>11, <1>12 DEF LedgerTyped
  <1>14. MovementsSound(i)'
    <2>1. /\ \A n \in 1 .. Len(u) : n = 1
          /\ q = m.delta + 0
      BY <1>9, <1>12, Bounds
    <2>2. /\ (u = <<>> <=> ~ingredient'[i].exists)
          /\ \A n \in 1 .. Len(u) : MovementRow(u[n]) /\ u[n].version = n
          /\ ingredient'[i].version = Len(u)
          /\ ingredient'[i].quantity = IF Len(u) = 0 THEN 0 ELSE u[Len(u)].after
      BY <1>9, <1>10, <1>12, <2>1
    <2>3. \A n \in 1 .. Len(u) :
            u[n].after = u[n].delta + (IF n = 1 THEN 0 ELSE u[n - 1].after)
      BY <1>9, <1>12, <2>1
    <2>4. \A x, y \in 1 .. Len(u) : u[x].key = u[y].key /\ u[x].key # NoKey => x = y
      BY <2>1
    <2> QED
      BY <1>13, <2>2, <2>3, <2>4 DEF MovementsSound
  <1>15. MovementsGiven(Os, {i})
    <2>1. \A j \in Ingredients \ {i} : movements'[j] = movements[j]
      BY <1>4, <1>5 DEF LedgerTyped
    <2>2. \A j \in {i} : /\ MovementsSound(j)'
                         /\ (ingredient[j].exists => movements'[j][1] = movements[j][1])
      BY <1>4, <1>14 DEF MovementsSound
    <2> QED
      BY <1>13, <2>1, <2>2 DEF MovementsGiven
  <1>16. RowsGiven({i}, after)
    BY <1>6, <1>7, <1>8 DEF RowsGiven
  <1>17. /\ "ingredient_creation" \in Sources \ {"maintenance_initialization"}
         /\ {i} \in SUBSET Ingredients /\ "ingredient_creation" # "order_acceptance"
    BY DEF Sources
  <1> QED
    BY <1>4, <1>15, <1>16, <1>17 DEF Command

\* InventoryService.update
LEMMA UpdateRecords ==
  ASSUME NEW Os, NoOrder \in Os, LInv(Os), NEW i \in Ingredients,
         NEW t \in Thresholds, NEW a \in BOOLEAN, UpdateIngredient(i, t, a)
  PROVE  \E after : Command(Os, {i}, after, "ingredient_update", NoOrder)
  <1>1. PICK row : row = [ingredient[i] EXCEPT !.threshold = t, !.active = a]
    OBVIOUS
  <1>2. PICK after : after = [j \in {i} |-> row]
    OBVIOUS
  <1>3. /\ ingredient[i].exists /\ (a \/ ingredient[i].quantity = 0)
        /\ RecordTransition({i}, after, "ingredient_update", NoOrder)
        /\ movements' = movements /\ initialized' = initialized
    BY <1>1, <1>2 DEF UpdateIngredient
  <1>4. /\ LedgerTyped(Os) /\ MovementsSound(i) /\ ingredient[i] \in Row
        /\ movements \in [Ingredients -> Seq(MovementRec(Os))]
    BY DEF LInv, LedgerTyped
  <1>5. /\ row \in Row /\ row.exists = ingredient[i].exists /\ row.active = a
        /\ row.revision = ingredient[i].revision /\ row.quantity = ingredient[i].quantity
        /\ row.version = ingredient[i].version
    BY <1>1, <1>4, Bounds DEF Row
  <1>6. after[i] = row
    BY <1>2
  <1>7. /\ ingredient'[i].exists = ingredient[i].exists
        /\ ingredient'[i].quantity = ingredient[i].quantity
        /\ ingredient'[i].version = ingredient[i].version
    <2>1. {i} \in SUBSET Ingredients /\ i \in {i}
      OBVIOUS
    <2>2. /\ ingredient'[i].exists = row.exists /\ ingredient'[i].quantity = row.quantity
          /\ ingredient'[i].version = row.version
      BY <1>3, <1>4, <1>5, <1>6, <2>1, WrittenRow
    <2> QED
      BY <1>5, <2>2
  <1>8. MovementsSound(i)'
    BY <1>3, <1>4, <1>7 DEF MovementsSound
  <1>9. MovementsGiven(Os, {i})
    BY <1>3, <1>4, <1>8 DEF MovementsGiven, MovementsSound
  <1>10. RowsGiven({i}, after)
    BY <1>3, <1>5, <1>6 DEF RowsGiven
  <1>11. /\ "ingredient_update" \in Sources \ {"maintenance_initialization"}
         /\ {i} \in SUBSET Ingredients /\ "ingredient_update" # "order_acceptance"
    BY DEF Sources
  <1> QED
    BY <1>3, <1>9, <1>10, <1>11 DEF Command

\* A row with another quantity at its next version.
Moved(x, q) == [x EXCEPT !.quantity = q, !.version = x.version + 1]

\* It is a row again.
LEMMA MovedRow ==
  ASSUME NEW x \in Row, NEW q \in Quantities, NEW y, y = Moved(x, q)
  PROVE  /\ y \in Row /\ y.exists = x.exists /\ y.quantity = q
         /\ y.revision = x.revision /\ y.active = x.active /\ y.version = x.version + 1
  <1>1. x.version + 1 \in Nat
    BY DEF Row
  <1> QED
    BY <1>1 DEF Row, Moved

\* InventoryService.change
LEMMA ChangeRecords ==
  ASSUME NEW Os, NoOrder \in Os, LInv(Os), NEW i \in Ingredients,
         NEW kind \in {"receipt", "waste", "count"}, NEW q \in Quantities, NEW k \in Keys,
         ChangeStock(i, kind, q, k)
  PROVE  \E after : Command(Os, {i}, after, "stock_command", NoOrder)
  <1>1. PICK delta, left : delta = Delta(i, kind, q) /\ left = ingredient[i].quantity + delta
    OBVIOUS
  <1>2. PICK row : row = [ingredient[i] EXCEPT !.quantity = left, !.version = @ + 1]
    OBVIOUS
  <1>3. PICK after : after = [j \in {i} |-> row]
    OBVIOUS
  <1>4. PICK m : m = Movement(kind, delta, left, ingredient[i].version + 1, k, NoOrder)
    OBVIOUS
  <1>5. /\ ingredient[i].exists /\ (kind # "count" => q > 0) /\ ~KeyUsed(i, k, kind)
        /\ ingredient[i].active /\ left \in Quantities
        /\ RecordTransition({i}, after, "stock_command", NoOrder)
        /\ initialized' = initialized
    BY <1>1, <1>2, <1>3 DEF ChangeStock
  <1>6. /\ LedgerTyped(Os) /\ MovementsSound(i) /\ ingredient[i] \in Row
        /\ movements \in [Ingredients -> Seq(MovementRec(Os))]
        /\ movements[i] \in Seq(MovementRec(Os))
        /\ ingredient[i].quantity \in Quantities /\ ingredient[i].version \in Nat
    BY DEF LInv, LedgerTyped, Row
  <1>7. movements' = [movements EXCEPT ![i] = Append(movements[i], m)]
    BY <1>1, <1>4, <1>6 DEF ChangeStock
  <1>8. delta \in Int /\ left = delta + ingredient[i].quantity
    BY <1>1, <1>6, Bounds DEF Delta
  <1>9. /\ row \in Row /\ row.exists = ingredient[i].exists /\ row.quantity = left
        /\ row.revision = ingredient[i].revision /\ row.active = ingredient[i].active
        /\ row.version = ingredient[i].version + 1
    <2>1. row = Moved(ingredient[i], left)
      BY <1>2 DEF Moved
    <2>2. PICK x \in Row : x = ingredient[i]
      BY <1>6
    <2>3. left \in Quantities
      BY <1>5
    <2>4. row = Moved(x, left)
      BY <2>1, <2>2
    <2>5. /\ row \in Row /\ row.exists = x.exists /\ row.quantity = left
          /\ row.revision = x.revision /\ row.active = x.active
          /\ row.version = x.version + 1
      BY <2>3, <2>4, MovedRow
    <2> QED
      BY <2>2, <2>5
  <1>10. after[i] = row
    BY <1>3
  <1>11. /\ ingredient'[i].exists = ingredient[i].exists
         /\ ingredient'[i].quantity = left
         /\ ingredient'[i].version = ingredient[i].version + 1
    <2>1. {i} \in SUBSET Ingredients /\ i \in {i}
      OBVIOUS
    <2>2. /\ ingredient'[i].exists = row.exists /\ ingredient'[i].quantity = row.quantity
          /\ ingredient'[i].version = row.version
      BY <1>5, <1>6, <1>9, <1>10, <2>1, WrittenRow
    <2> QED
      BY <1>9, <2>2
  <1>12. /\ m \in MovementRec(Os) /\ m.kind = kind /\ m.delta = delta /\ m.after = left
         /\ m.version = ingredient[i].version + 1 /\ m.key = k /\ m.order = NoOrder
    BY <1>4, <1>5, <1>6, <1>8 DEF Movement, MovementRec, Kinds
  <1>13. MovementRow(m)
    <2>1. (kind = "receipt" => delta >= 0) /\ (kind = "waste" => delta < 0)
      BY <1>1, <1>5, Bounds DEF Delta
    <2> QED
      BY <1>5, <1>6, <1>12, <2>1 DEF MovementRow, Kinds
  <1>14. \A n \in 1 .. Len(movements[i]) : movements[i][n].key # m.key
    BY <1>5, <1>6, <1>12 DEF KeyUsed
  <1>15. movements'[i] = Append(movements[i], m)
    BY <1>6, <1>7
  <1>16. /\ movements'[i] \in Seq(MovementRec(Os)) /\ MovementsSound(i)'
         /\ movements'[i][1] = movements[i][1]
    BY <1>5, <1>6, <1>8, <1>11, <1>12, <1>13, <1>14, <1>15, MovementsGrow
  <1>17. MovementsGiven(Os, {i})
    BY <1>6, <1>7, <1>16 DEF MovementsGiven, MovementsSound
  <1>18. RowsGiven({i}, after)
    BY <1>5, <1>9, <1>10 DEF RowsGiven
  <1>19. /\ "stock_command" \in Sources \ {"maintenance_initialization"}
         /\ {i} \in SUBSET Ingredients /\ "stock_command" # "order_acceptance"
    BY DEF Sources
  <1> QED
    BY <1>5, <1>17, <1>18, <1>19 DEF Command

\* The ledger's half of _consume_order_stock, whatever the order needs, as long
\* as the stock is there.
LEMMA ConsumeSound ==
  ASSUME NEW Os, NoOrder \in Os, LInv(Os), NEW S \in SUBSET Ingredients, NEW required,
         \A i \in S : /\ ingredient[i].active /\ required[i] \in Nat \ {0}
                      /\ required[i] <= ingredient[i].quantity,
         NEW o \in Os, o # NoOrder, Consume(S, required, o)
  PROVE  LInv(Os)'
  <1> DEFINE m(i) == Movement("consumption", -required[i],
                              ingredient[i].quantity - required[i],
                              ingredient[i].version + 1, NoKey, o)
             row(i) == [ingredient[i] EXCEPT !.quantity = @ - required[i],
                                             !.version = @ + 1]
  <1>1. PICK after : after = [i \in S |-> row(i)]
    OBVIOUS
  <1>2. /\ RecordTransition(S, after, "order_acceptance", o)
        /\ movements' = [i \in Ingredients |->
             IF i \in S THEN Append(movements[i], m(i)) ELSE movements[i]]
        /\ initialized' = initialized
    BY <1>1 DEF Consume
  <1>3. LedgerTyped(Os) /\ \A i \in Ingredients : RowSound(i) /\ MovementsSound(i)
    BY DEF LInv
  <1>4. ASSUME NEW i \in S
        PROVE  /\ after[i] \in Row /\ after[i].exists /\ after[i].active
               /\ after[i].revision = ingredient[i].revision
               /\ movements'[i] \in Seq(MovementRec(Os)) /\ MovementsSound(i)'
               /\ movements'[i][1] = movements[i][1]
    <2>1. PICK x, n, r : x = ingredient[i] /\ n = m(i) /\ r = row(i)
      OBVIOUS
    <2>2. /\ i \in Ingredients /\ x \in Row /\ movements[i] \in Seq(MovementRec(Os))
          /\ MovementsSound(i) /\ x.quantity \in Quantities /\ x.version \in Nat
          /\ x.active /\ required[i] \in Nat \ {0} /\ required[i] <= x.quantity
          /\ (~x.exists => x = NoRow)
      BY <1>3, <2>1 DEF LedgerTyped, Row, RowSound
    <2>3. x.exists
      BY <2>2, NoRowIsRow
    <2>4. x.quantity - required[i] \in Quantities /\ -required[i] \in Int /\ -required[i] < 0
      BY <2>2, Bounds DEF Quantities
    <2>5. /\ r \in Row /\ r.exists = x.exists /\ r.active = x.active
          /\ r.revision = x.revision /\ r.quantity = x.quantity - required[i]
          /\ r.version = x.version + 1
      <3>1. PICK y \in Row, q \in Quantities : y = x /\ q = x.quantity - required[i]
        BY <2>2, <2>4
      <3>2. r = Moved(y, q)
        BY <2>1, <3>1 DEF Moved
      <3>3. /\ r \in Row /\ r.exists = y.exists /\ r.quantity = q
            /\ r.revision = y.revision /\ r.active = y.active /\ r.version = y.version + 1
        BY <3>2, MovedRow
      <3> QED
        BY <3>1, <3>3
    <2>6. /\ n \in MovementRec(Os) /\ MovementRow(n) /\ n.version = x.version + 1
          /\ n.after = x.quantity - required[i] /\ n.delta = -required[i]
          /\ n.key = NoKey
      BY <2>1, <2>2, <2>4 DEF Movement, MovementRec, MovementRow, Kinds
    <2>7. after[i] = r
      BY <1>1, <2>1
    <2>8. /\ ingredient'[i].exists = x.exists
          /\ ingredient'[i].quantity = x.quantity - required[i]
          /\ ingredient'[i].version = x.version + 1
      <3>1. /\ ingredient[i] \in Row /\ after[i] \in Row
            /\ after[i].revision = ingredient[i].revision
        BY <2>1, <2>2, <2>5, <2>7
      <3>2. /\ ingredient'[i].exists = after[i].exists
            /\ ingredient'[i].quantity = after[i].quantity
            /\ ingredient'[i].version = after[i].version
        BY <1>2, <3>1, WrittenRow
      <3> QED
        BY <2>5, <2>7, <3>2
    <2>9. movements'[i] = Append(movements[i], n)
      BY <1>2, <2>1, <2>2
    <2>10. n.after = n.delta + x.quantity
      BY <2>2, <2>6, Bounds
    <2>11. /\ movements'[i] \in Seq(MovementRec(Os)) /\ MovementsSound(i)'
           /\ movements'[i][1] = movements[i][1]
      <3>1. /\ ingredient[i] \in Row /\ ingredient[i].exists
            /\ n.version = ingredient[i].version + 1
            /\ n.after = n.delta + ingredient[i].quantity
            /\ ingredient'[i].exists /\ ingredient'[i].version = n.version
            /\ ingredient'[i].quantity = n.after
        BY <2>1, <2>2, <2>3, <2>6, <2>8, <2>10
      <3> QED
        BY <2>2, <2>6, <2>9, <3>1, MovementsGrow
    <2> QED
      BY <2>1, <2>2, <2>3, <2>5, <2>7, <2>11
  <1>5. MovementsGiven(Os, S)
    <2>1. movements' \in [Ingredients -> Seq(MovementRec(Os))]
      BY <1>2, <1>3, <1>4 DEF LedgerTyped
    <2>2. \A i \in Ingredients \ S : movements'[i] = movements[i]
      BY <1>2
    <2> QED
      BY <1>4, <2>1, <2>2 DEF MovementsGiven, MovementsSound
  <1>6. RowsGiven(S, after)
    BY <1>4 DEF RowsGiven
  <1>7. "order_acceptance" \in Sources \ {"maintenance_initialization"}
    BY DEF Sources
  <1>8. Command(Os, S, after, "order_acceptance", o)
    BY <1>2, <1>5, <1>6, <1>7 DEF Command
  <1> QED
    BY <1>8, CommandSound

\* Maintenance of kind "initialize": an ingredient that has been low since before
\* there were episodes gets one, which nobody is told of.
LEMMA InitializeSound ==
  ASSUME NEW Os, NoOrder \in Os, LInv(Os), Initialize
  PROVE  LInv(Os)'
  <1>1. LedgerTyped(Os) /\ \A i \in Ingredients :
          RowSound(i) /\ MovementsSound(i) /\ EpisodesSound(i) /\ EventsSound(i)
    BY DEF LInv
  <1>2. /\ ingredient' = ingredient /\ movements' = movements /\ events' = events
        /\ initialized' = TRUE /\ episodes' = [i \in Ingredients |-> Baseline(i)]
    BY DEF Initialize
  <1>3. ASSUME NEW i \in Ingredients
        PROVE  /\ episodes'[i] \in Seq(EpisodeRec(Os)) /\ RowSound(i)' /\ MovementsSound(i)'
               /\ EpisodesSound(i)' /\ EventsSound(i)'
    <2>1. /\ ingredient[i] \in Row /\ episodes[i] \in Seq(EpisodeRec(Os))
          /\ events[i] \in Seq(EventRec) /\ ingredient[i].revision \in Nat
          /\ RowSound(i) /\ MovementsSound(i) /\ EpisodesSound(i) /\ EventsSound(i)
      BY <1>1 DEF LedgerTyped, Row
    <2>2. MovementsSound(i)'
      BY <1>2, <2>1 DEF MovementsSound
    <2>3. CASE IsLow(ingredient[i]) /\ ~HasOpenEpisode(i)
      <3>1. PICK row, x : /\ row = ingredient[i]
                          /\ x = Episode(row, "maintenance_initialization", NoOrder)
        OBVIOUS
      <3>2. LegacyLow(i) /\ row.exists /\ row.revision >= 1 /\ IsLow(row)
        BY <2>1, <2>3, <3>1, NoRowIsRow DEF EpisodesSound, RowSound
      <3>3. /\ x \in EpisodeRec(Os) /\ EpisodeRow(x) /\ x.opened = row.revision
            /\ x.closing = Unresolved /\ x.suppressed
        <4>1. "maintenance_initialization" \in Sources
          BY DEF Sources
        <4> QED
          BY <2>1, <3>1, <3>2, <4>1, OpenedEpisode
      <3>4. PICK w : w = episodes'[i]
        OBVIOUS
      <3>5. w \in Seq(EpisodeRec(Os)) /\ Len(w) = 1 /\ w[1] = x /\ w # <<>>
        <4>1. w = Append(episodes[i], x) /\ episodes[i] = <<>>
          BY <1>2, <2>3, <3>1, <3>2, <3>4 DEF Baseline, LegacyLow
        <4>2. w = <<x>>
          BY <4>1
        <4> QED
          BY <3>3, <4>2
      <3>6. RowSound(i)'
        BY <1>2, <2>1, <3>1, <3>2 DEF RowSound
      <3>7. EpisodesSound(i)'
        <4>1. x.closing.revision = 0
          BY <3>3 DEF Unresolved
        <4>2. HasOpenEpisode(i)' /\ IsLow(ingredient'[i])
          BY <1>2, <3>1, <3>2, <3>3, <3>4, <3>5 DEF HasOpenEpisode
        <4>3. \A n \in 1 .. Len(w) : n = 1
          BY <3>5
        <4>4. /\ \A n \in 1 .. Len(w) : /\ EpisodeRow(w[n])
                                        /\ w[n].opened <= ingredient'[i].revision
                                        /\ w[n].closing.revision <= ingredient'[i].revision
              /\ \A n \in 1 .. Len(w) :
                   /\ w[n].closing = Unresolved => n = Len(w)
                   /\ n < Len(w) => w[n].closing.revision < w[n + 1].opened
          BY <1>2, <2>1, <3>1, <3>3, <3>5, <4>1, <4>3
        <4> QED
          BY <3>4, <4>2, <4>4 DEF EpisodesSound
      <3>8. EventsSound(i)'
        <4>1. Len(episodes[i]) = 0 /\ episodes[i] = <<>>
          BY <3>2 DEF LegacyLow
        <4>2. \A n \in 1 .. Len(events[i]) :
                /\ events[i][n].boundary # "opened" /\ events[i][n].boundary # "resolved"
                /\ events[i][n].revision >= 1
                /\ events[i][n].revision <= ingredient[i].revision
          BY <2>1, <4>1 DEF EventsSound, TransitionFacts
        <4>3. \A n \in 1 .. Len(events[i]) : events[i][n].type # "low"
          BY <2>1, <4>1 DEF EventsSound, LowsMatch
        <4>4. \A n \in 1 .. Len(events'[i]) : /\ TransitionFacts(i, events[i][n])'
                                              /\ events'[i][n].revision <= ingredient'[i].revision
          BY <1>2, <4>2 DEF TransitionFacts
        <4>5. LowsMatch(i)'
          <5>1. \A n \in 1 .. Len(w) : w[n].suppressed
            BY <3>3, <3>5
          <5> QED
            BY <1>2, <3>4, <4>3, <5>1 DEF LowsMatch
        <4>6. StatesTold(i)'
          BY <1>2, <2>1 DEF EventsSound, StatesTold
        <4> QED
          BY <4>4, <4>5, <4>6 DEF EventsSound
      <3> QED
        BY <2>2, <3>4, <3>5, <3>6, <3>7, <3>8
    <2>4. CASE ~(IsLow(ingredient[i]) /\ ~HasOpenEpisode(i))
      <3>1. episodes'[i] = episodes[i]
        BY <1>2, <2>4 DEF Baseline
      <3>2. HasOpenEpisode(i)' <=> HasOpenEpisode(i)
        BY <3>1 DEF HasOpenEpisode
      <3>3. EpisodesSound(i)'
        BY <1>2, <2>1, <2>4, <3>1, <3>2 DEF EpisodesSound
      <3>4. RowSound(i)'
        BY <1>2, <2>1, <3>1 DEF RowSound
      <3>5. LowsMatch(i)' /\ StatesTold(i)'
        <4>1. LowsMatch(i) /\ StatesTold(i)
          BY <2>1 DEF EventsSound
        <4>2. events'[i] = events[i] /\ ingredient'[i] = ingredient[i]
          BY <1>2
        <4>3. LowsMatch(i)'
          BY <3>1, <4>1, <4>2 DEF LowsMatch
        <4>4. StatesTold(i)'
          BY <4>1, <4>2 DEF StatesTold
        <4> QED
          BY <4>3, <4>4
      <3>6. \A n \in 1 .. Len(events[i]) : /\ TransitionFacts(i, events[i][n])
                                           /\ events[i][n].revision <= ingredient[i].revision
        BY <2>1 DEF EventsSound
      <3>7. \A n \in 1 .. Len(events'[i]) : /\ TransitionFacts(i, events[i][n])'
                                            /\ events'[i][n].revision <= ingredient'[i].revision
        BY <1>2, <3>1, <3>6 DEF TransitionFacts
      <3> QED
        BY <2>1, <2>2, <3>1, <3>3, <3>4, <3>5, <3>7 DEF EventsSound
    <2> QED
      BY <2>3, <2>4
  <1>4. LedgerTyped(Os)'
    <2>1. episodes' \in [Ingredients -> Seq(EpisodeRec(Os))]
      BY <1>2, <1>3
    <2> QED
      BY <1>1, <1>2, <2>1 DEF LedgerTyped
  <1> QED
    BY <1>3, <1>4 DEF LInv

\* The ledger as the migrations leave it.
LEMMA InitSound ==
  ASSUME NEW Os, NoOrder \in Os, LedgerInit
  PROVE  LInv(Os)
  <1>1. PICK legacy \in [Legacy -> LegacyRows \cup {NoRow}] :
          ingredient = [i \in Ingredients |-> IF i \in Legacy THEN legacy[i] ELSE NoRow]
    BY DEF LedgerInit
  <1>2. \A r \in LegacyRows : /\ r \in Row /\ r.exists /\ r.version = 1 /\ r.revision = 1
                              /\ (~r.active => r.quantity = 0)
    <2> TAKE r \in LegacyRows
    <2>1. r \in [exists: {TRUE}, quantity: Quantities, version: {1},
                 threshold: Thresholds, active: BOOLEAN, revision: {1}]
      BY DEF LegacyRows
    <2>2. ~r.active => r.quantity = 0
      BY DEF LegacyRows
    <2>3. r.exists = TRUE /\ r.version = 1 /\ r.revision = 1
      BY <2>1
    <2>4. PICK q \in Quantities, t \in Thresholds, a \in BOOLEAN :
            q = r.quantity /\ t = r.threshold /\ a = r.active
      BY <2>1
    <2>5. r = [exists |-> r.exists, quantity |-> r.quantity, version |-> r.version,
               threshold |-> r.threshold, active |-> r.active, revision |-> r.revision]
      BY <2>1
    <2>6. r = [exists |-> TRUE, quantity |-> q, version |-> 1, threshold |-> t,
               active |-> a, revision |-> 1]
      BY <2>3, <2>4, <2>5, Zenon
    <2>7. r \in Row
      BY <2>6 DEF Row
    <2> QED
      BY <2>2, <2>3, <2>7
  <1>3. ASSUME NEW i \in Ingredients
        PROVE  /\ ingredient[i] \in Row
               /\ \/ ingredient[i] = NoRow
                  \/ /\ ingredient[i].exists /\ ingredient[i].version = 1
                     /\ ingredient[i].revision = 1
                     /\ (~ingredient[i].active => ingredient[i].quantity = 0)
    <2>1. CASE i \in Legacy
      <3>1. ingredient[i] = legacy[i] /\ legacy[i] \in LegacyRows \cup {NoRow}
        BY <1>1, <2>1
      <3> QED
        BY <1>2, <3>1, NoRowIsRow
    <2>2. CASE i \notin Legacy
      BY <1>1, <2>2, NoRowIsRow
    <2> QED
      BY <2>1, <2>2
  <1>4. /\ movements = [i \in Ingredients |->
             IF ingredient[i].exists
             THEN <<Movement("opening", ingredient[i].quantity, ingredient[i].quantity, 1,
                             NoKey, NoOrder)>>
             ELSE <<>>]
        /\ episodes = [i \in Ingredients |-> <<>>] /\ events = [i \in Ingredients |-> <<>>]
        /\ initialized = FALSE
    BY DEF LedgerInit
  <1>5. ASSUME NEW i \in Ingredients
        PROVE  /\ movements[i] \in Seq(MovementRec(Os)) /\ RowSound(i) /\ MovementsSound(i)
               /\ EpisodesSound(i) /\ EventsSound(i)
    <2>1. episodes[i] = <<>> /\ events[i] = <<>> /\ Len(episodes[i]) = 0 /\ Len(events[i]) = 0
      BY <1>4
    <2>2. RowSound(i)
      BY <1>3, <2>1, NoRowIsRow DEF RowSound
    <2>3. CASE ingredient[i] = NoRow
      <3>1. movements[i] = <<>> /\ Len(movements[i]) = 0
        BY <1>4, <2>3, NoRowIsRow
      <3>2. MovementsSound(i)
        BY <2>3, <3>1, NoRowIsRow DEF MovementsSound
      <3>3. ~IsLow(ingredient[i]) /\ ~HasOpenEpisode(i)
        BY <2>1, <2>3, NoRowIsRow DEF HasOpenEpisode
      <3>4. EpisodesSound(i)
        BY <2>1, <3>3 DEF EpisodesSound
      <3>5. EventsSound(i)
        BY <2>1, <2>3, NoRowIsRow DEF EventsSound, LowsMatch, StatesTold
      <3> QED
        BY <2>2, <3>1, <3>2, <3>4, <3>5
    <2>4. CASE ingredient[i] # NoRow
      <3>1. PICK q, m : /\ q = ingredient[i].quantity
                        /\ m = Movement("opening", q, q, 1, NoKey, NoOrder)
        OBVIOUS
      <3>2. /\ q \in Quantities /\ ingredient[i].exists /\ ingredient[i].version = 1
            /\ ingredient[i].revision = 1
        BY <1>3, <2>4, <3>1 DEF Row
      <3>3. /\ m \in MovementRec(Os) /\ MovementRow(m) /\ m.version = 1
            /\ m.after = q /\ m.delta = q /\ m.key = NoKey
        BY <3>1, <3>2, Bounds DEF Movement, MovementRec, MovementRow, Kinds
      <3>4. PICK u : u = movements[i]
        OBVIOUS
      <3>5. u \in Seq(MovementRec(Os)) /\ Len(u) = 1 /\ u[1] = m /\ u # <<>>
        <4>1. u = <<m>>
          BY <1>4, <3>1, <3>2, <3>4
        <4> QED
          BY <3>3, <4>1
      <3>6. MovementsSound(i)
        <4>1. (\A n \in 1 .. Len(u) : n = 1) /\ q = q + 0
          BY <3>2, <3>5, Bounds
        <4>2. /\ (u = <<>> <=> ~ingredient[i].exists)
              /\ \A n \in 1 .. Len(u) : MovementRow(u[n]) /\ u[n].version = n
              /\ ingredient[i].version = Len(u)
              /\ ingredient[i].quantity = IF Len(u) = 0 THEN 0 ELSE u[Len(u)].after
          BY <3>1, <3>2, <3>3, <3>5, <4>1
        <4>3. \A n \in 1 .. Len(u) :
                u[n].after = u[n].delta + (IF n = 1 THEN 0 ELSE u[n - 1].after)
          BY <3>3, <3>5, <4>1
        <4>4. \A x, y \in 1 .. Len(u) : u[x].key = u[y].key /\ u[x].key # NoKey => x = y
          BY <4>1
        <4> QED
          BY <3>4, <4>2, <4>3, <4>4 DEF MovementsSound
      <3>7. ~HasOpenEpisode(i)
        BY <2>1 DEF HasOpenEpisode
      <3>8. LegacyLow(i)
        BY <1>4, <2>1, <3>3, <3>4, <3>5 DEF LegacyLow
      <3>9. EpisodesSound(i)
        BY <2>1, <3>7, <3>8 DEF EpisodesSound
      <3>10. EventsSound(i)
        BY <2>1, <3>2 DEF EventsSound, LowsMatch, StatesTold
      <3> QED
        BY <2>2, <3>4, <3>5, <3>6, <3>9, <3>10
    <2> QED
      BY <2>3, <2>4
  <1>6. LedgerTyped(Os)
    <2>1. ingredient \in [Ingredients -> Row]
      BY <1>1, <1>3
    <2>2. movements \in [Ingredients -> Seq(MovementRec(Os))]
      BY <1>4, <1>5
    <2>3. /\ episodes \in [Ingredients -> Seq(EpisodeRec(Os))]
          /\ events \in [Ingredients -> Seq(EventRec)] /\ initialized \in BOOLEAN
      <3>1. <<>> \in Seq(EpisodeRec(Os)) /\ <<>> \in Seq(EventRec)
        OBVIOUS
      <3> QED
        BY <1>4, <3>1
    <2> QED
      BY <2>1, <2>2, <2>3 DEF LedgerTyped
  <1> QED
    BY <1>5, <1>6 DEF LInv

-----------------------------------------------------------------------------
(* The properties *)

\* The commands of a stock manager write one ingredient.
LEMMA StepRecords ==
  ASSUME NEW Os, NoOrder \in Os, LInv(Os), NEW i \in Ingredients, LedgerStep(i)
  PROVE  \E after, source : Command(Os, {i}, after, source, NoOrder)
  <1>1. CASE \E q \in Quantities, t \in Thresholds, k \in Keys : CreateIngredient(i, q, t, k)
    BY <1>1, CreateRecords
  <1>2. CASE \E t \in Thresholds, a \in BOOLEAN : UpdateIngredient(i, t, a)
    BY <1>2, UpdateRecords
  <1>3. CASE \E kind \in {"receipt", "waste", "count"}, q \in Quantities, k \in Keys :
               ChangeStock(i, kind, q, k)
    BY <1>3, ChangeRecords
  <1> QED
    BY <1>1, <1>2, <1>3 DEF LedgerStep

\* Every command and maintenance keeps each ingredient sound.
LEMMA LedgerNextSound ==
  ASSUME NEW Os, NoOrder \in Os, LInv(Os), [LedgerNext]_ledger
  PROVE  LInv(Os)'
  <1>1. CASE Initialize
    BY <1>1, InitializeSound
  <1>2. ASSUME NEW i \in Ingredients, LedgerStep(i)
        PROVE  LInv(Os)'
    <2>1. PICK after, source : Command(Os, {i}, after, source, NoOrder)
      BY <1>2, StepRecords
    <2>2. {i} \in SUBSET Ingredients
      OBVIOUS
    <2> QED
      BY <2>1, <2>2, CommandSound
  <1>3. CASE UNCHANGED ledger
    <2>1. /\ ingredient' = ingredient /\ movements' = movements /\ episodes' = episodes
          /\ events' = events /\ initialized' = initialized
      BY <1>3 DEF ledger
    <2>2. LedgerTyped(Os) /\ \A i \in Ingredients :
            RowSound(i) /\ MovementsSound(i) /\ EpisodesSound(i) /\ EventsSound(i)
      BY DEF LInv
    <2>3. LedgerTyped(Os)'
      BY <2>1, <2>2 DEF LedgerTyped
    <2>4. \A i \in Ingredients :
            RowSound(i)' /\ MovementsSound(i)' /\ EpisodesSound(i)' /\ EventsSound(i)'
      BY <2>1, <2>2, SoundKept
    <2> QED
      BY <2>3, <2>4 DEF LInv
  <1> QED
    BY <1>1, <1>2, <1>3 DEF LedgerNext

\* A sound ledger can be trusted: its history explains its balances.
LEMMA SoundIsExplained ==
  ASSUME NEW Os, LInv(Os)
  PROVE  LedgerExplained
  <1>1. LedgerTyped(Os) /\ \A i \in Ingredients :
          RowSound(i) /\ MovementsSound(i) /\ EpisodesSound(i) /\ EventsSound(i)
    BY DEF LInv
  <1>2. ASSUME NEW i \in Ingredients
        PROVE  /\ DOMAIN movements[i] = 1 .. Len(movements[i])
               /\ DOMAIN episodes[i] = 1 .. Len(episodes[i])
               /\ DOMAIN events[i] = 1 .. Len(events[i])
    <2>1. /\ movements[i] \in Seq(MovementRec(Os)) /\ episodes[i] \in Seq(EpisodeRec(Os))
          /\ events[i] \in Seq(EventRec)
      BY <1>1 DEF LedgerTyped
    <2> QED
      BY <2>1
  <1>3. LedgerTypeOK
    <2>1. ASSUME NEW i \in Ingredients
          PROVE  /\ \A n \in DOMAIN movements[i] : MovementRow(movements[i][n])
                 /\ \A n \in DOMAIN episodes[i] : EpisodeRow(episodes[i][n])
                 /\ \A n \in DOMAIN events[i] : TransitionFacts(i, events[i][n])
      <3>1. \A n \in DOMAIN movements[i] : MovementRow(movements[i][n])
        BY <1>1, <1>2 DEF MovementsSound
      <3>2. \A n \in DOMAIN episodes[i] : EpisodeRow(episodes[i][n])
        BY <1>1, <1>2 DEF EpisodesSound
      <3>3. \A n \in DOMAIN events[i] : TransitionFacts(i, events[i][n])
        BY <1>1, <1>2 DEF EventsSound
      <3> QED
        BY <3>1, <3>2, <3>3
    <2> QED
      BY <1>1, <2>1 DEF LedgerTypeOK, LedgerTyped
  <1>4. LedgerChain
    BY <1>1 DEF LedgerChain, MovementsSound
  <1>5. KeyAppliedOnce
    BY <1>1, <1>2 DEF KeyAppliedOnce, MovementsSound
  <1>6. ArchivedIsEmpty
    BY <1>1 DEF ArchivedIsEmpty, RowSound
  <1> QED
    BY <1>3, <1>4, <1>5, <1>6 DEF LedgerExplained

\* The episodes and events of a sound ledger tell what it holds.
LEMMA SoundIsTold ==
  ASSUME NEW Os, LInv(Os)
  PROVE  EpisodesTellLedger
  <1>1. LedgerTyped(Os) /\ \A i \in Ingredients :
          RowSound(i) /\ MovementsSound(i) /\ EpisodesSound(i) /\ EventsSound(i)
    BY DEF LInv
  <1>2. ASSUME NEW i \in Ingredients
        PROVE  /\ DOMAIN episodes[i] = 1 .. Len(episodes[i])
               /\ DOMAIN events[i] = 1 .. Len(events[i])
    <2>1. episodes[i] \in Seq(EpisodeRec(Os)) /\ events[i] \in Seq(EventRec)
      BY <1>1 DEF LedgerTyped
    <2> QED
      BY <2>1
  <1>3. EpisodeMirrorsLowStock
    BY <1>1, <1>2 DEF EpisodeMirrorsLowStock, EpisodesSound, LegacyLow
  <1>4. EpisodesAnnouncedOnce
    <2> SUFFICES ASSUME NEW i \in Ingredients
                 PROVE  LET e == episodes[i]
                            lows == {n \in DOMAIN events[i] : events[i][n].type = "low"}
                        IN /\ \A x \in DOMAIN e :
                                /\ e[x].closing = Unresolved => x = Len(e)
                                /\ e[x].closing # Unresolved => e[x].closing.revision > e[x].opened
                                /\ x < Len(e) => e[x].closing.revision < e[x + 1].opened
                           /\ \A n \in lows : \E x \in DOMAIN e :
                                ~e[x].suppressed /\ e[x].opened = events[i][n].revision
                           /\ \A x \in DOMAIN e : ~e[x].suppressed =>
                                \E n \in lows : /\ events[i][n].revision = e[x].opened
                                                /\ \A y \in lows :
                                                     events[i][y].revision = e[x].opened => y = n
      BY DEF EpisodesAnnouncedOnce
    <2> DEFINE e == episodes[i]
               lows == {n \in DOMAIN events[i] : events[i][n].type = "low"}
    <2>1. \A x \in DOMAIN e :
            /\ e[x].closing = Unresolved => x = Len(e)
            /\ e[x].closing # Unresolved => e[x].closing.revision > e[x].opened
            /\ x < Len(e) => e[x].closing.revision < e[x + 1].opened
      BY <1>1, <1>2 DEF EpisodesSound, EpisodeRow, EpisodeFacts
    <2>2. LowsMatch(i)
      BY <1>1 DEF EventsSound
    <2>3. \A n \in lows : \E x \in DOMAIN e :
            ~e[x].suppressed /\ e[x].opened = events[i][n].revision
      BY <1>2, <2>2 DEF LowsMatch
    <2>4. \A x \in DOMAIN e : ~e[x].suppressed =>
            \E n \in lows : /\ events[i][n].revision = e[x].opened
                            /\ \A y \in lows : events[i][y].revision = e[x].opened => y = n
      <3> SUFFICES ASSUME NEW x \in DOMAIN e, ~e[x].suppressed
                   PROVE  \E n \in lows : /\ events[i][n].revision = e[x].opened
                            /\ \A y \in lows : events[i][y].revision = e[x].opened => y = n
        OBVIOUS
      <3>1. PICK n \in 1 .. Len(events[i]) :
              events[i][n].type = "low" /\ events[i][n].revision = e[x].opened
        BY <1>2, <2>2 DEF LowsMatch
      <3>2. n \in lows
        BY <1>2, <3>1
      <3>3. \A y \in lows : events[i][y].revision = e[x].opened => y = n
        BY <1>2, <2>2, <3>1 DEF LowsMatch
      <3> QED
        BY <3>1, <3>2, <3>3
    <2> QED
      BY <2>1, <2>3, <2>4
  <1>5. EventsTellState
    BY <1>1 DEF EventsTellState, EventsSound, StatesTold
  <1> QED
    BY <1>3, <1>4, <1>5 DEF EpisodesTellLedger

\* Every reachable ledger is sound, whatever is created, updated, archived,
\* received, wasted, counted or initialized (inventory/service.py).
THEOREM LedgerInvariant == LedgerSpec => []LInv({NoOrder})
  <1>1. NoOrder \in {NoOrder}
    OBVIOUS
  <1>2. LedgerInit => LInv({NoOrder})
    BY <1>1, InitSound
  <1>3. LInv({NoOrder}) /\ [LedgerNext]_ledger => LInv({NoOrder})'
    BY <1>1, LedgerNextSound
  <1> QED
    BY <1>2, <1>3, PTL DEF LedgerSpec

\* Balances stay in their range, movements explain them, no key is applied twice
\* and an archived ingredient is empty (InventoryService.create, update, change).
THEOREM BalancesExplained == LedgerSpec => []LedgerExplained
  <1>1. LInv({NoOrder}) => LedgerExplained
    BY SoundIsExplained
  <1> QED
    BY <1>1, LedgerInvariant, PTL

\* Episodes mirror low stock, each is announced once, and the state events number
\* every revision (record_inventory_transition, record_baseline_inventory_episode).
THEOREM EpisodesTold == LedgerSpec => []EpisodesTellLedger
  <1>1. LInv({NoOrder}) => EpisodesTellLedger
    BY SoundIsTold
  <1> QED
    BY <1>1, LedgerInvariant, PTL

=============================================================================
