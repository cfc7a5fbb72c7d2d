---------------------------- MODULE RedisProofs ----------------------------
(***************************************************************************)
(* Theorems about what the API keeps in Redis and beside it: the stream    *)
(* that carries deliveries to the workers (EventTransport), the menu cache *)
(* (MenuCache) and the limiter of sign-in requests (AuthLimiter).          *)
(***************************************************************************)
EXTENDS EventTransport, MenuCache, AuthLimiter,
        FiniteSetTheorems, NaturalsInduction, WellFoundedInduction, TLAPS

(***************************************************************************)
(* The stream of deliveries                                                *)
(***************************************************************************)
-----------------------------------------------------------------------------
(* The smallest and the largest of a set of ids, and its first members. *)

Least(n, S) == n \in S /\ \A m \in S : n <= m

\* A set of naturals that is not empty has a smallest member.
LEMMA NaturalsHaveLeast ==
  ASSUME NEW S \in SUBSET Nat, S # {}
  PROVE  \E n : Least(n, S)
  <1> DEFINE R == OpToRel(<, Nat)
  <1>1. IsWellFoundedOn(R, Nat)
    BY NatLessThanWellFounded
  <1> HIDE DEF R
  <1>2. PICK n \in S : \A m \in S : ~(<<m, n>> \in R)
    BY <1>1, WFMin
  <1>3. \A m \in S : ~(m < n)
    BY <1>2 DEF R, OpToRel
  <1>4. \A m \in S : m \in Nat
    OBVIOUS
  <1>5. \A m \in S : n <= m
    BY <1>3, <1>4
  <1> QED
    BY <1>5 DEF Least

\* Min(S) is a member of S, and the smallest.
LEMMA MinOfNaturals ==
  ASSUME NEW S \in SUBSET Nat, S # {}
  PROVE  Min(S) \in S /\ \A m \in S : Min(S) <= m
  <1>1. PICK n : Least(n, S)
    BY NaturalsHaveLeast
  <1>2. \E x \in S : \A y \in S : x =< y
    BY <1>1 DEF Least
  <1> QED
    BY <1>2 DEF Min

\* Of finitely many ids there is a largest one.
LEMMA MaxOfIds ==
  ASSUME NEW S \in SUBSET Ids, S # {}
  PROVE  Max(S) \in S /\ \A m \in S : m <= Max(S)
  <1> DEFINE D == {MaxMessages - x : x \in S}
  <1>1. \A x \in S : x \in Nat /\ MaxMessages - x \in Nat
    BY TransportBounds DEF Ids
  <1>2. D \in SUBSET Nat /\ D # {}
    BY <1>1
  <1>3. PICK d : Least(d, D)
    <2> HIDE DEF D
    <2> QED
      BY <1>2, NaturalsHaveLeast
  <1>4. PICK x \in S : d = MaxMessages - x
    BY <1>3 DEF Least
  <1>5. \A m \in S : d <= MaxMessages - m
    BY <1>3 DEF Least
  <1>6. \A m \in S : m <= x
    BY <1>1, <1>4, <1>5, TransportBounds
  <1> QED
    BY <1>1, <1>6 DEF Max

\* The first members of a set of ids are members, and leave none out before them.
LEMMA FirstIsInitial ==
  ASSUME NEW S \in SUBSET Ids, NEW n \in Nat
  PROVE  /\ First(S, n) \subseteq S
         /\ \A y \in First(S, n), x \in S : x <= y => x \in First(S, n)
  <1>1. First(S, n) \subseteq S
    BY DEF First
  <1>2. ASSUME NEW y \in First(S, n), NEW x \in S, x <= y
        PROVE  x \in First(S, n)
    <2> DEFINE Before(z) == {v \in S : v < z}
    <2>1. y \in S /\ Cardinality(Before(y)) < n
      BY DEF First
    <2>2. Before(x) \subseteq Before(y)
      <3>1. \A v \in S : v \in Nat
        BY TransportBounds DEF Ids
      <3> QED
        BY <1>2, <2>1, <3>1
    <2>3. IsFiniteSet(Ids)
      BY FS_Interval, TransportBounds DEF Ids
    <2>4. IsFiniteSet(Before(y)) /\ IsFiniteSet(Before(x))
      <3>1. Before(y) \subseteq Ids /\ Before(x) \subseteq Ids
        OBVIOUS
      <3> QED
        BY <2>3, <3>1, FS_Subset
    <2>5. Cardinality(Before(x)) <= Cardinality(Before(y))
      BY <2>2, <2>4, FS_Subset
    <2>6. Cardinality(Before(x)) \in Nat /\ Cardinality(Before(y)) \in Nat
      BY <2>4, FS_CardinalityType
    <2>7. Cardinality(Before(x)) < n
      BY <2>1, <2>5, <2>6
    <2> QED
      BY <2>7 DEF First
  <1> QED
    BY <1>1, <1>2

-----------------------------------------------------------------------------
(* The inductive invariant *)

\* The rows, and what relays and recovery loops keep about them.
RowsSound ==
    /\ row \in [Subscribed -> Row]
    /\ relay \in [Relays -> [Subscribed -> {"none", "claimed", "published"}]]
    /\ recovery \in [Scanners -> Recovery]
    /\ faults \in 0 .. MaxFaults

\* The stream: the group has read, and keeps pending, only ids that were handed out.
StreamSound ==
    /\ entry \in [Ids -> Events \cup {NoEvent}]
    /\ lastId \in 0 .. MaxMessages /\ stream \subseteq 1 .. lastId
    /\ group \in [exists: BOOLEAN, last: 0 .. MaxMessages]
    /\ group.last <= lastId
    /\ pel \in [Ids -> [owner: Consumers \cup {NoWorker, Departed}, idle: BOOLEAN]]
    /\ PendingIds \subseteq 1 .. lastId

\* A consumer that routes has something to route, and one that executes has a
\* delivery to execute.
SoundLoop(l) ==
    /\ l \in Loop
    /\ l.batch \subseteq 1 .. lastId
    /\ l.phase \in {"route", "execute"} => l.batch # {}
    /\ l.phase = "execute" => entry[Min(l.batch)] \in Subscribed

LoopsSound ==
    /\ DOMAIN loop = Consumers /\ loop = [w \in Consumers |-> loop[w]]
    /\ \A w \in Consumers : SoundLoop(loop[w])

TransportInv ==
    /\ RowsSound
    /\ StreamSound
    /\ LoopsSound
    /\ AcknowledgedIsFinished

-----------------------------------------------------------------------------
(* What an action leaves alone stays sound *)

LEMMA FaultCounted ==
  ASSUME RowsSound, Fault \/ UNCHANGED faults
  PROVE  faults' \in 0 .. MaxFaults
  BY TransportBounds DEF RowsSound, Fault

LEMMA RowsStay ==
  ASSUME RowsSound, UNCHANGED <<row, relay, recovery>>, Fault \/ UNCHANGED faults
  PROVE  RowsSound'
  BY FaultCounted DEF RowsSound

LEMMA StreamStays ==
  ASSUME StreamSound, UNCHANGED <<entry, stream, lastId, pel>>,
         UNCHANGED group \/ EnsureGroups
  PROVE  StreamSound' /\ group'.last = group.last /\ PendingIds' = PendingIds
  <1>1. group' \in [exists: BOOLEAN, last: 0 .. MaxMessages] /\ group'.last = group.last
    BY DEF StreamSound, EnsureGroups
  <1>2. PendingIds' = PendingIds
    BY DEF PendingIds
  <1> QED
    BY <1>1, <1>2 DEF StreamSound

LEMMA LoopsStay ==
  ASSUME LoopsSound, UNCHANGED <<entry, lastId, loop>>
  PROVE  LoopsSound'
  BY DEF LoopsSound, SoundLoop

\* One consumer moves.
LEMMA LoopMoves ==
  ASSUME LoopsSound, UNCHANGED <<entry, lastId>>,
         NEW w \in Consumers, NEW l, SoundLoop(l), loop' = [loop EXCEPT ![w] = l]
  PROVE  LoopsSound'
  <1>1. loop' = [v \in Consumers |-> IF v = w THEN l ELSE loop[v]]
    BY DEF LoopsSound
  <1>2. DOMAIN loop' = Consumers /\ loop' = [v \in Consumers |-> loop'[v]]
    BY <1>1
  <1>3. \A v \in Consumers : SoundLoop(loop'[v])
    BY <1>1 DEF LoopsSound
  <1>4. \A v \in Consumers : SoundLoop(loop[v])'
    BY <1>3 DEF SoundLoop
  <1> QED
    BY <1>2, <1>4 DEF LoopsSound

\* What was acknowledged for good stays so, while nothing pending is given up.
LEMMA AcknowledgedStays ==
  ASSUME StreamSound, AcknowledgedIsFinished,
         UNCHANGED <<entry, stream>>, group'.last = group.last,
         PendingIds \subseteq PendingIds',
         \A e \in Subscribed : row[e].status = "done" => row'[e].status = "done"
  PROVE  AcknowledgedIsFinished'
  BY DEF AcknowledgedIsFinished, Finished

\* A new entry: no one knows its id yet.
LEMMA XAddSound ==
  ASSUME StreamSound, LoopsSound, AcknowledgedIsFinished,
         NEW e \in Events, XAdd(e), UNCHANGED <<row, loop>>
  PROVE  StreamSound' /\ LoopsSound' /\ AcknowledgedIsFinished'
  <1>1. /\ lastId \in Nat /\ lastId + 1 \in Ids /\ lastId' = lastId + 1
        /\ \A i \in 1 .. lastId : i \in 1 .. lastId' /\ i # lastId + 1 /\ i \in Ids
    BY TransportBounds DEF StreamSound, XAdd, Ids
  <1>2. /\ entry' \in [Ids -> Events \cup {NoEvent}]
        /\ \A i \in 1 .. lastId : entry'[i] = entry[i]
    BY <1>1 DEF StreamSound, XAdd
  <1>3. PendingIds' = PendingIds
    BY DEF XAdd, PendingIds
  <1>4. StreamSound'
    <2>1. lastId' \in 0 .. MaxMessages
      BY <1>1 DEF Ids
    <2>2. stream' \subseteq 1 .. lastId'
      BY <1>1 DEF StreamSound, XAdd
    <2>3. group'.last <= lastId'
      BY <1>1 DEF StreamSound, XAdd
    <2>4. PendingIds' \subseteq 1 .. lastId'
      BY <1>1, <1>3 DEF StreamSound
    <2> QED
      BY <1>2, <2>1, <2>2, <2>3, <2>4 DEF StreamSound, XAdd
  <1>5. ASSUME NEW w \in Consumers
        PROVE  SoundLoop(loop[w])'
    <2>1. SoundLoop(loop[w])
      BY DEF LoopsSound
    <2>2. loop[w].batch # {} => Min(loop[w].batch) \in 1 .. lastId
      <3>1. loop[w].batch \subseteq 1 .. lastId /\ loop[w].batch \in SUBSET Nat
        BY <2>1 DEF SoundLoop
      <3> QED
        BY <3>1, MinOfNaturals
    <2> QED
      BY <1>1, <1>2, <2>1, <2>2 DEF SoundLoop
  <1>6. LoopsSound'
    BY <1>5 DEF LoopsSound
  <1>7. AcknowledgedIsFinished'
    <2> SUFFICES ASSUME NEW i \in stream', i <= group'.last, i \notin PendingIds'
                 PROVE  Finished(entry[i])'
      BY DEF AcknowledgedIsFinished
    <2>1. group'.last = group.last /\ group.last <= lastId /\ group.last \in Nat
      BY DEF XAdd, StreamSound
    <2>2. i \in stream /\ i \in 1 .. lastId
      BY <1>1, <2>1 DEF XAdd, StreamSound
    <2>3. Finished(entry[i])
      BY <1>3, <2>1, <2>2 DEF AcknowledgedIsFinished
    <2> QED
      BY <1>2, <2>2, <2>3 DEF Finished
  <1> QED
    BY <1>4, <1>6, <1>7

-----------------------------------------------------------------------------
(* Relays, the clock and recovery *)

LEMMA RelayClaimSound ==
  ASSUME TransportInv, NEW w \in Relays, RelayClaim(w)
  PROVE  TransportInv'
  <1>1. PICK batch \in SUBSET {e \in Subscribed : Claimable(e)} :
          /\ row' = [e \in Subscribed |->
                       IF e \in batch THEN [row[e] EXCEPT !.claim = w] ELSE row[e]]
          /\ relay' = [relay EXCEPT ![w] =
                         [e \in Subscribed |-> IF e \in batch THEN "claimed" ELSE "none"]]
    BY DEF RelayClaim
  <1>2. UNCHANGED <<entry, stream, lastId, group, pel, recovery, loop, faults>>
    BY DEF RelayClaim, redisStream
  <1>3. ASSUME NEW e \in Subscribed
        PROVE  row'[e] \in Row /\ row'[e].status = row[e].status
    <2>1. row[e] \in Row
      BY DEF TransportInv, RowsSound
    <2>2. PICK r : r = row'[e]
      OBVIOUS
    <2>3. r = row[e] \/ r = [row[e] EXCEPT !.claim = w]
      BY <1>1, <2>2
    <2>4. r \in Row /\ r.status = row[e].status
      BY <2>1, <2>3 DEF Row
    <2> QED
      BY <2>2, <2>4
  <1>4. RowsSound'
    <2>1. row' \in [Subscribed -> Row]
      BY <1>1, <1>3
    <2>2. relay' \in [Relays -> [Subscribed -> {"none", "claimed", "published"}]]
      BY <1>1 DEF TransportInv, RowsSound
    <2> QED
      BY <1>2, <2>1, <2>2 DEF TransportInv, RowsSound
  <1>5. StreamSound' /\ group'.last = group.last /\ PendingIds' = PendingIds
    BY <1>2, StreamStays DEF TransportInv
  <1>6. LoopsSound'
    BY <1>2, LoopsStay DEF TransportInv
  <1>7. AcknowledgedIsFinished'
    BY <1>2, <1>3, <1>5, AcknowledgedStays DEF TransportInv
  <1> QED
    BY <1>4, <1>5, <1>6, <1>7 DEF TransportInv

LEMMA RelayPublishSound ==
  ASSUME TransportInv, NEW w \in Relays, NEW e \in Subscribed, RelayPublish(w, e)
  PROVE  TransportInv'
  <1>1. XAdd(e) /\ UNCHANGED <<row, recovery, loop, faults>>
        /\ relay' = [relay EXCEPT ![w][e] = "published"]
    BY DEF RelayPublish
  <1>2. e \in Events
    BY DEF Events
  <1>3. StreamSound' /\ LoopsSound' /\ AcknowledgedIsFinished'
    BY <1>1, <1>2, XAddSound DEF TransportInv
  <1>4. RowsSound'
    BY <1>1 DEF TransportInv, RowsSound
  <1> QED
    BY <1>3, <1>4 DEF TransportInv

LEMMA RelayObserveSound ==
  ASSUME TransportInv, NEW w \in Relays, NEW e \in Subscribed, RelayObserve(w, e)
  PROVE  TransportInv'
  <1>1. UNCHANGED <<entry, stream, lastId, group, pel, loop, faults>>
    BY DEF RelayObserve, redisStream
  <1>2. row' \in [Subscribed -> Row] /\ \A d \in Subscribed : row'[d].status = row[d].status
    <2>1. row[e] \in Row
      BY DEF TransportInv, RowsSound
    <2>2. [row[e] EXCEPT !.pub = "fresh", !.claim = NoWorker] \in Row
      BY <2>1 DEF Row
    <2>3. UNCHANGED row \/ row' = [row EXCEPT ![e] =
                                     [row[e] EXCEPT !.pub = "fresh", !.claim = NoWorker]]
      BY DEF RelayObserve
    <2>4. row' \in [Subscribed -> Row]
      BY <2>2, <2>3 DEF TransportInv, RowsSound
    <2>5. [row[e] EXCEPT !.pub = "fresh", !.claim = NoWorker].status = row[e].status
      BY <2>1 DEF Row
    <2>6. \A d \in Subscribed : row'[d].status = row[d].status
      BY <2>3, <2>5 DEF TransportInv, RowsSound
    <2> QED
      BY <2>4, <2>6
  <1>3. recovery' \in [Scanners -> Recovery]
    <2>1. \A v \in Scanners : recovery[v] \in Recovery
                              /\ [recovery[v] EXCEPT !.before = @ \ {e}] \in Recovery
      BY DEF TransportInv, RowsSound, Recovery
    <2>2. UNCHANGED recovery
          \/ recovery' = [v \in Scanners |-> [recovery[v] EXCEPT !.before = @ \ {e}]]
      BY DEF RelayObserve
    <2> QED
      BY <2>1, <2>2 DEF TransportInv, RowsSound
  <1>4. relay' \in [Relays -> [Subscribed -> {"none", "claimed", "published"}]]
    BY DEF RelayObserve, TransportInv, RowsSound
  <1>5. StreamSound' /\ group'.last = group.last /\ PendingIds' = PendingIds
    BY <1>1, StreamStays DEF TransportInv
  <1>6. LoopsSound'
    BY <1>1, LoopsStay DEF TransportInv
  <1>7. AcknowledgedIsFinished'
    BY <1>1, <1>2, <1>5, AcknowledgedStays DEF TransportInv
  <1> QED
    BY <1>1, <1>2, <1>3, <1>4, <1>5, <1>6, <1>7 DEF TransportInv, RowsSound

LEMMA RelayFailSound ==
  ASSUME TransportInv, NEW w \in Relays, NEW e \in Subscribed, RelayFail(w, e)
  PROVE  TransportInv'
  <1>1. Fault /\ UNCHANGED <<row, recovery, loop>>
        /\ relay' = [relay EXCEPT ![w][e] = "none"]
        /\ (XAdd(e) \/ UNCHANGED redisStream)
    BY DEF RelayFail
  <1>2. RowsSound'
    BY <1>1, FaultCounted DEF TransportInv, RowsSound
  <1>3. CASE XAdd(e)
    <2>1. e \in Events
      BY DEF Events
    <2> QED
      BY <1>1, <1>2, <1>3, <2>1, XAddSound DEF TransportInv
  <1>4. CASE UNCHANGED redisStream
    <2>1. UNCHANGED <<entry, stream, lastId, group, pel>>
      BY <1>4 DEF redisStream
    <2>2. StreamSound' /\ group'.last = group.last /\ PendingIds' = PendingIds
      BY <2>1, StreamStays DEF TransportInv
    <2>3. LoopsSound'
      BY <1>1, <2>1, LoopsStay DEF TransportInv
    <2>4. AcknowledgedIsFinished'
      BY <1>1, <2>1, <2>2, AcknowledgedStays DEF TransportInv
    <2> QED
      BY <1>2, <2>2, <2>3, <2>4 DEF TransportInv
  <1> QED
    BY <1>1, <1>3, <1>4

\* A step on one row that keeps the type of the row and a finished delivery finished.
LEMMA RowMoves ==
  ASSUME TransportInv, NEW e \in Subscribed, NEW r \in Row,
         row[e].status = "done" => r.status = "done",
         row' = [row EXCEPT ![e] = r],
         UNCHANGED <<entry, stream, lastId, group, pel, relay, recovery, loop>>,
         Fault \/ UNCHANGED faults
  PROVE  TransportInv'
  <1>1. RowsSound'
    BY FaultCounted DEF TransportInv, RowsSound
  <1>2. StreamSound' /\ group'.last = group.last /\ PendingIds' = PendingIds
    BY StreamStays DEF TransportInv
  <1>3. LoopsSound'
    BY LoopsStay DEF TransportInv
  <1>4. \A d \in Subscribed : row[d].status = "done" => row'[d].status = "done"
    BY DEF TransportInv, RowsSound
  <1>5. AcknowledgedIsFinished'
    BY <1>2, <1>4, AcknowledgedStays DEF TransportInv
  <1> QED
    BY <1>1, <1>2, <1>3, <1>5 DEF TransportInv

LEMMA NewRowTyped == NewRow \in Row
  BY DEF NewRow, Row

LEMMA LeaseLapsesSound ==
  ASSUME TransportInv, NEW e \in Subscribed, LeaseLapses(e)
  PROVE  TransportInv'
  <1> DEFINE r == IF row[e].status = "processing" THEN NewRow
                  ELSE [row[e] EXCEPT !.claim = NoWorker]
  <1>1. row[e] \in Row
    BY DEF TransportInv, RowsSound
  <1>2. r \in Row /\ (row[e].status = "done" => r.status = "done")
    BY <1>1, NewRowTyped DEF Row
  <1>3. row' = [row EXCEPT ![e] = r]
    BY DEF LeaseLapses
  <1>4. UNCHANGED <<entry, stream, lastId, group, pel, relay, recovery, loop>>
        /\ (Fault \/ UNCHANGED faults)
    BY DEF LeaseLapses, redisStream
  <1> HIDE DEF r
  <1> QED
    BY <1>2, <1>3, <1>4, RowMoves

LEMMA PublicationStallsSound ==
  ASSUME TransportInv, NEW e \in Subscribed, PublicationStalls(e)
  PROVE  TransportInv'
  <1> DEFINE r == [row[e] EXCEPT !.pub = "stale"]
  <1>1. row[e] \in Row
    BY DEF TransportInv, RowsSound
  <1>2. r \in Row /\ (row[e].status = "done" => r.status = "done")
    BY <1>1 DEF Row
  <1>3. row' = [row EXCEPT ![e] = r]
    BY DEF PublicationStalls
  <1>4. UNCHANGED <<entry, stream, lastId, group, pel, relay, recovery, loop>>
        /\ (Fault \/ UNCHANGED faults)
    BY DEF PublicationStalls, redisStream
  <1> HIDE DEF r
  <1> QED
    BY <1>2, <1>3, <1>4, RowMoves

LEMMA BackoffElapsesSound ==
  ASSUME TransportInv, NEW e \in Subscribed, BackoffElapses(e)
  PROVE  TransportInv'
  <1> DEFINE r == [row[e] EXCEPT !.due = TRUE]
  <1>1. row[e] \in Row
    BY DEF TransportInv, RowsSound
  <1>2. r \in Row /\ (row[e].status = "done" => r.status = "done")
    BY <1>1 DEF Row
  <1>3. row' = [row EXCEPT ![e] = r]
    BY DEF BackoffElapses
  <1>4. UNCHANGED <<entry, stream, lastId, group, pel, relay, recovery, loop>>
        /\ (Fault \/ UNCHANGED faults)
    BY DEF BackoffElapses, redisStream
  <1> HIDE DEF r
  <1> QED
    BY <1>2, <1>3, <1>4, RowMoves

\* A step of a recovery loop that leaves the rows finished that are, and nothing else.
LEMMA RecoveryMoves ==
  ASSUME TransportInv, row' \in [Subscribed -> Row],
         \A e \in Subscribed : row[e].status = "done" => row'[e].status = "done",
         recovery' \in [Scanners -> Recovery],
         UNCHANGED <<entry, stream, lastId, pel, relay, loop>>,
         UNCHANGED group \/ EnsureGroups, Fault \/ UNCHANGED faults
  PROVE  TransportInv'
  <1>1. RowsSound'
    BY FaultCounted DEF TransportInv, RowsSound
  <1>2. StreamSound' /\ group'.last = group.last /\ PendingIds' = PendingIds
    BY StreamStays DEF TransportInv
  <1>3. LoopsSound'
    BY LoopsStay DEF TransportInv
  <1>4. AcknowledgedIsFinished'
    BY <1>2, AcknowledgedStays DEF TransportInv
  <1> QED
    BY <1>1, <1>2, <1>3, <1>4 DEF TransportInv

LEMMA RecoveryProbeSound ==
  ASSUME TransportInv, NEW w \in Scanners, RecoveryProbe(w)
  PROVE  TransportInv'
  <1>1. recovery' \in [Scanners -> Recovery]
    BY DEF RecoveryProbe, TransportInv, RowsSound, Recovery
  <1>2. UNCHANGED <<row, entry, stream, lastId, pel, relay, loop, faults>> /\ EnsureGroups
    BY DEF RecoveryProbe, EnsureGroups
  <1>3. row' \in [Subscribed -> Row]
    BY <1>2 DEF TransportInv, RowsSound
  <1> QED
    BY <1>1, <1>2, <1>3, RecoveryMoves

LEMMA RecoveryResetSound ==
  ASSUME TransportInv, NEW w \in Scanners, RecoveryReset(w)
  PROVE  TransportInv'
  <1>1. PICK rows :
          /\ row' = [e \in Subscribed |->
                       IF e \in rows THEN [row[e] EXCEPT !.pub = "none"] ELSE row[e]]
          /\ recovery' = [recovery EXCEPT ![w] = CutoffAfter(w, rows)]
    BY DEF RecoveryReset
  <1>2. UNCHANGED <<entry, stream, lastId, group, pel, relay, loop>>
        /\ (Fault \/ UNCHANGED faults)
    BY DEF RecoveryReset, redisStream
  <1>3. ASSUME NEW e \in Subscribed
        PROVE  row'[e] \in Row /\ row'[e].status = row[e].status
    <2>1. row[e] \in Row
      BY DEF TransportInv, RowsSound
    <2>2. PICK r : r = row'[e]
      OBVIOUS
    <2>3. r = row[e] \/ r = [row[e] EXCEPT !.pub = "none"]
      BY <1>1, <2>2
    <2>4. r \in Row /\ r.status = row[e].status
      BY <2>1, <2>3 DEF Row
    <2> QED
      BY <2>2, <2>4
  <1>4. row' \in [Subscribed -> Row]
    BY <1>1, <1>3
  <1>5. BeforeCutoff(w) \in SUBSET Subscribed
    BY DEF BeforeCutoff, TransportInv, RowsSound, Recovery
  <1>6. CutoffAfter(w, rows) \in Recovery
    BY <1>5 DEF CutoffAfter, RecoveryTop, Recovery
  <1>7. recovery' \in [Scanners -> Recovery]
    BY <1>1, <1>6 DEF TransportInv, RowsSound
  <1> QED
    BY <1>2, <1>3, <1>4, <1>7, RecoveryMoves

LEMMA RecoveryFailSound ==
  ASSUME TransportInv, NEW w \in Scanners, RecoveryFail(w)
  PROVE  TransportInv'
  <1>0. BeforeCutoff(w) \in SUBSET Subscribed
    BY DEF BeforeCutoff, TransportInv, RowsSound, Recovery
  <1>1. recovery' \in [Scanners -> Recovery]
    <2>1. PICK cutoff \in {RecoveryTop,
                          [step |-> "probe", taken |-> TRUE, before |-> BeforeCutoff(w)]} :
            recovery' = [recovery EXCEPT ![w] = cutoff]
      BY DEF RecoveryFail
    <2>2. /\ RecoveryTop \in Recovery
          /\ [step |-> "probe", taken |-> TRUE, before |-> BeforeCutoff(w)] \in Recovery
      BY <1>0 DEF RecoveryTop, Recovery
    <2>3. cutoff \in Recovery
      BY <2>1, <2>2
    <2> QED
      BY <2>1, <2>3 DEF TransportInv, RowsSound
  <1>2. UNCHANGED <<row, entry, stream, lastId, group, pel, relay, loop>> /\ Fault
    BY DEF RecoveryFail, redisStream
  <1>3. row' \in [Subscribed -> Row]
    BY <1>2 DEF TransportInv, RowsSound
  <1> QED
    BY <1>1, <1>2, <1>3, RecoveryMoves

LEMMA StopScannerSound ==
  ASSUME TransportInv, NEW w \in Scanners, StopScanner(w)
  PROVE  TransportInv'
  <1>1. recovery' \in [Scanners -> Recovery]
    BY DEF StopScanner, TransportInv, RowsSound, Recovery, RecoveryTop
  <1>2. UNCHANGED <<row, entry, stream, lastId, group, pel, relay, loop>> /\ Fault
    BY DEF StopScanner, redisStream
  <1>3. row' \in [Subscribed -> Row]
    BY <1>2 DEF TransportInv, RowsSound
  <1> QED
    BY <1>1, <1>2, <1>3, RecoveryMoves

LEMMA StopRelaySound ==
  ASSUME TransportInv, NEW w \in Relays, StopRelay(w)
  PROVE  TransportInv'
  <1>1. UNCHANGED <<row, entry, stream, lastId, group, pel, recovery, loop>> /\ Fault
    BY DEF StopRelay, redisStream
  <1>2. RowsSound'
    BY <1>1, FaultCounted DEF StopRelay, TransportInv, RowsSound
  <1>3. StreamSound' /\ group'.last = group.last /\ PendingIds' = PendingIds
    BY <1>1, StreamStays DEF TransportInv
  <1>4. LoopsSound'
    BY <1>1, LoopsStay DEF TransportInv
  <1>5. AcknowledgedIsFinished'
    BY <1>1, <1>3, AcknowledgedStays DEF TransportInv
  <1> QED
    BY <1>2, <1>3, <1>4, <1>5 DEF TransportInv

LEMMA RedisLosesStreamSound ==
  ASSUME TransportInv, RedisLosesStream
  PROVE  TransportInv'
  <1>1. UNCHANGED <<row, entry, lastId, relay, recovery, loop>> /\ Fault
        /\ stream' = {} /\ group' = [exists |-> FALSE, last |-> 0]
        /\ pel' = [id \in Ids |-> NotPending]
    BY DEF RedisLosesStream
  <1>2. RowsSound'
    BY <1>1, RowsStay DEF TransportInv
  <1>3. PendingIds' = {}
    BY <1>1 DEF PendingIds, NotPending
  <1>4. StreamSound'
    BY <1>1, <1>3, TransportBounds DEF TransportInv, StreamSound, NotPending
  <1>5. LoopsSound'
    BY <1>1, LoopsStay DEF TransportInv
  <1>6. AcknowledgedIsFinished'
    BY <1>1 DEF AcknowledgedIsFinished
  <1> QED
    BY <1>2, <1>4, <1>5, <1>6 DEF TransportInv

LEMMA EntryIdlesSound ==
  ASSUME TransportInv, NEW i \in Ids, EntryIdles(i)
  PROVE  TransportInv'
  <1>1. UNCHANGED <<row, entry, stream, lastId, group, relay, recovery, loop, faults>>
        /\ pel' = [pel EXCEPT ![i].idle = TRUE]
    BY DEF EntryIdles
  <1>2. pel' \in [Ids -> [owner: Consumers \cup {NoWorker, Departed}, idle: BOOLEAN]]
        /\ \A x \in Ids : pel'[x].owner = pel[x].owner
    BY <1>1 DEF TransportInv, StreamSound
  <1>3. PendingIds' = PendingIds
    BY <1>2 DEF PendingIds
  <1>4. RowsSound'
    BY <1>1, RowsStay DEF TransportInv
  <1>5. StreamSound'
    BY <1>1, <1>2, <1>3 DEF TransportInv, StreamSound
  <1>6. LoopsSound'
    BY <1>1, LoopsStay DEF TransportInv
  <1>7. AcknowledgedIsFinished'
    BY <1>1, <1>3, AcknowledgedStays DEF TransportInv
  <1> QED
    BY <1>4, <1>5, <1>6, <1>7 DEF TransportInv

LEMMA PublishOtherSound ==
  ASSUME TransportInv, NEW e \in Foreign \cup Strays, PublishOther(e)
  PROVE  TransportInv'
  <1>1. XAdd(e) /\ UNCHANGED <<row, relay, recovery, loop, faults>>
    BY DEF PublishOther
  <1>2. e \in Events
    BY DEF Events
  <1>3. StreamSound' /\ LoopsSound' /\ AcknowledgedIsFinished'
    BY <1>1, <1>2, XAddSound DEF TransportInv
  <1>4. RowsSound'
    BY <1>1, RowsStay DEF TransportInv
  <1> QED
    BY <1>3, <1>4 DEF TransportInv

-----------------------------------------------------------------------------
(* The loop of a consumer *)

\* A consumer moves and changes nothing else.
LEMMA ConsumerMoves ==
  ASSUME TransportInv, NEW w \in Consumers, NEW l, SoundLoop(l),
         loop' = [loop EXCEPT ![w] = l],
         UNCHANGED <<row, entry, stream, lastId, pel, relay, recovery>>,
         UNCHANGED group \/ EnsureGroups, Fault \/ UNCHANGED faults
  PROVE  TransportInv'
  <1>1. RowsSound'
    BY RowsStay DEF TransportInv
  <1>2. StreamSound' /\ group'.last = group.last /\ PendingIds' = PendingIds
    BY StreamStays DEF TransportInv
  <1>3. LoopsSound'
    BY LoopMoves DEF TransportInv
  <1>4. AcknowledgedIsFinished'
    BY <1>2, AcknowledgedStays DEF TransportInv
  <1> QED
    BY <1>1, <1>2, <1>3, <1>4 DEF TransportInv

LEMMA LoopOf ==
  ASSUME TransportInv, NEW w \in Consumers
  PROVE  SoundLoop(loop[w]) /\ loop[w] \in Loop
  BY DEF TransportInv, LoopsSound, SoundLoop

\* A step that routes nothing.
LEMMA GoesOn ==
  ASSUME NEW l \in Loop, NEW p \in {"top", "page", "read"}, SoundLoop(l)
  PROVE  SoundLoop([l EXCEPT !.phase = p])
  <1>1. [l EXCEPT !.phase = p] \in Loop
    BY DEF Loop
  <1>2. /\ [l EXCEPT !.phase = p].batch = l.batch
        /\ [l EXCEPT !.phase = p].phase = p
    BY DEF Loop
  <1> QED
    BY <1>1, <1>2 DEF SoundLoop

\* A step that routes the ids of a batch.
LEMMA RoutesBatch ==
  ASSUME NEW l \in Loop, l.phase = "route", l.batch # {}, l.batch \subseteq 1 .. lastId
  PROVE  SoundLoop(l)
  BY DEF SoundLoop

LEMMA StaysSound ==
  ASSUME NEW l, SoundLoop(l), NEW k \in Loop, k.batch = l.batch,
         k.phase \in {"top", "page", "read", "down"} \/ k.phase = l.phase
  PROVE  SoundLoop(k)
  BY DEF SoundLoop

LEMMA RevisitRetrySound ==
  ASSUME TransportInv, NEW w \in Consumers, RevisitRetry(w)
  PROVE  TransportInv'
  <1>1. PICK i \in loop[w].retries :
          loop' = [loop EXCEPT ![w] =
            IF Owned(w, i)
            THEN [@ EXCEPT !.phase = "route", !.batch = {i}, !.from = "retry"]
            ELSE [@ EXCEPT !.phase = "top", !.retries = loop[w].retries \ {i}]]
    BY Zenon DEF RevisitRetry
  <1>2. UNCHANGED <<row, entry, stream, lastId, pel, relay, recovery, faults>> /\ EnsureGroups
    BY DEF RevisitRetry, EnsureGroups
  <1>3. SoundLoop(loop[w]) /\ loop[w] \in Loop
    BY LoopOf
  <1>4. i \in Ids
    BY <1>3 DEF Loop
  <1>5. CASE Owned(w, i)
    <2> DEFINE l == [loop[w] EXCEPT !.phase = "route", !.batch = {i}, !.from = "retry"]
    <2>1. i \in 1 .. lastId
      BY <1>5 DEF Owned, TransportInv, StreamSound
    <2>2. l \in Loop /\ l.phase = "route" /\ l.batch = {i}
      BY <1>3, <1>4 DEF Loop
    <2>3. loop' = [loop EXCEPT ![w] = l]
      BY <1>1, <1>5
    <2> HIDE DEF l
    <2>4. SoundLoop(l)
      BY <2>1, <2>2, RoutesBatch
    <2> QED
      BY <1>2, <2>3, <2>4, ConsumerMoves
  <1>6. CASE ~Owned(w, i)
    <2> DEFINE l == [loop[w] EXCEPT !.phase = "top", !.retries = loop[w].retries \ {i}]
    <2>1. l \in Loop /\ l.phase = "top" /\ l.batch = loop[w].batch
      BY <1>3 DEF Loop
    <2>2. loop' = [loop EXCEPT ![w] = l]
      BY <1>1, <1>6
    <2> HIDE DEF l
    <2>3. SoundLoop(l)
      BY <1>3, <2>1, StaysSound
    <2> QED
      BY <1>2, <2>2, <2>3, ConsumerMoves
  <1> QED
    BY <1>5, <1>6

LEMMA RevisitBusySound ==
  ASSUME TransportInv, NEW w \in Consumers, RevisitBusy(w)
  PROVE  TransportInv'
  <1> DEFINE ready == {i \in Ids : loop[w].busy[i].ready}
             routed(i) == [loop[w] EXCEPT !.phase = "route", !.batch = {i}, !.from = "busy",
                                          !.count = loop[w].busy[i].count, !.busy[i] = NotBusy]
             dropped(i) == [loop[w] EXCEPT !.phase = "page", !.busy[i] = NotBusy]
             failed(i) == [loop[w] EXCEPT !.retries = @ \cup {i}, !.busy[i] = NotBusy]
  <1>1. UNCHANGED <<row, entry, stream, lastId, pel, relay, recovery>> /\ EnsureGroups
        /\ (Fault \/ UNCHANGED faults)
    BY DEF RevisitBusy, EnsureGroups
  <1>2. SoundLoop(loop[w]) /\ loop[w] \in Loop /\ loop[w].phase = "top"
    BY LoopOf DEF RevisitBusy
  <1>3. ASSUME NEW i \in ready
        PROVE  /\ routed(i) \in Loop /\ routed(i).phase = "route" /\ routed(i).batch = {i}
               /\ dropped(i) \in Loop /\ dropped(i).phase = "page"
               /\ dropped(i).batch = loop[w].batch
               /\ failed(i) \in Loop /\ failed(i).phase = "top"
               /\ failed(i).batch = loop[w].batch
    <2>1. /\ i \in Ids /\ loop[w].busy[i].count \in 0 .. BusyLimit
          /\ [loop[w].busy EXCEPT ![i] = NotBusy]
                \in [Ids -> [count: 0 .. BusyLimit, ready: BOOLEAN]]
      BY <1>2, BatchAssumption DEF Loop, NotBusy
    <2>2. routed(i) \in Loop /\ routed(i).phase = "route" /\ routed(i).batch = {i}
      BY <1>2, <2>1 DEF Loop
    <2>3. dropped(i) \in Loop /\ dropped(i).phase = "page" /\ dropped(i).batch = loop[w].batch
      BY <1>2, <2>1 DEF Loop
    <2>4. failed(i) \in Loop /\ failed(i).phase = "top" /\ failed(i).batch = loop[w].batch
      BY <1>2, <2>1 DEF Loop
    <2> QED
      BY <2>2, <2>3, <2>4
  <1>4. CASE GoTo(w, "page")
    <2>1. loop' = [loop EXCEPT ![w] = [loop[w] EXCEPT !.phase = "page"]]
      BY <1>4 DEF GoTo
    <2>2. SoundLoop([loop[w] EXCEPT !.phase = "page"])
      BY <1>2, GoesOn
    <2> QED
      BY <1>1, <2>1, <2>2, ConsumerMoves
  <1>5. ASSUME NEW i \in ready,
               loop' = [loop EXCEPT ![w] =
                 IF Owned(w, i)
                 THEN [@ EXCEPT !.phase = "route", !.batch = {i}, !.from = "busy",
                                !.count = loop[w].busy[i].count, !.busy[i] = NotBusy]
                 ELSE [@ EXCEPT !.phase = "page", !.busy[i] = NotBusy]]
        PROVE  TransportInv'
    <2>1. CASE Owned(w, i)
      <3>1. i \in 1 .. lastId
        BY <2>1 DEF Owned, TransportInv, StreamSound
      <3>2. loop' = [loop EXCEPT ![w] = routed(i)]
        BY <1>5, <2>1
      <3>3. routed(i) \in Loop /\ routed(i).phase = "route" /\ routed(i).batch = {i}
        BY <1>3
      <3> HIDE DEF routed
      <3>4. SoundLoop(routed(i))
        BY <3>1, <3>3, RoutesBatch
      <3> QED
        BY <1>1, <3>2, <3>4, ConsumerMoves
    <2>2. CASE ~Owned(w, i)
      <3>1. loop' = [loop EXCEPT ![w] = dropped(i)]
        BY <1>5, <2>2
      <3>2. dropped(i) \in Loop /\ dropped(i).phase = "page"
            /\ dropped(i).batch = loop[w].batch
        BY <1>3
      <3> HIDE DEF dropped
      <3>3. SoundLoop(dropped(i))
        BY <1>2, <3>2, StaysSound
      <3> QED
        BY <1>1, <3>1, <3>3, ConsumerMoves
    <2> QED
      BY <2>1, <2>2
  <1>6. ASSUME NEW i \in ready,
               loop' = [loop EXCEPT ![w].retries = @ \cup {i}, ![w].busy[i] = NotBusy]
        PROVE  TransportInv'
    <2>1. loop' = [loop EXCEPT ![w] = failed(i)]
      BY <1>6 DEF TransportInv, LoopsSound
    <2>2. failed(i) \in Loop /\ failed(i).phase = "top" /\ failed(i).batch = loop[w].batch
      BY <1>3
    <2> HIDE DEF failed
    <2>3. SoundLoop(failed(i))
      BY <1>2, <2>2, StaysSound
    <2> QED
      BY <1>1, <2>1, <2>3, ConsumerMoves
  <1> QED
    BY <1>4, <1>5, <1>6 DEF RevisitBusy

LEMMA BusyReadySound ==
  ASSUME TransportInv, NEW w \in Consumers, NEW i \in Ids, BusyReady(w, i)
  PROVE  TransportInv'
  <1> DEFINE l == [loop[w] EXCEPT !.busy[i].ready = TRUE]
  <1>1. UNCHANGED <<row, entry, stream, lastId, group, pel, relay, recovery, faults>>
    BY DEF BusyReady, redisStream
  <1>2. SoundLoop(loop[w]) /\ loop[w] \in Loop
    BY LoopOf
  <1>3. [loop[w].busy EXCEPT ![i].ready = TRUE]
           \in [Ids -> [count: 0 .. BusyLimit, ready: BOOLEAN]]
    BY <1>2 DEF Loop
  <1>4. l \in Loop /\ l.batch = loop[w].batch /\ l.phase = loop[w].phase
    BY <1>2, <1>3 DEF Loop
  <1>5. loop' = [loop EXCEPT ![w] = l]
    BY DEF BusyReady
  <1> HIDE DEF l
  <1>6. SoundLoop(l)
    BY <1>2, <1>4, StaysSound
  <1> QED
    BY <1>1, <1>5, <1>6, ConsumerMoves

\* Entries change hands: what was pending stays so.
LEMMA OwnersChange ==
  ASSUME TransportInv, NEW w \in Consumers, NEW l, SoundLoop(l),
         loop' = [loop EXCEPT ![w] = l],
         NEW S \in SUBSET Ids, NEW o \in Consumers \cup {Departed},
         NEW idle \in [Ids -> BOOLEAN],
         S \subseteq PendingIds,
         pel' = [x \in Ids |-> IF x \in S THEN [owner |-> o, idle |-> idle[x]] ELSE pel[x]],
         UNCHANGED <<row, entry, stream, lastId, group, relay, recovery>>,
         Fault \/ UNCHANGED faults
  PROVE  TransportInv'
  <1>1. o # NoWorker
    BY NoWorkerDistinct DEF Departed
  <1>2. pel' \in [Ids -> [owner: Consumers \cup {NoWorker, Departed}, idle: BOOLEAN]]
    BY DEF TransportInv, StreamSound
  <1>3. PendingIds' = PendingIds
    <2>1. \A x \in Ids : pel'[x].owner # NoWorker <=> pel[x].owner # NoWorker
      BY <1>1 DEF PendingIds
    <2> QED
      BY <2>1 DEF PendingIds
  <1>4. RowsSound'
    BY RowsStay DEF TransportInv
  <1>5. StreamSound'
    BY <1>2, <1>3 DEF TransportInv, StreamSound
  <1>6. LoopsSound'
    BY LoopMoves DEF TransportInv
  <1>7. AcknowledgedIsFinished'
    BY <1>3, AcknowledgedStays DEF TransportInv
  <1> QED
    BY <1>4, <1>5, <1>6, <1>7 DEF TransportInv

LEMMA PendingPageSound ==
  ASSUME TransportInv, NEW w \in Consumers, PendingPage(w)
  PROVE  TransportInv'
  <1> DEFINE after == {x \in PendingIds : x > loop[w].cursor}
             page == First(after, BatchSize)
             claimed == ClaimPending(w, page)
             routed == {x \in claimed : loop[w].busy[x].count = 0}
             l == [loop[w] EXCEPT !.cursor = IF page = {} THEN 0 ELSE Max(page),
                                  !.batch = routed,
                                  !.from = IF routed = {} THEN "new" ELSE "claimed",
                                  !.phase = IF routed = {} THEN "read" ELSE "route"]
  <1>1. UNCHANGED <<row, entry, stream, lastId, group, relay, recovery, faults>>
    BY DEF PendingPage
  <1>2. pel' = [x \in Ids |->
                  IF x \in claimed THEN [owner |-> w, idle |-> FALSE] ELSE pel[x]]
    BY DEF PendingPage
  <1>3. loop' = [loop EXCEPT ![w] = l]
    BY DEF PendingPage
  <1>4. SoundLoop(loop[w]) /\ loop[w] \in Loop
    BY LoopOf
  <1>5. after \subseteq Ids /\ after \subseteq PendingIds
    BY DEF PendingIds
  <1>6. page \subseteq after
    BY <1>5, FirstIsInitial, BatchAssumption
  <1>7. claimed \subseteq page /\ routed \subseteq claimed
    BY DEF ClaimPending
  <1>8. page # {} => Max(page) \in 0 .. MaxMessages
    <2>1. page \in SUBSET Ids
      BY <1>5, <1>6
    <2>2. page # {} => Max(page) \in Ids
      BY <2>1, MaxOfIds
    <2> QED
      BY <2>2, TransportBounds DEF Ids
  <1>9. routed \subseteq Ids /\ routed \subseteq 1 .. lastId
    BY <1>5, <1>6, <1>7 DEF TransportInv, StreamSound
  <1>10. (IF page = {} THEN 0 ELSE Max(page)) \in 0 .. MaxMessages
    <2>1. 0 \in 0 .. MaxMessages
      BY TransportBounds
    <2> HIDE DEF page
    <2> QED
      BY <1>8, <2>1
  <1>11. l \in Loop /\ l.batch = routed
         /\ l.phase = IF routed = {} THEN "read" ELSE "route"
    <2> HIDE DEF page, routed
    <2> QED
      BY <1>4, <1>9, <1>10 DEF Loop
  <1> HIDE DEF l
  <1>12. SoundLoop(l)
    BY <1>9, <1>11 DEF SoundLoop
  <1>13. claimed \in SUBSET Ids /\ claimed \subseteq PendingIds
    BY <1>5, <1>6, <1>7
  <1> HIDE DEF claimed
  <1> DEFINE idle == [x \in Ids |-> FALSE]
  <1>14. pel' = [x \in Ids |->
                  IF x \in claimed THEN [owner |-> w, idle |-> idle[x]] ELSE pel[x]]
    BY <1>2
  <1>15. idle \in [Ids -> BOOLEAN]
    OBVIOUS
  <1> HIDE DEF idle
  <1> QED
    BY <1>1, <1>3, <1>12, <1>13, <1>14, <1>15, OwnersChange

LEMMA StopConsumerSound ==
  ASSUME TransportInv, NEW w \in Consumers, StopConsumer(w)
  PROVE  TransportInv'
  <1> DEFINE S == {x \in Ids : pel[x].owner = w}
             l == [LoopTop EXCEPT !.phase = "down"]
             idle == [x \in Ids |-> pel[x].idle]
  <1>1. UNCHANGED <<row, entry, stream, lastId, group, relay, recovery>> /\ Fault
        /\ loop' = [loop EXCEPT ![w] = l]
    BY DEF StopConsumer
  <1>2. \A x \in Ids : pel[x] \in [owner: Consumers \cup {NoWorker, Departed}, idle: BOOLEAN]
    BY DEF TransportInv, StreamSound
  <1>3. \A x \in Ids : [pel[x] EXCEPT !.owner = Departed]
                          = [owner |-> Departed, idle |-> pel[x].idle]
    BY <1>2
  <1>4. pel' = [x \in Ids |->
                  IF x \in S THEN [owner |-> Departed, idle |-> idle[x]] ELSE pel[x]]
    BY <1>3 DEF StopConsumer
  <1>5. l \in Loop /\ l.batch = {} /\ l.phase = "down"
    <2>1. LoopTop \in Loop /\ LoopTop.batch = {}
      BY TransportBounds, BatchAssumption DEF LoopTop, Loop, NotBusy
    <2> QED
      BY <2>1 DEF Loop
  <1>6. S \subseteq Ids /\ S \subseteq PendingIds
    BY NoWorkerDistinct DEF PendingIds
  <1>7. idle \in [Ids -> BOOLEAN]
    BY <1>2
  <1>8. SoundLoop(l)
    BY <1>5 DEF SoundLoop
  <1> HIDE DEF l, S, idle
  <1> QED
    BY <1>1, <1>4, <1>6, <1>7, <1>8, OwnersChange

LEMMA StartConsumerSound ==
  ASSUME TransportInv, NEW w \in Consumers, StartConsumer(w)
  PROVE  TransportInv'
  <1>1. LoopTop \in Loop /\ LoopTop.batch = {} /\ LoopTop.phase = "top"
    BY TransportBounds, BatchAssumption DEF LoopTop, Loop, NotBusy
  <1>2. SoundLoop(LoopTop)
    BY <1>1 DEF SoundLoop
  <1>3. UNCHANGED <<row, entry, stream, lastId, group, pel, relay, recovery, faults>>
        /\ loop' = [loop EXCEPT ![w] = LoopTop]
    BY DEF StartConsumer, redisStream
  <1> QED
    BY <1>2, <1>3, ConsumerMoves

LEMMA ConsumerFailSound ==
  ASSUME TransportInv, NEW w \in Consumers, ConsumerFail(w)
  PROVE  TransportInv'
  <1>1. UNCHANGED <<row, entry, stream, lastId, group, pel, relay, recovery>>
        /\ (Fault \/ UNCHANGED faults)
    BY DEF ConsumerFail, redisStream
  <1>2. loop' = [loop EXCEPT ![w] = [loop[w] EXCEPT !.phase = "top"]]
    BY DEF ConsumerFail
  <1>3. SoundLoop([loop[w] EXCEPT !.phase = "top"])
    BY LoopOf, GoesOn
  <1> QED
    BY <1>1, <1>2, <1>3, ConsumerMoves

\* read_new gives the group every entry up to its last one, and makes them pending.
LEMMA ReadNewSound ==
  ASSUME TransportInv, NEW w \in Consumers, ReadNew(w)
  PROVE  TransportInv'
  <1> DEFINE ids == First(Unread, BatchSize)
             l == [loop[w] EXCEPT !.batch = ids,
                                  !.phase = IF ids = {} THEN "top" ELSE "route"]
             k == [loop[w] EXCEPT !.phase = "top"]
  <1>1. UNCHANGED <<row, entry, stream, lastId, relay, recovery>>
        /\ (Fault \/ UNCHANGED faults)
    BY DEF ReadNew
  <1>2. /\ group' = IF ids = {} THEN group ELSE [group EXCEPT !.last = Max(ids)]
        /\ pel' = [x \in Ids |->
                     IF x \in ids THEN [owner |-> w, idle |-> FALSE] ELSE pel[x]]
    BY DEF ReadNew
  <1>3. loop' = [loop EXCEPT ![w] = l] \/ loop' = [loop EXCEPT ![w] = k]
    BY DEF ReadNew, GoTo
  <1>4. SoundLoop(loop[w]) /\ loop[w] \in Loop
    BY LoopOf
  <1>5. /\ stream \subseteq 1 .. lastId /\ lastId \in Nat /\ lastId <= MaxMessages
        /\ group.last \in Nat /\ group.last <= lastId
        /\ \A x \in 1 .. lastId : x \in Ids /\ x \in Nat
    BY TransportBounds DEF TransportInv, StreamSound, Ids
  <1>6. Unread \subseteq stream /\ Unread \subseteq Ids
    BY <1>5 DEF Unread
  <1>7. /\ ids \subseteq Unread
        /\ \A y \in ids, x \in Unread : x <= y => x \in ids
    BY <1>6, FirstIsInitial, BatchAssumption
  <1>8. ids \subseteq Ids /\ ids \subseteq 1 .. lastId
    BY <1>5, <1>6, <1>7
  <1>9. ids # {} => Max(ids) \in ids /\ \A m \in ids : m <= Max(ids)
    BY <1>8, MaxOfIds
  <1> HIDE DEF ids
  <1>10. /\ group' \in [exists: BOOLEAN, last: 0 .. MaxMessages]
         /\ group'.last <= lastId
         /\ group'.last = IF ids = {} THEN group.last ELSE Max(ids)
    <2>1. CASE ids = {}
      BY <1>2, <1>5, <2>1 DEF TransportInv, StreamSound
    <2>2. CASE ids # {}
      <3>1. Max(ids) \in 1 .. lastId
        BY <1>8, <1>9, <2>2
      <3>2. Max(ids) \in 0 .. MaxMessages /\ Max(ids) <= lastId
        BY <1>5, <3>1, TransportBounds
      <3>3. group' = [group EXCEPT !.last = Max(ids)]
        BY <1>2, <2>2
      <3> QED
        BY <2>2, <3>2, <3>3 DEF TransportInv, StreamSound
    <2> QED
      BY <2>1, <2>2
  <1>11. pel' \in [Ids -> [owner: Consumers \cup {NoWorker, Departed}, idle: BOOLEAN]]
    BY <1>2 DEF TransportInv, StreamSound
  <1>12. PendingIds' = PendingIds \cup ids
    <2>1. w # NoWorker
      BY NoWorkerDistinct
    <2>2. \A x \in Ids : pel'[x].owner # NoWorker <=> pel[x].owner # NoWorker \/ x \in ids
      BY <1>2, <2>1
    <2> QED
      BY <1>8, <2>2 DEF PendingIds
  <1>13. StreamSound'
    BY <1>1, <1>8, <1>10, <1>11, <1>12 DEF TransportInv, StreamSound
  <1>14. l \in Loop /\ l.batch = ids /\ l.phase = IF ids = {} THEN "top" ELSE "route"
    BY <1>4, <1>8 DEF Loop
  <1>15. k \in Loop /\ k.batch = loop[w].batch /\ k.phase = "top"
    BY <1>4 DEF Loop
  <1> HIDE DEF l, k
  <1>16. SoundLoop(l) /\ SoundLoop(k)
    <2>1. SoundLoop(l)
      BY <1>8, <1>14 DEF SoundLoop
    <2>2. SoundLoop(k)
      BY <1>4, <1>15, StaysSound
    <2> QED
      BY <2>1, <2>2
  <1>17. LoopsSound'
    BY <1>1, <1>3, <1>16, LoopMoves DEF TransportInv
  <1>18. AcknowledgedIsFinished'
    <2> SUFFICES ASSUME NEW x \in stream', x <= group'.last, x \notin PendingIds'
                 PROVE  Finished(entry[x])'
      BY DEF AcknowledgedIsFinished
    <2>1. x \in stream /\ x \in Nat /\ x \notin PendingIds /\ x \notin ids
      BY <1>1, <1>5, <1>12
    <2>2. x <= group.last
      <3>1. SUFFICES ASSUME x > group.last PROVE FALSE
        BY <1>5, <2>1
      <3>2. x \in Unread
        BY <2>1, <3>1 DEF Unread
      <3>3. ids # {} /\ x <= Max(ids)
        BY <1>5, <1>10, <2>1, <3>1
      <3> QED
        BY <1>7, <1>9, <2>1, <3>2, <3>3
    <2>3. Finished(entry[x])
      BY <2>1, <2>2 DEF TransportInv, AcknowledgedIsFinished
    <2> QED
      BY <1>1, <2>3 DEF Finished
  <1>19. RowsSound'
    BY <1>1, RowsStay DEF TransportInv
  <1> QED
    BY <1>13, <1>17, <1>18, <1>19 DEF TransportInv

-----------------------------------------------------------------------------
(* Routing *)

LEMMA RoutedSound ==
  ASSUME NEW l \in Loop, l.batch \subseteq 1 .. lastId, NEW i \in Ids, NEW failed \in BOOLEAN
  PROVE  SoundLoop(Routed(l, i, failed))
  <1> DEFINE rest == l.batch \ {i}
             retries == IF failed THEN l.retries \cup {i}
                        ELSE IF l.from = "retry" THEN l.retries \ {i} ELSE l.retries
             from == IF rest = {} THEN "new" ELSE l.from
             phase == IF rest = {} THEN AfterBatch(l.from, retries) ELSE "route"
  <1>1. /\ l.batch \subseteq Ids /\ l.retries \subseteq Ids
        /\ l.from \in {"retry", "busy", "claimed", "new"}
    BY DEF Loop
  <1>2. rest \subseteq Ids /\ retries \subseteq Ids /\ rest \subseteq 1 .. lastId
    BY <1>1
  <1>3. from \in {"retry", "busy", "claimed", "new"}
    BY <1>1
  <1>4. AfterBatch(l.from, retries) \in {"top", "page", "read"}
    <2> HIDE DEF retries
    <2> QED
      BY <1>1 DEF AfterBatch
  <1>5. phase \in {"top", "page", "read", "route"} /\ (phase = "route" => rest # {})
    BY <1>4
  <1>6. Routed(l, i, failed)
          = [l EXCEPT !.batch = rest, !.retries = retries, !.count = 0,
                      !.from = from, !.phase = phase]
    BY DEF Routed
  <1>7. 0 \in 0 .. BusyLimit
    BY BatchAssumption
  <1> HIDE DEF rest, retries, from, phase
  <1>8. Routed(l, i, failed) \in Loop
    BY <1>2, <1>3, <1>5, <1>6, <1>7 DEF Loop
  <1>9. Routed(l, i, failed).batch = rest /\ Routed(l, i, failed).phase = phase
    BY <1>6 DEF Loop
  <1> QED
    BY <1>2, <1>5, <1>8, <1>9 DEF SoundLoop

LEMMA WithBusyTyped ==
  ASSUME NEW l \in Loop, NEW i \in Ids
  PROVE  WithBusy(l, i) \in Loop /\ WithBusy(l, i).batch = l.batch
  <1>1. CASE WithBusy(l, i) = l
    BY <1>1
  <1>2. CASE /\ l.count + 1 <= BusyLimit
             /\ WithBusy(l, i) = [l EXCEPT !.busy[i] = [count |-> l.count + 1, ready |-> FALSE]]
    <2>1. l.count + 1 \in 0 .. BusyLimit
      BY <1>2, BatchAssumption DEF Loop
    <2>2. [l.busy EXCEPT ![i] = [count |-> l.count + 1, ready |-> FALSE]]
             \in [Ids -> [count: 0 .. BusyLimit, ready: BOOLEAN]]
      BY <2>1 DEF Loop
    <2> QED
      BY <1>2, <2>2 DEF Loop
  <1> QED
    BY <1>1, <1>2 DEF WithBusy

\* The reference a consumer routes next is one it has read.
LEMMA RoutesRead ==
  ASSUME TransportInv, NEW w \in Consumers, loop[w].phase \in {"route", "execute"}
  PROVE  /\ Min(loop[w].batch) \in loop[w].batch
         /\ Min(loop[w].batch) \in Ids /\ Min(loop[w].batch) \in 1 .. lastId
         /\ loop[w].batch \subseteq 1 .. lastId /\ loop[w] \in Loop
  <1>1. SoundLoop(loop[w]) /\ loop[w] \in Loop
    BY LoopOf
  <1>2. loop[w].batch # {} /\ loop[w].batch \subseteq 1 .. lastId
    BY <1>1 DEF SoundLoop
  <1>3. loop[w].batch \in SUBSET Ids
    BY <1>1 DEF Loop
  <1>4. loop[w].batch \in SUBSET Nat
    BY <1>3, TransportBounds DEF Ids
  <1>5. Min(loop[w].batch) \in loop[w].batch
    BY <1>2, <1>4, MinOfNaturals
  <1> QED
    BY <1>1, <1>2, <1>3, <1>5

\* A reference is routed, and its row moves; it is acknowledged only when finished.
LEMMA RoutingMoves ==
  ASSUME TransportInv, NEW w \in Consumers, NEW l, SoundLoop(l),
         loop' = [loop EXCEPT ![w] = l],
         row' \in [Subscribed -> Row],
         \A d \in Subscribed : row[d].status = "done" => row'[d].status = "done",
         NEW i \in Ids, UNCHANGED pel \/ (Acknowledged(i) /\ Finished(entry[i])'),
         UNCHANGED <<entry, stream, lastId, group, relay, recovery>>,
         Fault \/ UNCHANGED faults
  PROVE  TransportInv'
  <1>1. RowsSound'
    BY FaultCounted DEF TransportInv, RowsSound
  <1>2. LoopsSound'
    BY LoopMoves DEF TransportInv
  <1>3. CASE UNCHANGED pel
    <2>1. StreamSound' /\ group'.last = group.last /\ PendingIds' = PendingIds
      BY <1>3, StreamStays DEF TransportInv
    <2>2. AcknowledgedIsFinished'
      BY <2>1, AcknowledgedStays DEF TransportInv
    <2> QED
      BY <1>1, <1>2, <2>1, <2>2 DEF TransportInv
  <1>4. CASE Acknowledged(i) /\ Finished(entry[i])'
    <2>1. pel' \in [Ids -> [owner: Consumers \cup {NoWorker, Departed}, idle: BOOLEAN]]
      BY <1>4 DEF Acknowledged, NotPending, TransportInv, StreamSound
    <2>2. PendingIds' = PendingIds \ {i}
      <3>1. \A x \in Ids : pel'[x].owner # NoWorker <=> pel[x].owner # NoWorker /\ x # i
        BY <1>4 DEF Acknowledged, NotPending, TransportInv, StreamSound
      <3> QED
        BY <3>1 DEF PendingIds
    <2>3. StreamSound'
      BY <2>1, <2>2 DEF TransportInv, StreamSound
    <2>4. AcknowledgedIsFinished'
      <3> SUFFICES ASSUME NEW x \in stream', x <= group'.last, x \notin PendingIds'
                   PROVE  Finished(entry[x])'
        BY DEF AcknowledgedIsFinished
      <3>1. CASE x = i
        BY <1>4, <3>1
      <3>2. CASE x # i
        <4>1. Finished(entry[x])
          BY <2>2, <3>2 DEF TransportInv, AcknowledgedIsFinished
        <4> QED
          BY <4>1 DEF Finished
      <3> QED
        BY <3>1, <3>2
    <2> QED
      BY <1>1, <1>2, <2>3, <2>4 DEF TransportInv
  <1> QED
    BY <1>3, <1>4

LEMMA RouteFinishedSound ==
  ASSUME TransportInv, NEW w \in Consumers, RouteFinished(w)
  PROVE  TransportInv'
  <1>0. PICK i \in Ids : i = Min(loop[w].batch)
    BY RoutesRead DEF RouteFinished
  <1>1. /\ loop[w].phase = "route" /\ Finished(entry[i])
        /\ UNCHANGED <<row, entry, stream, lastId, group, relay, recovery>>
        /\ (Fault \/ UNCHANGED faults)
        /\ (UNCHANGED pel \/ Acknowledged(i))
    BY <1>0 DEF RouteFinished
  <1>2. PICK failed \in BOOLEAN : loop' = [loop EXCEPT ![w] = Routed(loop[w], i, failed)]
    BY <1>0 DEF RouteFinished
  <1>3. i \in Ids /\ loop[w] \in Loop /\ loop[w].batch \subseteq 1 .. lastId
    BY <1>1, RoutesRead
  <1>4. SoundLoop(Routed(loop[w], i, failed))
    BY <1>3, RoutedSound
  <1>5. Finished(entry[i])'
    BY <1>1 DEF Finished
  <1>6. row' \in [Subscribed -> Row]
    BY <1>1 DEF TransportInv, RowsSound
  <1> QED
    BY <1>1, <1>2, <1>3, <1>4, <1>5, <1>6, RoutingMoves

LEMMA RouteLeftSound ==
  ASSUME TransportInv, NEW w \in Consumers, RouteLeft(w)
  PROVE  TransportInv'
  <1> DEFINE i == Min(loop[w].batch)
  <1>1. /\ loop[w].phase = "route"
        /\ UNCHANGED <<row, entry, stream, lastId, group, pel, relay, recovery, faults>>
        /\ loop' = [loop EXCEPT ![w] = Routed(loop[w], i, FALSE)]
    BY DEF RouteLeft, redisStream
  <1>2. i \in Ids /\ loop[w] \in Loop /\ loop[w].batch \subseteq 1 .. lastId
    BY <1>1, RoutesRead
  <1> HIDE DEF i
  <1>3. SoundLoop(Routed(loop[w], i, FALSE))
    BY <1>2, RoutedSound
  <1> QED
    BY <1>1, <1>3, ConsumerMoves

LEMMA RouteBusySound ==
  ASSUME TransportInv, NEW w \in Consumers, RouteBusy(w)
  PROVE  TransportInv'
  <1> DEFINE i == Min(loop[w].batch)
             b == WithBusy(loop[w], i)
  <1>1. /\ loop[w].phase = "route"
        /\ UNCHANGED <<row, entry, stream, lastId, group, pel, relay, recovery>>
        /\ (Fault \/ UNCHANGED faults)
        /\ loop' = [loop EXCEPT ![w] = Routed(b, i, FALSE)]
    BY DEF RouteBusy, redisStream
  <1>2. i \in Ids /\ loop[w] \in Loop /\ loop[w].batch \subseteq 1 .. lastId
    BY <1>1, RoutesRead
  <1> HIDE DEF i
  <1>3. b \in Loop /\ b.batch \subseteq 1 .. lastId
    BY <1>2, WithBusyTyped
  <1> HIDE DEF b
  <1>4. SoundLoop(Routed(b, i, FALSE))
    BY <1>2, <1>3, RoutedSound
  <1> QED
    BY <1>1, <1>4, ConsumerMoves

LEMMA RouteFailSound ==
  ASSUME TransportInv, NEW w \in Consumers, RouteFail(w)
  PROVE  TransportInv'
  <1> DEFINE i == Min(loop[w].batch)
             k == [loop[w] EXCEPT !.phase = "top", !.batch = {}, !.from = "new", !.count = 0]
  <1>1. /\ loop[w].phase = "route" /\ Fault
        /\ UNCHANGED <<row, entry, stream, lastId, group, pel, relay, recovery>>
    BY DEF RouteFail, redisStream
  <1>2. i \in Ids /\ loop[w] \in Loop /\ loop[w].batch \subseteq 1 .. lastId
    BY <1>1, RoutesRead
  <1>3. \/ loop' = [loop EXCEPT ![w] = Routed(loop[w], i, TRUE)]
        \/ loop' = [loop EXCEPT ![w].phase = "top", ![w].batch = {}, ![w].from = "new",
                                ![w].count = 0]
    BY DEF RouteFail
  <1>4. CASE loop' = [loop EXCEPT ![w] = Routed(loop[w], i, TRUE)]
    <2> HIDE DEF i
    <2>1. SoundLoop(Routed(loop[w], i, TRUE))
      BY <1>2, RoutedSound
    <2> QED
      BY <1>1, <1>4, <2>1, ConsumerMoves
  <1>5. CASE loop' = [loop EXCEPT ![w].phase = "top", ![w].batch = {}, ![w].from = "new",
                                  ![w].count = 0]
    <2>1. loop' = [loop EXCEPT ![w] = k]
      BY <1>5 DEF TransportInv, LoopsSound
    <2>2. k \in Loop /\ k.batch = {} /\ k.phase = "top"
      <3>1. 0 \in 0 .. BusyLimit
        BY BatchAssumption
      <3> QED
        BY <1>2, <3>1 DEF Loop
    <2> HIDE DEF k
    <2>3. SoundLoop(k)
      BY <2>2 DEF SoundLoop
    <2> QED
      BY <1>1, <2>1, <2>3, ConsumerMoves
  <1> QED
    BY <1>3, <1>4, <1>5

LEMMA RouteStartSound ==
  ASSUME TransportInv, NEW w \in Consumers, RouteStart(w)
  PROVE  TransportInv'
  <1> DEFINE i == Min(loop[w].batch)
             k == [loop[w] EXCEPT !.phase = "execute"]
  <1>1. /\ loop[w].phase = "route" /\ entry[i] \in Subscribed
        /\ UNCHANGED <<entry, stream, lastId, group, pel, relay, recovery, faults>>
        /\ loop' = [loop EXCEPT ![w] = k]
    BY DEF RouteStart, redisStream, GoTo
  <1>2. PICK e \in Subscribed :
          /\ row[e].status = "pending"
          /\ row' = [row EXCEPT ![e].status = "processing", ![e].claim = w]
    BY DEF RouteStart
  <1>3. i \in Ids /\ loop[w] \in Loop /\ loop[w].batch \subseteq 1 .. lastId
        /\ loop[w].batch # {}
    BY <1>1, RoutesRead
  <1>4. k \in Loop /\ k.batch = loop[w].batch /\ k.phase = "execute"
    BY <1>3 DEF Loop
  <1> HIDE DEF k
  <1>5. SoundLoop(k)
    BY <1>1, <1>3, <1>4 DEF SoundLoop
  <1>6. row' = [row EXCEPT ![e] = [row[e] EXCEPT !.status = "processing", !.claim = w]]
    BY <1>2 DEF TransportInv, RowsSound
  <1>7. [row[e] EXCEPT !.status = "processing", !.claim = w] \in Row
    <2>1. row[e] \in Row
      BY DEF TransportInv, RowsSound
    <2> QED
      BY <2>1 DEF Row
  <1>8. row' \in [Subscribed -> Row]
    BY <1>6, <1>7 DEF TransportInv, RowsSound
  <1>9. \A d \in Subscribed : row[d].status = "done" => row'[d].status = "done"
    BY <1>2, <1>6 DEF TransportInv, RowsSound
  <1> HIDE DEF i
  <1> QED
    BY <1>1, <1>3, <1>5, <1>8, <1>9, RoutingMoves

\* The row of a delivery after its attempt: finished ones stay finished.
LEMMA RouteExecutedSound ==
  ASSUME TransportInv, NEW w \in Consumers, RouteExecuted(w)
  PROVE  TransportInv'
  <1>0. PICK i \in Ids : i = Min(loop[w].batch)
    BY RoutesRead DEF RouteExecuted
  <1>e. PICK e : e = entry[i]
    OBVIOUS
  <1> DEFINE owner == row[e].status = "processing" /\ row[e].claim = w
             r(status, due) == [row[e] EXCEPT !.status = status, !.due = due,
                                  !.claim = NoWorker,
                                  !.pub = IF status = "done" THEN row[e].pub ELSE "none"]
  <1>1. /\ loop[w].phase = "execute"
        /\ UNCHANGED <<entry, stream, lastId, group, relay, recovery>>
        /\ (Fault \/ UNCHANGED faults)
    BY DEF RouteExecuted
  <1>2. PICK failed \in BOOLEAN : loop' = [loop EXCEPT ![w] = Routed(loop[w], i, failed)]
    BY <1>0 DEF RouteExecuted
  <1>3. \/ owner /\ row' = [row EXCEPT ![e] = r("done", TRUE)]
           /\ (UNCHANGED pel \/ Acknowledged(i))
        \/ UNCHANGED <<row, pel>>
        \/ owner /\ row' = [row EXCEPT ![e] = r("pending", FALSE)] /\ UNCHANGED pel
    BY <1>0, <1>e DEF RouteExecuted
  <1>4. i \in Ids /\ loop[w] \in Loop /\ loop[w].batch \subseteq 1 .. lastId
    BY <1>1, RoutesRead
  <1>5. e \in Subscribed
    <2>1. SoundLoop(loop[w])
      BY LoopOf
    <2> QED
      BY <1>0, <1>e, <1>1, <2>1 DEF SoundLoop
  <1>6. row[e] \in Row /\ row \in [Subscribed -> Row]
    BY <1>5 DEF TransportInv, RowsSound
  <1>7. /\ r("done", TRUE) \in Row /\ r("done", TRUE).status = "done"
        /\ r("pending", FALSE) \in Row
    BY <1>6 DEF Row
  <1> HIDE DEF r
  <1>8. SoundLoop(Routed(loop[w], i, failed))
    BY <1>4, RoutedSound
  <1>9. CASE owner /\ row' = [row EXCEPT ![e] = r("done", TRUE)]
             /\ (UNCHANGED pel \/ Acknowledged(i))
    <2>1. row' \in [Subscribed -> Row]
      BY <1>6, <1>7, <1>9
    <2>2. \A d \in Subscribed : row[d].status = "done" => row'[d].status = "done"
      BY <1>6, <1>7, <1>9
    <2>3. Finished(entry[i])'
      BY <1>e, <1>1, <1>5, <1>6, <1>7, <1>9 DEF Finished
    <2> QED
      BY <1>1, <1>2, <1>4, <1>8, <1>9, <2>1, <2>2, <2>3, RoutingMoves
  <1>10. CASE UNCHANGED <<row, pel>>
    BY <1>1, <1>2, <1>4, <1>6, <1>8, <1>10, RoutingMoves
  <1>11. CASE owner /\ row' = [row EXCEPT ![e] = r("pending", FALSE)] /\ UNCHANGED pel
    <2>1. row' \in [Subscribed -> Row]
      BY <1>6, <1>7, <1>11
    <2>2. \A d \in Subscribed : row[d].status = "done" => row'[d].status = "done"
      <3>1. row[e].status # "done"
        BY <1>11
      <3> QED
        BY <1>6, <1>11, <3>1
    <2> QED
      BY <1>1, <1>2, <1>4, <1>8, <1>11, <2>1, <2>2, RoutingMoves
  <1> QED
    BY <1>3, <1>9, <1>10, <1>11

-----------------------------------------------------------------------------
(* The theorems *)

LEMMA TransportInitSound ==
  ASSUME TransportInit
  PROVE  TransportInv
  <1>1. RowsSound
    BY NewRowTyped, TransportBounds
       DEF TransportInit, RowsSound, Recovery, RecoveryTop
  <1>2. PendingIds = {} /\ stream = {}
    BY DEF TransportInit, PendingIds, NotPending
  <1>3. StreamSound
    BY <1>2, TransportBounds DEF TransportInit, StreamSound, NotPending
  <1>4. LoopTop \in Loop /\ LoopTop.batch = {} /\ LoopTop.phase = "top"
    BY TransportBounds, BatchAssumption DEF LoopTop, Loop, NotBusy
  <1>5. SoundLoop(LoopTop)
    BY <1>4 DEF SoundLoop
  <1>6. LoopsSound
    BY <1>5 DEF TransportInit, LoopsSound
  <1>7. AcknowledgedIsFinished
    BY <1>2 DEF AcknowledgedIsFinished
  <1> QED
    BY <1>1, <1>3, <1>6, <1>7 DEF TransportInv

LEMMA TransportNextSound ==
  ASSUME TransportInv, TransportNext
  PROVE  TransportInv'
  <1>1. CASE \E w \in Relays : RelayStep(w) \/ StopRelay(w)
    BY <1>1, RelayClaimSound, RelayPublishSound, RelayObserveSound, RelayFailSound,
       StopRelaySound DEF RelayStep
  <1>2. CASE \E w \in Scanners : RecoveryStep(w) \/ StopScanner(w)
    BY <1>2, RecoveryProbeSound, RecoveryResetSound, RecoveryFailSound, StopScannerSound
       DEF RecoveryStep
  <1>3. CASE \E w \in Consumers : ConsumerStep(w) \/ StopConsumer(w) \/ StartConsumer(w)
    BY <1>3, RevisitRetrySound, RevisitBusySound, PendingPageSound, ReadNewSound,
       ConsumerFailSound, RouteFinishedSound, RouteLeftSound, RouteBusySound,
       RouteFailSound, RouteStartSound, RouteExecutedSound, StopConsumerSound,
       StartConsumerSound DEF ConsumerStep
  <1>4. CASE ClockStep
    BY <1>4, LeaseLapsesSound, PublicationStallsSound, BackoffElapsesSound,
       EntryIdlesSound, BusyReadySound DEF ClockStep
  <1>5. CASE \E e \in Foreign \cup Strays : PublishOther(e)
    BY <1>5, PublishOtherSound
  <1>6. CASE RedisLosesStream
    BY <1>6, RedisLosesStreamSound
  <1> QED
    BY <1>1, <1>2, <1>3, <1>4, <1>5, <1>6 DEF TransportNext

LEMMA TransportStutters ==
  ASSUME TransportInv, UNCHANGED transportVars
  PROVE  TransportInv'
  <1>1. UNCHANGED <<row, entry, stream, lastId, group, pel, relay, recovery, loop, faults>>
    BY DEF transportVars
  <1>2. RowsSound'
    BY <1>1, RowsStay DEF TransportInv
  <1>3. StreamSound' /\ group'.last = group.last /\ PendingIds' = PendingIds
    BY <1>1, StreamStays DEF TransportInv
  <1>4. LoopsSound'
    BY <1>1, LoopsStay DEF TransportInv
  <1>5. AcknowledgedIsFinished'
    BY <1>1, <1>3, AcknowledgedStays DEF TransportInv
  <1> QED
    BY <1>2, <1>3, <1>4, <1>5 DEF TransportInv

LEMMA TransportInvHolds == TransportSpec => []TransportInv
  <1>1. TransportInit => TransportInv
    BY TransportInitSound
  <1>2. TransportInv /\ [TransportNext]_transportVars => TransportInv'
    BY TransportNextSound, TransportStutters
  <1> QED
    BY <1>1, <1>2, PTL DEF TransportSpec

\* No reference is lost to the group: an entry that was given to it and is no longer
\* pending belongs to a delivery that is finished, or to an event that is none of
\* the group's (_route_message acknowledges only durable results, a new group starts
\* at 0-0), for any number of workers, events, entries and faults.
THEOREM ReferencesKeptHolds == TransportSpec => []ReferencesKept
  <1>1. TransportInv => ReferencesKept
    <2> SUFFICES ASSUME TransportInv PROVE ReferencesKept
      OBVIOUS
    <2>1. loop \in [Consumers -> Loop]
      BY DEF TransportInv, LoopsSound, SoundLoop
    <2>2. TransportTypeOK
      BY <2>1 DEF TransportInv, RowsSound, StreamSound, TransportTypeOK
    <2> QED
      BY <2>2 DEF TransportInv, ReferencesKept
  <1> QED
    BY <1>1, TransportInvHolds, PTL

(***************************************************************************)
(* The menu cache                                                          *)
(***************************************************************************)
-----------------------------------------------------------------------------
(* The inductive invariant *)

\* p was read from key k, and was true at least until its source.
Dated(k, p) ==
    /\ p \in Payload
    /\ p.source <= now
    /\ ended[k][p.version] = None \/ p.source <= ended[k][p.version]

\* PostgreSQL: a version that was superseded is an old one.
SourceSound ==
    /\ now \in 0 .. MaxTime /\ writes \in 0 .. MaxWrites
    /\ version \in [Keys -> Versions] /\ \A k \in Keys : version[k] <= writes
    /\ ended \in [Keys -> [Versions -> {None} \cup 0 .. MaxTime]]
    /\ \A k \in Keys, v \in Versions : v >= version[k] => ended[k][v] = None
    /\ menus \subseteq Menus /\ items \in [Menus -> SUBSET Items]

\* Redis: what it holds, and what it may still be given, is dated.
EntriesSound ==
    /\ cache = [k \in Keys |-> cache[k]]
    /\ \A k \in Keys :
         cache[k] # None => /\ Dated(k, cache[k].payload)
                            /\ cache[k].expires \in Int /\ now < cache[k].expires
    /\ \A c \in lateFills : c.key \in Keys /\ Dated(c.key, c.payload) /\ c.life \in Nat \ {0}

Read == [phase: {"idle", "get", "query", "read", "attach", "store", "answered"},
         key: Keys, probe: BOOLEAN, fill: BOOLEAN, payload: {None} \cup Payload,
         hit: BOOLEAN]

\* Readers: what one has read is dated, and at most one is the probe.
ReadsSound ==
    /\ reader \in [Readers -> Read]
    /\ \A r \in Readers :
         /\ reader[r].phase \in {"read", "attach", "store", "answered"}
               => Dated(reader[r].key, reader[r].payload)
         /\ reader[r].probe => reader[r].phase = "get"
    /\ openUntil \in {None} \cup Nat /\ probing \in BOOLEAN
    /\ probing <=> \E r \in Readers : reader[r].probe
    /\ \A r, s \in Readers : reader[r].probe /\ reader[s].probe => r = s

Write == [phase: {"idle", "committed"},
          op: {"create_menu", "update_menu", "delete_menu",
               "create_item", "update_item", "delete_item"},
          menu: Menus \cup {None}]

WritesSound ==
    /\ writer \in [Writers -> Write]
    /\ \A w \in Writers : writer[w].phase = "committed" => writer[w].menu \in Menus
    /\ unsure \subseteq Keys

CacheInv ==
    /\ SourceSound
    /\ EntriesSound
    /\ ReadsSound
    /\ WritesSound
    /\ TrueEntriesAreDeleted

-----------------------------------------------------------------------------
(* What an action leaves alone stays sound *)

LEMMA SourceStays ==
  ASSUME SourceSound, UNCHANGED <<now, store>>
  PROVE  SourceSound' /\ UNCHANGED <<version, ended, menus, items, writes>>
  BY DEF SourceSound, store

LEMMA EntriesStay ==
  ASSUME EntriesSound, UNCHANGED <<now, ended, cache>>, lateFills' \subseteq lateFills
  PROVE  EntriesSound'
  BY DEF EntriesSound, Dated

LEMMA TrueEntriesStay ==
  ASSUME TrueEntriesAreDeleted, UNCHANGED <<cache, version, unsure, writer>>
  PROVE  TrueEntriesAreDeleted'
  BY DEF TrueEntriesAreDeleted, Cached, Changed

\* One reader moves.  It gives its probe back, if it had one, or becomes the probe.
LEMMA ReaderMoves ==
  ASSUME CacheInv, NEW r \in Readers, NEW n \in Read, reader' = [reader EXCEPT ![r] = n],
         n.phase \in {"read", "attach", "store", "answered"} => Dated(n.key, n.payload),
         n.probe => n.phase = "get",
         UNCHANGED <<now, ended>>, openUntil' \in {None} \cup Nat,
         \/ ~n.probe /\ probing' = (probing /\ ~reader[r].probe)
         \/ n.probe /\ ~probing /\ probing'
  PROVE  ReadsSound'
  <1>1. /\ reader' \in [Readers -> Read]
        /\ \A s \in Readers : reader'[s] = IF s = r THEN n ELSE reader[s]
    BY DEF CacheInv, ReadsSound
  <1>2. probing \in BOOLEAN /\ \A s \in Readers : reader[s].probe \in BOOLEAN
    BY DEF CacheInv, ReadsSound, Read
  <1>3. ASSUME NEW s \in Readers
        PROVE  /\ reader'[s].phase \in {"read", "attach", "store", "answered"}
                     => Dated(reader[s].key, reader[s].payload)'
               /\ reader'[s].probe => reader'[s].phase = "get"
    <2>1. CASE s = r
      BY <1>1, <2>1 DEF Dated
    <2>2. CASE s # r
      BY <1>1, <2>2 DEF CacheInv, ReadsSound, Dated
    <2> QED
      BY <2>1, <2>2
  <1>4. CASE ~n.probe /\ probing' = (probing /\ ~reader[r].probe)
    <2>1. probing' \in BOOLEAN
      BY <1>4
    <2>2. \A s \in Readers : reader'[s].probe <=> reader[s].probe /\ s # r
      BY <1>1, <1>4
    <2>3. probing' <=> \E s \in Readers : reader'[s].probe
      BY <1>2, <1>4, <2>2 DEF CacheInv, ReadsSound
    <2>4. \A s, u \in Readers : reader'[s].probe /\ reader'[u].probe => s = u
      BY <2>2 DEF CacheInv, ReadsSound
    <2> QED
      BY <1>1, <1>3, <2>1, <2>3, <2>4 DEF ReadsSound
  <1>5. CASE n.probe /\ ~probing /\ probing'
    <2>1. probing' \in BOOLEAN
      BY <1>2, <1>5 DEF CacheInv, ReadsSound
    <2>2. \A s \in Readers : reader'[s].probe <=> s = r
      BY <1>1, <1>2, <1>5 DEF CacheInv, ReadsSound
    <2> QED
      BY <1>1, <1>3, <1>5, <2>1, <2>2 DEF ReadsSound
  <1> QED
    BY <1>4, <1>5

\* A step of a reader that touches neither Redis nor PostgreSQL.
LEMMA QuietStep ==
  ASSUME CacheInv, ReadsSound', UNCHANGED <<now, store, cache, lateFills, writer, unsure>>
  PROVE  CacheInv'
  <1>1. SourceSound' /\ UNCHANGED <<version, ended, menus, items, writes>>
    BY SourceStays DEF CacheInv
  <1>2. EntriesSound'
    BY <1>1, EntriesStay DEF CacheInv
  <1>3. WritesSound'
    BY DEF CacheInv, WritesSound
  <1>4. TrueEntriesAreDeleted'
    BY <1>1, TrueEntriesStay DEF CacheInv
  <1> QED
    BY <1>1, <1>2, <1>3, <1>4 DEF CacheInv

\* A payload lands in Redis: false from the start, or the present version.
LEMMA FillSound ==
  ASSUME CacheInv, NEW k \in Keys, NEW p, Dated(k, p), NEW life \in Nat \ {0},
         cache' = [cache EXCEPT ![k] = Entry(k, p, life)],
         lateFills' \subseteq lateFills, UNCHANGED <<now, store, writer, unsure>>
  PROVE  EntriesSound' /\ TrueEntriesAreDeleted'
  <1>1. UNCHANGED <<version, ended>>
    BY DEF store
  <1>2. /\ cache' = [x \in Keys |-> cache'[x]]
        /\ \A x \in Keys : cache'[x] = IF x = k THEN Entry(k, p, life) ELSE cache[x]
    BY DEF CacheInv, EntriesSound
  <1>3. /\ Entry(k, p, life).payload = p /\ Entry(k, p, life).expires = now + life
        /\ Entry(k, p, life).true = (p.version = version[k])
    BY DEF Entry
  <1>4. now \in Nat
    BY CacheBounds DEF CacheInv, SourceSound
  <1>5. EntriesSound'
    <2>1. ASSUME NEW x \in Keys, cache'[x] # None
          PROVE  /\ Dated(x, cache[x].payload)'
                 /\ cache'[x].expires \in Int /\ now' < cache'[x].expires
      <3>1. CASE x = k
        <4>1. Dated(x, cache[x].payload)'
          BY <1>1, <1>2, <1>3, <3>1 DEF Dated
        <4> QED
          BY <1>2, <1>3, <1>4, <3>1, <4>1
      <3>2. CASE x # k
        BY <1>1, <1>2, <2>1, <3>2 DEF CacheInv, EntriesSound, Dated
      <3> QED
        BY <3>1, <3>2
    <2>2. \A c \in lateFills' :
            c.key \in Keys /\ Dated(c.key, c.payload)' /\ c.life \in Nat \ {0}
      BY <1>1 DEF CacheInv, EntriesSound, Dated
    <2> QED
      BY <1>2, <2>1, <2>2 DEF EntriesSound
  <1>6. TrueEntriesAreDeleted'
    <2> SUFFICES ASSUME NEW x \in Keys
                 PROVE  \/ Cached(x)' = None \/ ~cache'[x].true
                        \/ Cached(x)'.version = version'[x]
                        \/ x \in unsure'
                        \/ \E w \in Writers : writer'[w].phase = "committed"
                                              /\ x \in Changed(writer[w])'
      BY DEF TrueEntriesAreDeleted
    <2>1. CASE x = k
      BY <1>1, <1>2, <1>3, <2>1 DEF Cached
    <2>2. CASE x # k
      BY <1>1, <1>2, <2>2 DEF CacheInv, TrueEntriesAreDeleted, Cached, Changed
    <2> QED
      BY <2>1, <2>2
  <1> QED
    BY <1>5, <1>6

-----------------------------------------------------------------------------
(* Readers *)

LEMMA NoReadTyped == NoRead \in Read /\ ~NoRead.probe /\ NoRead.phase = "idle"
  BY DEF NoRead, Read, Keys

LEMMA BeginLookupSound ==
  ASSUME CacheInv, NEW r \in Readers, NEW k \in Keys, BeginLookup(r, k)
  PROVE  CacheInv'
  <1> DEFINE closed == openUntil = None
             probe == ~closed /\ now >= openUntil /\ ~probing
             n == [NoRead EXCEPT !.phase = IF closed \/ probe THEN "get" ELSE "query",
                                 !.key = k, !.probe = probe]
  <1>1. /\ reader[r].phase = "idle" /\ reader' = [reader EXCEPT ![r] = n]
        /\ probing' = (probing \/ probe)
        /\ UNCHANGED <<now, store, cache, lateFills, openUntil, writer, unsure>>
    BY DEF BeginLookup
  <1>2. probe \in BOOLEAN /\ ~reader[r].probe
    BY <1>1 DEF CacheInv, ReadsSound
  <1>3. /\ n \in Read /\ n.phase \in {"get", "query"} /\ n.probe = probe
        /\ (probe => n.phase = "get")
    BY <1>2 DEF NoRead, Read
  <1> HIDE DEF n
  <1>4. probing \in BOOLEAN /\ openUntil' \in {None} \cup Nat
    BY <1>1 DEF CacheInv, ReadsSound
  <1>5. UNCHANGED <<now, ended>>
    BY <1>1 DEF store
  <1>6. \/ ~n.probe /\ probing' = (probing /\ ~reader[r].probe)
        \/ n.probe /\ ~probing /\ probing'
    <2>1. CASE probe
      BY <1>1, <1>3, <2>1
    <2>2. CASE ~probe
      <3>1. probing' = probing /\ (probing /\ ~reader[r].probe) = probing
        BY <1>1, <1>2, <1>4, <2>2
      <3> QED
        BY <1>3, <2>2, <3>1
    <2> QED
      BY <2>1, <2>2
  <1> HIDE DEF probe
  <1>7. ReadsSound'
    BY <1>1, <1>3, <1>4, <1>5, <1>6, ReaderMoves
  <1> QED
    BY <1>1, <1>7, QuietStep

\* What a GET may answer with is dated.
LEMMA ValidIsDated ==
  ASSUME CacheInv, NEW k \in Keys, ValidPayload(Cached(k))
  PROVE  Dated(k, Cached(k)) /\ now - Cached(k).source < MaxAge
  <1>1. cache[k] # None /\ Cached(k) = cache[k].payload
    BY DEF ValidPayload, Cached
  <1> QED
    BY <1>1 DEF CacheInv, EntriesSound, ValidPayload

LEMMA AnsweredSound ==
  ASSUME CacheInv, NEW r \in Readers, NEW next \in {"answered", "attach"}, Answered(r, next)
  PROVE  CacheInv'
  <1> DEFINE p == Cached(reader[r].key)
             n == [reader[r] EXCEPT !.probe = FALSE, !.fill = TRUE,
                     !.phase = IF ValidPayload(p) THEN next ELSE "query",
                     !.payload = IF ValidPayload(p) THEN p ELSE None,
                     !.hit = ValidPayload(p)]
  <1>1. /\ reader' = [reader EXCEPT ![r] = n]
        /\ probing' = (probing /\ ~reader[r].probe)
        /\ UNCHANGED <<now, store, cache, lateFills, writer, unsure>>
    BY DEF Answered, FinishProbe
  <1>2. openUntil' \in {None} \cup Nat
    BY DEF Answered, FinishProbe, CacheInv, ReadsSound
  <1>3. reader[r] \in Read /\ reader[r].key \in Keys
    BY DEF CacheInv, ReadsSound, Read
  <1>4. ValidPayload(p) => Dated(reader[r].key, p) /\ p \in Payload
    BY <1>3, ValidIsDated DEF Dated
  <1>5. ValidPayload(p) \in BOOLEAN
    BY DEF ValidPayload
  <1> HIDE DEF p
  <1>6. n \in Read /\ ~n.probe /\ n.key = reader[r].key
    BY <1>3, <1>4, <1>5 DEF Read
  <1>7. n.phase \in {"read", "attach", "store", "answered"} => Dated(n.key, n.payload)
    <2>1. CASE ValidPayload(p)
      <3>1. n.payload = p /\ n.key = reader[r].key
        BY <1>3, <2>1 DEF Read
      <3> QED
        BY <1>4, <2>1, <3>1
    <2>2. CASE ~ValidPayload(p)
      BY <1>3, <2>2 DEF Read
    <2> QED
      BY <2>1, <2>2
  <1> HIDE DEF n
  <1>8. UNCHANGED <<now, ended>>
    BY <1>1 DEF store
  <1>9. ReadsSound'
    BY <1>1, <1>2, <1>6, <1>7, <1>8, ReaderMoves
  <1> QED
    BY <1>1, <1>9, QuietStep

LEMMA GetFailsSound ==
  ASSUME CacheInv, NEW r \in Readers, GetFails(r)
  PROVE  CacheInv'
  <1> DEFINE n == [reader[r] EXCEPT !.phase = "query", !.probe = FALSE]
  <1>1. /\ reader' = [reader EXCEPT ![r] = n]
        /\ probing' = (probing /\ ~reader[r].probe)
        /\ UNCHANGED <<now, store, cache, lateFills, writer, unsure>>
    BY DEF GetFails, CacheInv, ReadsSound
  <1>2. openUntil' \in {None} \cup Nat
    <2>1. now + Cooldown \in Nat
      BY CacheBounds DEF CacheInv, SourceSound
    <2> QED
      BY <2>1 DEF GetFails, CacheInv, ReadsSound
  <1>3. n \in Read /\ ~n.probe /\ n.phase = "query"
    BY DEF CacheInv, ReadsSound, Read
  <1> HIDE DEF n
  <1>4. UNCHANGED <<now, ended>>
    BY <1>1 DEF store
  <1>5. ReadsSound'
    BY <1>1, <1>2, <1>3, <1>4, ReaderMoves
  <1> QED
    BY <1>1, <1>5, QuietStep

LEMMA CancelReadSound ==
  ASSUME CacheInv, NEW r \in Readers, CancelRead(r)
  PROVE  CacheInv'
  <1>1. /\ reader' = [reader EXCEPT ![r] = NoRead]
        /\ probing' = (probing /\ ~reader[r].probe)
        /\ UNCHANGED <<now, store, cache, lateFills, writer, unsure>>
    BY DEF CancelRead, FinishProbe
  <1>2. openUntil' \in {None} \cup Nat
    BY DEF CancelRead, FinishProbe, CacheInv, ReadsSound
  <1>3. UNCHANGED <<now, ended>>
    BY <1>1 DEF store
  <1>4. ReadsSound'
    BY <1>1, <1>2, <1>3, NoReadTyped, ReaderMoves
  <1> QED
    BY <1>1, <1>4, QuietStep

\* A reader that is not the probe moves, and leaves the circuit as it is.
LEMMA ReaderGoesOn ==
  ASSUME CacheInv, NEW r \in Readers, reader[r].phase # "get",
         NEW n \in Read, reader' = [reader EXCEPT ![r] = n], ~n.probe,
         n.phase \in {"read", "attach", "store", "answered"} => Dated(n.key, n.payload),
         UNCHANGED <<now, store, probing>>, openUntil' \in {None} \cup Nat
  PROVE  ReadsSound'
  <1>1. ~reader[r].probe /\ probing \in BOOLEAN
    BY DEF CacheInv, ReadsSound
  <1>2. probing' = (probing /\ ~reader[r].probe)
    BY <1>1
  <1>3. UNCHANGED <<now, ended>>
    BY DEF store
  <1> QED
    BY <1>2, <1>3, ReaderMoves

LEMMA CircuitStays ==
  ASSUME CacheInv, UNCHANGED circuit
  PROVE  openUntil' \in {None} \cup Nat /\ UNCHANGED probing
  BY DEF CacheInv, ReadsSound, circuit

LEMMA QuerySound ==
  ASSUME CacheInv, NEW r \in Readers, Query(r)
  PROVE  CacheInv'
  <1> DEFINE k == reader[r].key
             p == [version |-> version[k], source |-> now,
                   items |-> IF k = List THEN {} ELSE items[k]]
             n == [reader[r] EXCEPT !.phase = "read", !.payload = p]
  <1>1. /\ reader[r].phase = "query" /\ reader' = [reader EXCEPT ![r] = n]
        /\ UNCHANGED <<now, store, cache, lateFills, circuit, writer, unsure>>
    BY DEF Query, CacheInv, ReadsSound
  <1>2. reader[r] \in Read /\ k \in Keys /\ ~reader[r].probe
    BY <1>1 DEF CacheInv, ReadsSound, Read
  <1>3. Dated(k, p)
    <2>1. version[k] \in Versions /\ ended[k][version[k]] = None /\ now \in 0 .. MaxTime
      BY <1>2, CacheBounds DEF CacheInv, SourceSound, Versions
    <2>2. (IF k = List THEN {} ELSE items[k]) \in SUBSET Items
      BY <1>2 DEF CacheInv, SourceSound, Keys
    <2>3. p \in Payload
      BY <2>1, <2>2 DEF Payload
    <2> QED
      BY <2>1, <2>3 DEF Dated
  <1>4. p \in Payload
    BY <1>3 DEF Dated
  <1> HIDE DEF p
  <1>5. n \in Read /\ ~n.probe /\ n.key = k /\ n.payload = p
    BY <1>2, <1>4 DEF Read
  <1> HIDE DEF n
  <1>6. ReadsSound'
    BY <1>1, <1>3, <1>5, CircuitStays, ReaderGoesOn
  <1> QED
    BY <1>1, <1>6, QuietStep

LEMMA AttachHitSound ==
  ASSUME CacheInv, NEW r \in Readers, AttachHit(r)
  PROVE  CacheInv'
  <1> DEFINE n == IF Attached(r) THEN NoRead
                  ELSE [reader[r] EXCEPT !.phase = "query", !.payload = None, !.hit = FALSE]
  <1>1. /\ reader[r].phase = "attach" /\ reader' = [reader EXCEPT ![r] = n]
        /\ UNCHANGED <<now, store, cache, lateFills, circuit, writer, unsure>>
    BY DEF AttachHit, CacheInv, ReadsSound
  <1>2. reader[r] \in Read /\ ~reader[r].probe
    BY <1>1 DEF CacheInv, ReadsSound
  <1>3. n \in Read /\ ~n.probe /\ n.phase \in {"idle", "query"}
    BY <1>2, NoReadTyped DEF Read
  <1> HIDE DEF n
  <1>4. ReadsSound'
    BY <1>1, <1>3, CircuitStays, ReaderGoesOn
  <1> QED
    BY <1>1, <1>4, QuietStep

LEMMA AttachReadSound ==
  ASSUME CacheInv, NEW r \in Readers, AttachRead(r)
  PROVE  CacheInv'
  <1> DEFINE n == IF reader[r].fill /\ (reader[r].key # List => Attached(r))
                  THEN [reader[r] EXCEPT !.phase = "store"] ELSE NoRead
  <1>1. /\ reader[r].phase = "read" /\ reader' = [reader EXCEPT ![r] = n]
        /\ UNCHANGED <<now, store, cache, lateFills, circuit, writer, unsure>>
    BY DEF AttachRead, CacheInv, ReadsSound
  <1>2. reader[r] \in Read /\ ~reader[r].probe /\ Dated(reader[r].key, reader[r].payload)
    BY <1>1 DEF CacheInv, ReadsSound
  <1>3. /\ n \in Read /\ ~n.probe
        /\ n.phase \in {"read", "attach", "store", "answered"} => Dated(n.key, n.payload)
    <2>1. CASE n = NoRead
      BY <2>1, NoReadTyped
    <2>2. CASE n = [reader[r] EXCEPT !.phase = "store"]
      <3>1. n \in Read /\ ~n.probe /\ n.key = reader[r].key /\ n.payload = reader[r].payload
        BY <1>2, <2>2 DEF Read
      <3> QED
        BY <1>2, <3>1
    <2> QED
      BY <2>1, <2>2
  <1> HIDE DEF n
  <1>4. ReadsSound'
    BY <1>1, <1>3, CircuitStays, ReaderGoesOn
  <1> QED
    BY <1>1, <1>4, QuietStep

LEMMA FinishSound ==
  ASSUME CacheInv, NEW r \in Readers, Finish(r)
  PROVE  CacheInv'
  <1>1. /\ reader[r].phase = "answered" /\ reader' = [reader EXCEPT ![r] = NoRead]
        /\ UNCHANGED <<now, store, cache, lateFills, circuit, writer, unsure>>
    BY DEF Finish
  <1>2. ReadsSound'
    BY <1>1, NoReadTyped, CircuitStays, ReaderGoesOn
  <1> QED
    BY <1>1, <1>2, QuietStep

\* A payload that is young enough is given a lifetime.
LEMMA RemainingPositive ==
  ASSUME CacheInv, NEW k, NEW p, Dated(k, p), now - p.source < MaxAge
  PROVE  Remaining(p) \in Nat \ {0}
  <1>1. p.source \in Nat /\ now \in Nat /\ MaxAge \in Nat /\ p.source <= now
    BY CacheBounds DEF CacheInv, SourceSound, Dated, Payload
  <1> QED
    BY <1>1 DEF Remaining

LEMMA StoreSound ==
  ASSUME CacheInv, NEW r \in Readers, Store(r)
  PROVE  CacheInv'
  <1>0. PICK k, p : k = reader[r].key /\ p = reader[r].payload
    OBVIOUS
  <1>1. /\ reader[r].phase = "store" /\ reader' = [reader EXCEPT ![r] = NoRead]
        /\ cache' = IF now - p.source < MaxAge
                    THEN [cache EXCEPT ![k] = Entry(k, p, Remaining(p))] ELSE cache
        /\ UNCHANGED <<now, store, lateFills, circuit, writer, unsure>>
    BY <1>0 DEF Store
  <1>2. ReadsSound'
    BY <1>1, NoReadTyped, CircuitStays, ReaderGoesOn
  <1>3. SourceSound' /\ UNCHANGED <<version, ended>>
    BY <1>1, SourceStays DEF CacheInv
  <1>4. WritesSound'
    BY <1>1 DEF CacheInv, WritesSound
  <1>5. Dated(k, p) /\ k \in Keys
    BY <1>0, <1>1 DEF CacheInv, ReadsSound, Read
  <1>6. EntriesSound' /\ TrueEntriesAreDeleted'
    <2>1. CASE now - p.source < MaxAge
      <3>1. Remaining(p) \in Nat \ {0}
        BY <1>5, <2>1, RemainingPositive
      <3> QED
        BY <1>1, <1>5, <2>1, <3>1, FillSound
    <2>2. CASE ~(now - p.source < MaxAge)
      BY <1>1, <1>3, <2>2, EntriesStay, TrueEntriesStay DEF CacheInv
    <2> QED
      BY <2>1, <2>2
  <1> QED
    BY <1>2, <1>3, <1>4, <1>6 DEF CacheInv

LEMMA StoreFailsSound ==
  ASSUME CacheInv, NEW r \in Readers, StoreFails(r)
  PROVE  CacheInv'
  <1>0. PICK k, p : k = reader[r].key /\ p = reader[r].payload
    OBVIOUS
  <1>1. /\ reader[r].phase = "store" /\ reader' = [reader EXCEPT ![r] = NoRead]
        /\ now - p.source < MaxAge
        /\ \/ lateFills' = lateFills \cup {[key |-> k, payload |-> p, life |-> Remaining(p)]}
           \/ UNCHANGED lateFills
        /\ UNCHANGED <<now, store, cache, probing, writer, unsure>>
    BY <1>0 DEF StoreFails
  <1>2. openUntil' \in {None} \cup Nat
    <2>1. now + Cooldown \in Nat
      BY CacheBounds DEF CacheInv, SourceSound
    <2> QED
      BY <2>1 DEF StoreFails, CacheInv, ReadsSound
  <1>3. ReadsSound'
    BY <1>1, <1>2, NoReadTyped, ReaderGoesOn
  <1>4. SourceSound' /\ UNCHANGED <<version, ended>>
    BY <1>1, SourceStays DEF CacheInv
  <1>5. WritesSound'
    BY <1>1 DEF CacheInv, WritesSound
  <1>6. Dated(k, p) /\ k \in Keys
    BY <1>0, <1>1 DEF CacheInv, ReadsSound, Read
  <1>7. Remaining(p) \in Nat \ {0}
    BY <1>1, <1>6, RemainingPositive
  <1>8. EntriesSound'
    <2>1. \A c \in lateFills' :
            c.key \in Keys /\ Dated(c.key, c.payload) /\ c.life \in Nat \ {0}
      BY <1>1, <1>6, <1>7 DEF CacheInv, EntriesSound
    <2> QED
      BY <1>1, <1>4, <2>1 DEF CacheInv, EntriesSound, Dated
  <1>9. TrueEntriesAreDeleted'
    BY <1>1, <1>4, TrueEntriesStay DEF CacheInv
  <1> QED
    BY <1>3, <1>4, <1>5, <1>8, <1>9 DEF CacheInv

-----------------------------------------------------------------------------
(* Writers, late commands and time *)

Operations == {"create_menu", "update_menu", "delete_menu",
               "create_item", "update_item", "delete_item"}

\* A write commits: what it changed is superseded now, and not yet deleted.
LEMMA CommitSound ==
  ASSUME CacheInv, NEW w \in Writers, NEW op \in Operations, NEW m \in Menus,
         Commit(w, op, m), menus' \subseteq Menus, items' \in [Menus -> SUBSET Items]
  PROVE  CacheInv'
  <1> DEFINE write == [phase |-> "committed", op |-> op, menu |-> m]
  <1>1. /\ writer[w].phase = "idle" /\ writes < MaxWrites /\ writes' = writes + 1
        /\ writer' = [writer EXCEPT ![w] = write]
        /\ ended' = [k \in Keys |-> IF k \in Changed(write)
                         THEN [ended[k] EXCEPT ![version[k]] = now] ELSE ended[k]]
        /\ version' = [k \in Keys |-> IF k \in Changed(write)
                         THEN version[k] + 1 ELSE version[k]]
        /\ UNCHANGED <<now, cache, lateFills, openUntil, probing, reader, unsure>>
    BY DEF Commit, circuit
  <1>2. /\ now \in 0 .. MaxTime /\ writes \in 0 .. MaxWrites
        /\ \A k \in Keys : /\ version[k] \in Versions /\ version[k] <= writes
                           /\ ended[k] \in [Versions -> {None} \cup 0 .. MaxTime]
                           /\ \A v \in Versions : v >= version[k] => ended[k][v] = None
    BY DEF CacheInv, SourceSound
  <1>3. writes' \in 0 .. MaxWrites
    BY <1>1, <1>2, CacheBounds
  <1>4. ASSUME NEW k \in Keys
        PROVE  /\ version'[k] \in Versions /\ version'[k] <= writes'
               /\ ended'[k] \in [Versions -> {None} \cup 0 .. MaxTime]
               /\ \A v \in Versions :
                    /\ ended'[k][v] = ended[k][v] \/ ended'[k][v] = now
                    /\ v >= version'[k] => ended'[k][v] = None
    <2>1. CASE k \in Changed(write)
      <3>1. version'[k] = version[k] + 1
            /\ ended'[k] = [ended[k] EXCEPT ![version[k]] = now]
        BY <1>1, <2>1
      <3>2. version[k] \in Nat /\ writes \in Nat /\ version[k] + 1 <= MaxWrites
        BY <1>1, <1>2, CacheBounds DEF Versions
      <3>3. version'[k] \in Versions /\ version'[k] <= writes'
        BY <1>1, <1>2, <3>1, <3>2, CacheBounds DEF Versions
      <3>4. ended'[k] \in [Versions -> {None} \cup 0 .. MaxTime]
        BY <1>2, <3>1
      <3>5. ASSUME NEW v \in Versions
            PROVE  /\ ended'[k][v] = ended[k][v] \/ ended'[k][v] = now
                   /\ v >= version'[k] => ended'[k][v] = None
        <4>1. ended'[k][v] = IF v = version[k] THEN now ELSE ended[k][v]
          BY <1>2, <3>1, <3>5
        <4>2. v \in Nat
          BY <3>5 DEF Versions
        <4>3. v >= version'[k] => v # version[k] /\ v >= version[k]
          BY <3>1, <3>2, <4>2
        <4> QED
          BY <1>2, <3>5, <4>1, <4>3
      <3> QED
        BY <3>3, <3>4, <3>5
    <2>2. CASE k \notin Changed(write)
      <3>1. version'[k] = version[k] /\ ended'[k] = ended[k]
        BY <1>1, <2>2
      <3>2. version[k] <= writes'
        BY <1>1, <1>2, CacheBounds DEF Versions
      <3> QED
        BY <1>2, <3>1, <3>2
    <2> QED
      BY <2>1, <2>2
  <1>5. SourceSound'
    <2>1. version' = [k \in Keys |-> version'[k]] /\ ended' = [k \in Keys |-> ended'[k]]
      BY <1>1
    <2>2. version' \in [Keys -> Versions]
          /\ ended' \in [Keys -> [Versions -> {None} \cup 0 .. MaxTime]]
      BY <1>4, <2>1
    <2> QED
      BY <1>1, <1>2, <1>3, <1>4, <2>2 DEF SourceSound
  <1>6. ASSUME NEW k \in Keys, NEW p, Dated(k, p)
        PROVE  /\ p \in Payload /\ p.source <= now'
               /\ ended'[k][p.version] = None \/ p.source <= ended'[k][p.version]
    <2>1. p \in Payload /\ p.version \in Versions /\ p.source <= now
      BY <1>6 DEF Dated, Payload
    <2>2. ended[k][p.version] = None \/ p.source <= ended[k][p.version]
      BY <1>6 DEF Dated
    <2>3. ended'[k][p.version] = ended[k][p.version] \/ ended'[k][p.version] = now
      BY <1>4, <2>1
    <2> QED
      BY <1>1, <2>1, <2>2, <2>3
  <1>7. EntriesSound'
    <2>1. \A k \in Keys : cache'[k] # None =>
             Dated(k, cache[k].payload)' /\ cache'[k].expires \in Int /\ now' < cache'[k].expires
      BY <1>1, <1>6 DEF CacheInv, EntriesSound, Dated
    <2>2. \A c \in lateFills' :
            c.key \in Keys /\ Dated(c.key, c.payload)' /\ c.life \in Nat \ {0}
      BY <1>1, <1>6 DEF CacheInv, EntriesSound, Dated
    <2>3. cache' = [k \in Keys |-> cache'[k]]
      BY <1>1 DEF CacheInv, EntriesSound
    <2> QED
      BY <2>1, <2>2, <2>3 DEF EntriesSound
  <1>8. ReadsSound'
    <2>1. ASSUME NEW r \in Readers,
                 reader'[r].phase \in {"read", "attach", "store", "answered"}
          PROVE  Dated(reader[r].key, reader[r].payload)'
      <3>1. PICK k, p : k = reader[r].key /\ p = reader[r].payload
        OBVIOUS
      <3>2. k \in Keys /\ Dated(k, p)
        BY <1>1, <2>1, <3>1 DEF CacheInv, ReadsSound, Read
      <3> QED
        BY <1>1, <1>6, <3>1, <3>2 DEF Dated
    <2> QED
      BY <1>1, <2>1 DEF CacheInv, ReadsSound
  <1>9. write \in Write /\ write.phase = "committed" /\ write.menu = m
    BY DEF Write, Operations
  <1>10. WritesSound' /\ \A x \in Writers : writer'[x] = IF x = w THEN write ELSE writer[x]
    BY <1>1, <1>9 DEF CacheInv, WritesSound
  <1>11. TrueEntriesAreDeleted'
    <2> SUFFICES ASSUME NEW k \in Keys
                 PROVE  \/ Cached(k)' = None \/ ~cache'[k].true
                        \/ Cached(k)'.version = version'[k]
                        \/ k \in unsure'
                        \/ \E x \in Writers : writer'[x].phase = "committed"
                                              /\ k \in Changed(writer'[x])
      BY DEF TrueEntriesAreDeleted, Changed
    <2>1. CASE k \in Changed(write)
      BY <1>9, <1>10, <2>1
    <2>2. CASE k \notin Changed(write)
      <3>1. version'[k] = version[k]
        BY <1>1, <2>2
      <3>2. \A x \in Writers : writer[x].phase = "committed" => writer'[x] = writer[x]
        BY <1>1, <1>10
      <3>3. Cached(k)' = Cached(k)
        BY <1>1 DEF Cached
      <3> QED
        BY <1>1, <3>1, <3>2, <3>3 DEF CacheInv, TrueEntriesAreDeleted
    <2> QED
      BY <2>1, <2>2
  <1> QED
    BY <1>5, <1>7, <1>8, <1>10, <1>11 DEF CacheInv

LEMMA ItemChangesSound ==
  ASSUME CacheInv, NEW w \in Writers, NEW m \in Menus, NEW i \in Items,
         CreateMenuItem(w, m, i) \/ UpdateMenuItem(w, m, i) \/ DeleteMenuItem(w, m, i)
  PROVE  CacheInv'
  <1>1. menus' \subseteq Menus /\ items' \in [Menus -> SUBSET Items]
    BY DEF CreateMenuItem, UpdateMenuItem, DeleteMenuItem, CacheInv, SourceSound
  <1>2. PICK op \in Operations : Commit(w, op, m)
    BY DEF CreateMenuItem, UpdateMenuItem, DeleteMenuItem, Operations
  <1> QED
    BY <1>1, <1>2, CommitSound

LEMMA MenuChangesSound ==
  ASSUME CacheInv, NEW w \in Writers, NEW m \in Menus,
         CreateMenu(w, m) \/ UpdateMenu(w, m) \/ DeleteMenu(w, m)
  PROVE  CacheInv'
  <1>1. menus' \subseteq Menus /\ items' \in [Menus -> SUBSET Items]
    BY DEF CreateMenu, UpdateMenu, DeleteMenu, CacheInv, SourceSound
  <1>2. PICK op \in Operations : Commit(w, op, m)
    BY DEF CreateMenu, UpdateMenu, DeleteMenu, Operations
  <1> QED
    BY <1>1, <1>2, CommitSound

\* A writer deletes the very keys whose content it changed.
LEMMA InvalidatedIsChanged ==
  ASSUME NEW w \in Write
  PROVE  Invalidated(w) = Changed(w)
  BY DEF Write, Invalidated, Changed

LEMMA NoWriteTyped == NoWrite \in Write /\ NoWrite.phase = "idle"
  BY DEF NoWrite, Write

LEMMA InvalidateSound ==
  ASSUME CacheInv, NEW w \in Writers, Invalidate(w)
  PROVE  CacheInv'
  <1>1. /\ cache' = [k \in Keys |-> IF k \in Invalidated(writer[w]) THEN None ELSE cache[k]]
        /\ writer' = [writer EXCEPT ![w] = NoWrite]
        /\ UNCHANGED <<now, store, lateFills, openUntil, probing, reader, unsure>>
    BY DEF Invalidate, circuit
  <1>2. Invalidated(writer[w]) = Changed(writer[w])
    BY InvalidatedIsChanged DEF CacheInv, WritesSound
  <1>3. SourceSound' /\ UNCHANGED <<version, ended>>
    BY <1>1, SourceStays DEF CacheInv
  <1>4. ReadsSound'
    BY <1>1, <1>3 DEF CacheInv, ReadsSound, Dated
  <1>5. WritesSound' /\ \A x \in Writers : x # w => writer'[x] = writer[x]
    BY <1>1, NoWriteTyped DEF CacheInv, WritesSound
  <1>6. EntriesSound'
    BY <1>1, <1>3 DEF CacheInv, EntriesSound, Dated
  <1>7. TrueEntriesAreDeleted'
    <2> SUFFICES ASSUME NEW k \in Keys
                 PROVE  \/ Cached(k)' = None \/ ~cache'[k].true
                        \/ Cached(k)'.version = version'[k]
                        \/ k \in unsure'
                        \/ \E x \in Writers : writer'[x].phase = "committed"
                                              /\ k \in Changed(writer'[x])
      BY DEF TrueEntriesAreDeleted, Changed
    <2>1. CASE k \in Changed(writer[w])
      BY <1>1, <1>2, <2>1 DEF Cached
    <2>2. CASE k \notin Changed(writer[w])
      <3>1. cache'[k] = cache[k] /\ Cached(k)' = Cached(k)
        BY <1>1, <1>2, <2>2 DEF Cached
      <3> QED
        BY <1>1, <1>3, <1>5, <2>2, <3>1 DEF CacheInv, TrueEntriesAreDeleted
    <2> QED
      BY <2>1, <2>2
  <1> QED
    BY <1>3, <1>4, <1>5, <1>6, <1>7 DEF CacheInv

LEMMA InvalidateFailsSound ==
  ASSUME CacheInv, NEW w \in Writers, InvalidateFails(w)
  PROVE  CacheInv'
  <1>1. /\ writer[w].phase = "committed"
        /\ unsure' = unsure \cup Invalidated(writer[w])
        /\ writer' = [writer EXCEPT ![w] = NoWrite]
        /\ UNCHANGED <<now, store, cache, lateFills, openUntil, probing, reader>>
    BY DEF InvalidateFails, circuit
  <1>2. Invalidated(writer[w]) = Changed(writer[w])
    BY InvalidatedIsChanged DEF CacheInv, WritesSound
  <1>3. SourceSound' /\ UNCHANGED <<version, ended>>
    BY <1>1, SourceStays DEF CacheInv
  <1>4. ReadsSound'
    BY <1>1, <1>3 DEF CacheInv, ReadsSound, Dated
  <1>5. WritesSound' /\ \A x \in Writers : x # w => writer'[x] = writer[x]
    <2>1. Changed(writer[w]) \subseteq Keys
      BY <1>1 DEF CacheInv, WritesSound, Changed, Keys
    <2> QED
      BY <1>1, <1>2, <2>1, NoWriteTyped DEF CacheInv, WritesSound
  <1>6. EntriesSound'
    BY <1>1, <1>3, EntriesStay DEF CacheInv
  <1>7. TrueEntriesAreDeleted'
    <2> SUFFICES ASSUME NEW k \in Keys
                 PROVE  \/ Cached(k)' = None \/ ~cache'[k].true
                        \/ Cached(k)'.version = version'[k]
                        \/ k \in unsure'
                        \/ \E x \in Writers : writer'[x].phase = "committed"
                                              /\ k \in Changed(writer'[x])
      BY DEF TrueEntriesAreDeleted, Changed
    <2>1. CASE k \in Changed(writer[w])
      BY <1>1, <1>2, <2>1
    <2>2. CASE k \notin Changed(writer[w])
      <3>1. cache'[k] = cache[k] /\ Cached(k)' = Cached(k)
        BY <1>1 DEF Cached
      <3> QED
        BY <1>1, <1>3, <1>5, <2>2, <3>1 DEF CacheInv, TrueEntriesAreDeleted
    <2> QED
      BY <2>1, <2>2
  <1> QED
    BY <1>3, <1>4, <1>5, <1>6, <1>7 DEF CacheInv

LEMMA ApplyLateSound ==
  ASSUME CacheInv, NEW c \in lateFills, ApplyLate(c)
  PROVE  CacheInv'
  <1>1. /\ cache' = [cache EXCEPT ![c.key] = Entry(c.key, c.payload, c.life)]
        /\ lateFills' = lateFills \ {c}
        /\ UNCHANGED <<now, store, openUntil, probing, reader, writer, unsure>>
    BY DEF ApplyLate, circuit
  <1>2. c.key \in Keys /\ Dated(c.key, c.payload) /\ c.life \in Nat \ {0}
    BY DEF CacheInv, EntriesSound
  <1>3. SourceSound' /\ UNCHANGED <<version, ended>>
    BY <1>1, SourceStays DEF CacheInv
  <1>4. ReadsSound'
    BY <1>1, <1>3 DEF CacheInv, ReadsSound, Dated
  <1>5. WritesSound'
    BY <1>1 DEF CacheInv, WritesSound
  <1>6. EntriesSound' /\ TrueEntriesAreDeleted'
    BY <1>1, <1>2, FillSound
  <1> QED
    BY <1>3, <1>4, <1>5, <1>6 DEF CacheInv

LEMMA TickSound ==
  ASSUME CacheInv, Tick
  PROVE  CacheInv'
  <1>1. /\ now < MaxTime /\ now' = now + 1
        /\ cache' = [k \in Keys |-> IF cache[k] # None /\ cache[k].expires <= now + 1
                                    THEN None ELSE cache[k]]
        /\ UNCHANGED <<version, ended, menus, items, writes>>
        /\ UNCHANGED <<lateFills, openUntil, probing, reader, writer, unsure>>
    BY DEF Tick, store, circuit
  <1>2. now \in Nat /\ now' \in 0 .. MaxTime
    BY <1>1, CacheBounds DEF CacheInv, SourceSound
  <1>3. SourceSound'
    BY <1>1, <1>2 DEF CacheInv, SourceSound
  <1>4. ASSUME NEW k, NEW p, Dated(k, p)
        PROVE  /\ p \in Payload /\ p.source <= now'
               /\ ended'[k][p.version] = None \/ p.source <= ended'[k][p.version]
    <2>1. p \in Payload /\ p.source \in Nat /\ p.source <= now
      BY <1>4 DEF Dated, Payload
    <2>2. p.source <= now'
      BY <1>1, <1>2, <2>1
    <2> QED
      BY <1>1, <1>4, <2>1, <2>2 DEF Dated
  <1>5. EntriesSound'
    <2>1. ASSUME NEW k \in Keys, cache'[k] # None
          PROVE  /\ Dated(k, cache[k].payload)'
                 /\ cache'[k].expires \in Int /\ now' < cache'[k].expires
      <3>1. cache'[k] = cache[k] /\ cache[k] # None /\ ~(cache[k].expires <= now + 1)
        BY <1>1, <2>1
      <3>2. Dated(k, cache[k].payload) /\ cache[k].expires \in Int
        BY <3>1 DEF CacheInv, EntriesSound
      <3>3. now' < cache'[k].expires
        BY <1>1, <1>2, <3>1, <3>2
      <3>4. Dated(k, cache[k].payload)'
        BY <1>4, <3>1, <3>2 DEF Dated
      <3> QED
        BY <3>1, <3>2, <3>3, <3>4
    <2>2. \A c \in lateFills' :
            c.key \in Keys /\ Dated(c.key, c.payload)' /\ c.life \in Nat \ {0}
      BY <1>1, <1>4 DEF CacheInv, EntriesSound, Dated
    <2> QED
      BY <1>1, <2>1, <2>2 DEF EntriesSound
  <1>6. ReadsSound'
    <2>1. \A r \in Readers :
            reader'[r].phase \in {"read", "attach", "store", "answered"}
               => Dated(reader[r].key, reader[r].payload)'
      BY <1>1, <1>4 DEF CacheInv, ReadsSound, Dated
    <2> QED
      BY <1>1, <2>1 DEF CacheInv, ReadsSound
  <1>7. WritesSound'
    BY <1>1 DEF CacheInv, WritesSound
  <1>8. TrueEntriesAreDeleted'
    <2> SUFFICES ASSUME NEW k \in Keys
                 PROVE  \/ Cached(k)' = None \/ ~cache'[k].true
                        \/ Cached(k)'.version = version'[k]
                        \/ k \in unsure'
                        \/ \E x \in Writers : writer'[x].phase = "committed"
                                              /\ k \in Changed(writer'[x])
      BY DEF TrueEntriesAreDeleted, Changed
    <2>1. CASE cache'[k] = None
      BY <2>1 DEF Cached
    <2>2. CASE cache'[k] # None
      <3>1. cache'[k] = cache[k] /\ Cached(k)' = Cached(k)
        BY <1>1, <2>2 DEF Cached
      <3> QED
        BY <1>1, <3>1 DEF CacheInv, TrueEntriesAreDeleted
    <2> QED
      BY <2>1, <2>2
  <1> QED
    BY <1>3, <1>5, <1>6, <1>7, <1>8 DEF CacheInv

-----------------------------------------------------------------------------
(* The theorems *)

LEMMA CacheInitSound ==
  ASSUME CacheInit
  PROVE  CacheInv
  <1>1. 0 \in 0 .. MaxTime /\ 0 \in 0 .. MaxWrites /\ 0 \in Versions
    BY CacheBounds DEF Versions
  <1>2. SourceSound
    <2>1. menus \subseteq Menus /\ items \in [Menus -> SUBSET Items]
      BY DEF CacheInit
    <2> QED
      BY <1>1, <2>1 DEF CacheInit, SourceSound
  <1>3. EntriesSound
    BY DEF CacheInit, EntriesSound
  <1>4. ReadsSound
    BY NoReadTyped DEF CacheInit, ReadsSound
  <1>5. WritesSound
    BY NoWriteTyped DEF CacheInit, WritesSound
  <1>6. TrueEntriesAreDeleted
    BY DEF CacheInit, TrueEntriesAreDeleted, Cached
  <1> QED
    BY <1>2, <1>3, <1>4, <1>5, <1>6 DEF CacheInv

LEMMA CacheNextSound ==
  ASSUME CacheInv, CacheNext
  PROVE  CacheInv'
  <1>1. CASE \E r \in Readers : ReaderStep(r)
    <2>1. PICK r \in Readers : ReaderStep(r)
      BY <1>1
    <2>2. CASE Lookup(r) \/ LookupMenuItems(r)
      BY <2>2, AnsweredSound DEF Lookup, LookupMenuItems
    <2> QED
      BY <2>1, <2>2, BeginLookupSound, GetFailsSound, CancelReadSound, QuerySound,
         AttachHitSound, AttachReadSound, StoreSound, StoreFailsSound, FinishSound
         DEF ReaderStep
  <1>2. CASE \E w \in Writers : WriterStep(w)
    BY <1>2, MenuChangesSound, ItemChangesSound, InvalidateSound, InvalidateFailsSound
       DEF WriterStep
  <1>3. CASE \E c \in lateFills : ApplyLate(c)
    BY <1>3, ApplyLateSound
  <1>4. CASE Tick
    BY <1>4, TickSound
  <1> QED
    BY <1>1, <1>2, <1>3, <1>4 DEF CacheNext

LEMMA CacheStutters ==
  ASSUME CacheInv, UNCHANGED cacheVars
  PROVE  CacheInv'
  <1>1. UNCHANGED <<now, store, cache, lateFills, openUntil, probing, reader, writer, unsure>>
    BY DEF cacheVars, store
  <1>2. ReadsSound'
    BY <1>1 DEF store, CacheInv, ReadsSound, Dated
  <1> QED
    BY <1>1, <1>2, QuietStep

LEMMA CacheInvHolds == CacheSpec => []CacheInv
  <1>1. CacheInit => CacheInv
    BY CacheInitSound
  <1>2. CacheInv /\ [CacheNext]_cacheVars => CacheInv'
    BY CacheNextSound, CacheStutters
  <1> QED
    BY <1>1, <1>2, PTL DEF CacheSpec

\* At most one reader is the probe.
LEMMA OneProbe ==
  ASSUME CacheInv
  PROVE  ProbeFlagTrue
  <1> DEFINE P == {r \in Readers : reader[r].probe}
  <1>1. Cardinality(P) <= 1
    <2>1. CASE P = {}
      BY <2>1, FS_EmptySet
    <2>2. CASE P # {}
      <3>1. PICK r : r \in P
        BY <2>2
      <3>2. P = {r}
        BY <3>1 DEF CacheInv, ReadsSound
      <3>3. Cardinality({r}) = 1
        BY FS_Singleton
      <3> QED
        BY <3>2, <3>3
    <2> QED
      BY <2>1, <2>2
  <1>2. probing = (\E r \in Readers : reader[r].probe)
    BY DEF CacheInv, ReadsSound
  <1> QED
    BY <1>1, <1>2 DEF ProbeFlagTrue

\* Redis holds what the protocol accounts for: an entry that was true when it landed
\* is deleted by the write that made it false unless that write could not reach
\* Redis (invalidate after the commit), and no probe of the circuit is forgotten
\* (_finish_probe, also when the lookup fails or is cancelled), for any number of
\* menus, readers, writers and late commands.
THEOREM CacheAccountedHolds == CacheSpec => []CacheAccounted
  <1>1. CacheInv => CacheAccounted
    <2> SUFFICES ASSUME CacheInv PROVE CacheAccounted
      OBVIOUS
    <2>1. CacheTypeOK
      BY DEF CacheInv, SourceSound, EntriesSound, ReadsSound, WritesSound, Read, Dated,
             CacheTypeOK
    <2> QED
      BY <2>1, OneProbe DEF CacheInv, CacheAccounted
  <1> QED
    BY <1>1, CacheInvHolds, PTL

\* Only readers move readers.
LEMMA ReadersMove ==
  ASSUME [CacheNext]_cacheVars, reader' # reader
  PROVE  \E r \in Readers : ReaderStep(r)
  <1>1. CacheNext
    BY DEF cacheVars
  <1>2. ASSUME NEW w \in Writers, NEW op, NEW m, Commit(w, op, m)
        PROVE  FALSE
    BY <1>2 DEF Commit
  <1>3. ASSUME NEW w \in Writers, WriterStep(w)
        PROVE  FALSE
    <2>1. CASE \E m \in Menus : CreateMenu(w, m) \/ UpdateMenu(w, m) \/ DeleteMenu(w, m)
      BY <1>2, <2>1 DEF CreateMenu, UpdateMenu, DeleteMenu
    <2>2. CASE \E m \in Menus, i \in Items :
                 CreateMenuItem(w, m, i) \/ UpdateMenuItem(w, m, i) \/ DeleteMenuItem(w, m, i)
      BY <1>2, <2>2 DEF CreateMenuItem, UpdateMenuItem, DeleteMenuItem
    <2>3. CASE Invalidate(w) \/ InvalidateFails(w)
      BY <2>3 DEF Invalidate, InvalidateFails
    <2> QED
      BY <1>3, <2>1, <2>2, <2>3 DEF WriterStep
  <1>4. ASSUME NEW c \in lateFills, ApplyLate(c)
        PROVE  FALSE
    BY <1>4 DEF ApplyLate
  <1>5. ~Tick
    BY DEF Tick
  <1> QED
    BY <1>1, <1>3, <1>4, <1>5 DEF CacheNext

\* Only the lookup of a reader makes a hit, and only of a payload that is dated.
LEMMA HitIsRecent ==
  ASSUME CacheInv, [CacheNext]_cacheVars, NEW r \in Readers,
         reader'[r].hit, ~reader[r].hit
  PROVE  LET end == ended[reader'[r].key][reader'[r].payload.version]
         IN end = None \/ now - end < MaxAge
  <1>1. \A s \in Readers : reader[s] \in Read
    BY DEF CacheInv, ReadsSound
  <1>2. reader' # reader
    BY <1>1
  <1>3. PICK s \in Readers : ReaderStep(s)
    BY <1>2, ReadersMove
  <1>4. ~NoRead.hit /\ \A k, q : ~[NoRead EXCEPT !.key = k, !.probe = q].hit
    BY DEF NoRead
  <1>5. PICK next : s = r /\ Answered(s, next)
    <2>1. reader \in [Readers -> Read]
      BY DEF CacheInv, ReadsSound
    <2>2. CASE \E k \in Keys : BeginLookup(s, k)
      BY <2>1, <2>2 DEF BeginLookup, NoRead, Read
    <2>3. CASE Lookup(s) \/ LookupMenuItems(s)
      <3>1. PICK next : Answered(s, next)
        BY <2>3 DEF Lookup, LookupMenuItems
      <3>2. s = r
        BY <2>1, <3>1 DEF Answered, Read
      <3> QED
        BY <3>1, <3>2
    <2>4. CASE GetFails(s) \/ Query(s)
      BY <2>1, <2>4 DEF GetFails, Query, Read
    <2>5. CASE AttachHit(s)
      BY <2>1, <2>5 DEF AttachHit, NoRead, Read
    <2>6. CASE AttachRead(s)
      BY <2>1, <2>6 DEF AttachRead, NoRead, Read
    <2>7. CASE CancelRead(s) \/ Store(s) \/ StoreFails(s) \/ Finish(s)
      <3>1. reader' = [reader EXCEPT ![s] = NoRead]
        BY <2>7 DEF CancelRead, Store, StoreFails, Finish
      <3> QED
        BY <1>4, <2>1, <3>1 DEF NoRead
    <2> QED
      BY <1>3, <2>2, <2>3, <2>4, <2>5, <2>6, <2>7 DEF ReaderStep
  <1>6. PICK k, p : k = reader[r].key /\ p = Cached(k)
    OBVIOUS
  <1>7. /\ reader'[r].hit = ValidPayload(p) /\ reader'[r].key = k
        /\ ValidPayload(p) => reader'[r].payload = p
    BY <1>1, <1>5, <1>6 DEF Answered, CacheInv, ReadsSound, Read
  <1>8. k \in Keys
    BY <1>1, <1>6 DEF Read
  <1>9. Dated(k, p) /\ now - p.source < MaxAge
    BY <1>6, <1>7, <1>8, ValidIsDated
  <1>10. PICK end : end = ended[k][p.version]
    OBVIOUS
  <1>11. p.version \in Versions /\ p.source \in Nat /\ now \in Nat
    BY <1>9, CacheBounds DEF Dated, Payload, CacheInv, SourceSound
  <1>12. end = None \/ end \in Nat
    <2>1. end \in {None} \cup 0 .. MaxTime
      BY <1>8, <1>10, <1>11 DEF CacheInv, SourceSound
    <2> QED
      BY <2>1, CacheBounds
  <1>13. end = None \/ p.source <= end
    BY <1>9, <1>10 DEF Dated
  <1>14. end = None \/ now - end < MaxAge
    BY <1>9, <1>11, <1>12, <1>13, CacheBounds
  <1> QED
    BY <1>7, <1>9, <1>10, <1>14, ValidIsDated DEF Answered

\* A reader leaves "attach" with an answer only when every item is there.
LEMMA HitIsAttached ==
  ASSUME CacheInv, [CacheNext]_cacheVars, NEW r \in Readers,
         reader[r].phase = "attach", reader'[r].phase = "idle"
  PROVE  reader[r].payload.items \subseteq items[reader[r].key]
  <1>1. reader \in [Readers -> Read]
    BY DEF CacheInv, ReadsSound
  <1>2. reader' # reader
    BY <1>1
  <1>3. PICK s \in Readers : ReaderStep(s)
    BY <1>2, ReadersMove
  <1>4. \E n : reader' = [reader EXCEPT ![s] = n]
    BY <1>1, <1>3 DEF ReaderStep, BeginLookup, Lookup, LookupMenuItems, Answered, GetFails,
                      CancelRead, Query, AttachHit, AttachRead, Store, StoreFails, Finish
  <1>5. s = r
    BY <1>1, <1>4
  <1>6. AttachHit(r)
    BY <1>3, <1>5 DEF ReaderStep, BeginLookup, Lookup, LookupMenuItems, Answered, GetFails,
                      CancelRead, Query, AttachRead, Store, StoreFails, Finish
  <1>7. Attached(r)
    BY <1>1, <1>6 DEF AttachHit, Read
  <1> QED
    BY <1>7 DEF Attached

\* What the cache answers was true less than MaxAge ago, also when an old fill lands
\* after a write and its invalidation (_valid_payload checks the age again), and it
\* names no item that is gone when the answer is put together (for_menu_items).
THEOREM AnswersAreRecentHolds == CacheSpec => AnswersAreRecent
  <1>1. CacheInv /\ [CacheNext]_cacheVars =>
          [\A r \in Readers :
             reader'[r].hit /\ ~reader[r].hit =>
                LET end == ended[reader'[r].key][reader'[r].payload.version]
                IN end = None \/ now - end < MaxAge]_cacheVars
    BY HitIsRecent
  <1>2. CacheInv /\ [CacheNext]_cacheVars =>
          [\A r \in Readers :
             reader[r].phase = "attach" /\ reader'[r].phase = "idle" =>
                reader[r].payload.items \subseteq items[reader[r].key]]_cacheVars
    BY HitIsAttached
  <1>3. CacheSpec => BoundedStaleness
    BY <1>1, CacheInvHolds, PTL DEF CacheSpec, BoundedStaleness
  <1>4. CacheSpec => NoDeletedItems
    BY <1>2, CacheInvHolds, PTL DEF CacheSpec, NoDeletedItems
  <1> QED
    BY <1>3, <1>4 DEF AnswersAreRecent

(***************************************************************************)
(* The limiter of sign-in requests                                         *)
(***************************************************************************)
-----------------------------------------------------------------------------
(* The inductive invariant *)

Counted(s) == s \in Bucket /\ IsFiniteSet(s.failures) /\ IsFiniteSet(s.reservations)

\* The sorted sets of Redis.
RedisHeld(red) ==
    /\ red \in [Buckets -> Bucket]
    /\ \A b \in Buckets : Counted(red[b]) /\ Size(red[b]) <= Maximum[b]

\* The buckets of the process; a request reserves in its own buckets only.
LocalHeld(loc) ==
    /\ loc \in [Buckets -> Bucket]
    /\ \A b \in Buckets : Counted(loc[b]) /\ Size(loc[b]) <= LocalMaximum[b]
    /\ IsFiniteSet(Entries(loc)) /\ Cardinality(Entries(loc)) <= MaxEntries
    /\ \A b \in Buckets : \A r \in loc[b].reservations : b \in BucketsOf[r]

Commands == {"admit", "count", "release", "discard"}

RequestsTyped ==
    /\ req \in [Requests -> Request]
    /\ late \subseteq Requests \X Commands

NoneLate(r, lt) == \A command \in Commands : <<r, command>> \notin lt

\* Request r, as n says: while it may still count in Redis, its reservation is there
\* and no command of it is left that could remove it.
PlaceKept(r, n, lt, red) ==
    /\ n.phase \in {"idle", "probing", "admitting"} => NoneLate(r, lt)
    /\ n.phase = "admitting" => ~n.undo
    /\ n.phase \in {"granted", "finalizing"} /\ n.backend = "redis" /\ ~n.undo =>
         NoneLate(r, lt) /\ \A b \in BucketsOf[r] : r \in red[b].reservations
    /\ n.phase = "finalizing" => n.backend = "redis" /\ (n.count => ~n.undo)

PlacesKept == \A r \in Requests : PlaceKept(r, req[r], late, redis)

ModeTyped ==
    /\ mode \in [degraded: BOOLEAN, probing: BOOLEAN, due: BOOLEAN,
                 successes: 0 .. StableProbes, generation: 0 .. MaxGeneration]
    /\ clean \in Nat

\* A probe that saw no new generation saw no failure.
ProbeSound(n) ==
    n.phase = "probing" =>
        /\ mode.probing /\ mode.degraded
        /\ n.seen <= mode.generation
        /\ n.seen = mode.generation => n.unharmed

ProbesSound ==
    /\ \A r \in Requests : ProbeSound(req[r])
    /\ \A r, q \in Requests : req[r].phase = "probing" /\ req[q].phase = "probing" => r = q
    /\ mode.degraded => mode.successes < StableProbes
    /\ mode.successes <= clean

LimiterInv ==
    /\ RequestsTyped /\ ModeTyped
    /\ LocalHeld(local) /\ NoReservationLeaks
    /\ RedisHeld(redis)
    /\ PlacesKept
    /\ ProbesSound

-----------------------------------------------------------------------------
(* The size of a bucket *)

LEMMA CountsAreNat ==
  ASSUME NEW s, Counted(s)
  PROVE  /\ Cardinality(s.failures) \in Nat /\ Cardinality(s.reservations) \in Nat
         /\ Size(s) \in Nat
  BY FS_CardinalityType DEF Counted, Size

\* A reservation adds at most one.
LEMMA ReservingAddsOne ==
  ASSUME NEW s, Counted(s), NEW r \in Requests
  PROVE  /\ Counted([s EXCEPT !.reservations = @ \cup {r}])
         /\ Size([s EXCEPT !.reservations = @ \cup {r}]) <= Size(s) + 1
  <1> DEFINE t == [s EXCEPT !.reservations = @ \cup {r}]
  <1>1. t \in Bucket /\ t.failures = s.failures /\ t.reservations = s.reservations \cup {r}
    BY DEF Counted, Bucket
  <1>2. /\ IsFiniteSet(s.reservations \cup {r})
        /\ Cardinality(s.reservations \cup {r}) <= Cardinality(s.reservations) + 1
    <2>1. IsFiniteSet(s.reservations) /\ Cardinality(s.reservations) \in Nat
      BY CountsAreNat DEF Counted
    <2> QED
      BY <2>1, FS_AddElement
  <1> HIDE DEF t
  <1>3. Counted(t)
    BY <1>1, <1>2 DEF Counted
  <1>4. Cardinality(s.reservations \cup {r}) \in Nat
    BY <1>2, FS_CardinalityType
  <1> QED
    BY <1>1, <1>2, <1>3, <1>4, CountsAreNat DEF Size, t

\* A reservation that goes, and becomes at most one failure, adds nothing.
LEMMA FinalizingAddsNone ==
  ASSUME NEW s, Counted(s), NEW r \in Requests,
         NEW F, F \subseteq s.failures \cup (s.reservations \cap {r})
  PROVE  /\ Counted([reservations |-> s.reservations \ {r}, failures |-> F])
         /\ Size([reservations |-> s.reservations \ {r}, failures |-> F]) <= Size(s)
  <1> DEFINE t == [reservations |-> s.reservations \ {r}, failures |-> F]
  <1>1. /\ s.failures \subseteq Requests /\ s.reservations \subseteq Requests
        /\ IsFiniteSet(s.failures) /\ IsFiniteSet(s.reservations)
    BY DEF Counted, Bucket
  <1>2. t \in Bucket /\ t.failures = F /\ t.reservations = s.reservations \ {r}
    BY <1>1 DEF Bucket
  <1>3. IsFiniteSet(s.reservations \ {r})
    BY <1>1, FS_Subset
  <1>4. CASE r \in s.reservations
    <2>1. /\ IsFiniteSet(s.failures \cup {r})
          /\ Cardinality(s.failures \cup {r}) <= Cardinality(s.failures) + 1
      <3>1. IsFiniteSet(s.failures) /\ Cardinality(s.failures) \in Nat
        BY <1>1, FS_CardinalityType
      <3> QED
        BY <3>1, FS_AddElement
    <2>2. F \subseteq s.failures \cup {r}
      OBVIOUS
    <2>3. IsFiniteSet(F) /\ Cardinality(F) <= Cardinality(s.failures \cup {r})
      BY <2>1, <2>2, FS_Subset
    <2>4. Cardinality(s.reservations \ {r}) = Cardinality(s.reservations) - 1
      BY <1>1, <1>4, FS_RemoveElement
    <2>5. /\ Cardinality(F) \in Nat /\ Cardinality(s.failures \cup {r}) \in Nat
          /\ Cardinality(s.failures) \in Nat /\ Cardinality(s.reservations) \in Nat
          /\ Cardinality(s.reservations \ {r}) \in Nat
      BY <1>1, <1>3, <2>1, <2>3, FS_CardinalityType
    <2>6. Cardinality(F) + Cardinality(s.reservations \ {r})
            <= Cardinality(s.failures) + Cardinality(s.reservations)
      BY <2>1, <2>3, <2>4, <2>5
    <2> QED
      BY <1>2, <1>3, <2>3, <2>6 DEF Counted, Size
  <1>5. CASE r \notin s.reservations
    <2>1. F \subseteq s.failures /\ s.reservations \ {r} = s.reservations
      BY <1>5
    <2>2. IsFiniteSet(F) /\ Cardinality(F) <= Cardinality(s.failures)
      BY <1>1, <2>1, FS_Subset
    <2>3. /\ Cardinality(F) \in Nat /\ Cardinality(s.failures) \in Nat
          /\ Cardinality(s.reservations) \in Nat
      BY <1>1, <2>2, FS_CardinalityType
    <2>4. Cardinality(F) + Cardinality(s.reservations)
            <= Cardinality(s.failures) + Cardinality(s.reservations)
      BY <2>2, <2>3
    <2> QED
      BY <1>2, <1>3, <2>1, <2>2, <2>4 DEF Counted, Size
  <1> QED
    BY <1>4, <1>5

\* A bucket that only loses members does not grow.
LEMMA LosingAddsNone ==
  ASSUME NEW s, Counted(s), NEW t \in Bucket,
         t.failures \subseteq s.failures, t.reservations \subseteq s.reservations
  PROVE  Counted(t) /\ Size(t) <= Size(s)
  <1>1. /\ IsFiniteSet(t.failures) /\ Cardinality(t.failures) <= Cardinality(s.failures)
        /\ IsFiniteSet(t.reservations)
        /\ Cardinality(t.reservations) <= Cardinality(s.reservations)
    BY FS_Subset DEF Counted
  <1>2. /\ Cardinality(t.failures) \in Nat /\ Cardinality(s.failures) \in Nat
        /\ Cardinality(t.reservations) \in Nat /\ Cardinality(s.reservations) \in Nat
    BY <1>1, FS_CardinalityType DEF Counted
  <1> QED
    BY <1>1, <1>2 DEF Counted, Size

-----------------------------------------------------------------------------
(* The scripts of Redis *)

\* ADMIT keeps every limit, and gives the request its reservations or nothing.
LEMMA AdmittedHeld ==
  ASSUME RedisHeld(redis), NEW r \in Requests
  PROVE  /\ RedisHeld(Admitted(r))
         /\ \A b \in Buckets : redis[b].reservations \subseteq Admitted(r)[b].reservations
         /\ ~AdmitRefuses(r) =>
              \A b \in BucketsOf[r] : r \in Admitted(r)[b].reservations
  <1>1. CASE AdmitRefuses(r)
    BY <1>1 DEF Admitted
  <1>2. CASE ~AdmitRefuses(r)
    <2>1. Admitted(r) = [b \in Buckets |->
            IF b \in BucketsOf[r] THEN [redis[b] EXCEPT !.reservations = @ \cup {r}]
            ELSE redis[b]]
      BY <1>2 DEF Admitted
    <2>2. ASSUME NEW b \in Buckets
          PROVE  /\ Admitted(r)[b] \in Bucket
                 /\ Counted(Admitted(r)[b]) /\ Size(Admitted(r)[b]) <= Maximum[b]
                 /\ redis[b].reservations \subseteq Admitted(r)[b].reservations
                 /\ b \in BucketsOf[r] => r \in Admitted(r)[b].reservations
      <3>1. Counted(redis[b]) /\ Size(redis[b]) <= Maximum[b] /\ redis[b] \in Bucket
        BY DEF RedisHeld
      <3>2. CASE b \in BucketsOf[r]
        <4>1. Admitted(r)[b] = [redis[b] EXCEPT !.reservations = @ \cup {r}]
          BY <2>1, <3>2
        <4>2. ~(Size(redis[b]) >= Maximum[b])
          BY <1>2, <3>2 DEF AdmitRefuses
        <4>3. Counted(Admitted(r)[b]) /\ Size(Admitted(r)[b]) <= Size(redis[b]) + 1
          BY <3>1, <4>1, ReservingAddsOne
        <4>4. Size(redis[b]) \in Nat /\ Size(Admitted(r)[b]) \in Nat /\ Maximum[b] \in Nat
          BY <3>1, <4>3, CountsAreNat, LimitsAssumption
        <4>5. Size(Admitted(r)[b]) <= Maximum[b]
          BY <4>2, <4>3, <4>4
        <4>6. Admitted(r)[b].reservations = redis[b].reservations \cup {r}
          BY <3>1, <4>1 DEF Bucket
        <4> QED
          BY <4>3, <4>5, <4>6 DEF Counted
      <3>3. CASE b \notin BucketsOf[r]
        <4>1. Admitted(r)[b] = redis[b]
          BY <2>1, <3>3
        <4> QED
          BY <3>1, <3>3, <4>1
      <3> QED
        BY <3>2, <3>3
    <2>3. BucketsOf[r] \subseteq Buckets
      BY BucketsAssumption
    <2>4. Admitted(r) \in [Buckets -> Bucket]
      BY <2>1, <2>2
    <2> QED
      BY <2>2, <2>3, <2>4 DEF RedisHeld
  <1> QED
    BY <1>1, <1>2

\* FINALIZE keeps every limit, removes no reservation but its own, and counts it if
\* it was there.
LEMMA FinalizedHeld ==
  ASSUME RedisHeld(redis), NEW r \in Requests, NEW count \in BOOLEAN, NEW discard \in BOOLEAN
  PROVE  /\ RedisHeld(Finalized(r, count, discard))
         /\ \A b \in Buckets :
              redis[b].reservations \ {r} \subseteq Finalized(r, count, discard)[b].reservations
         /\ \A b \in BucketsOf[r] :
              count /\ r \in redis[b].reservations
                 => r \in Finalized(r, count, discard)[b].failures
  <1> DEFINE red == Finalized(r, count, discard)
             F(b) == (IF discard THEN redis[b].failures \ {r} ELSE redis[b].failures)
                        \cup (IF count THEN redis[b].reservations \cap {r} ELSE {})
  <1>1. red = [b \in Buckets |->
                 IF b \notin BucketsOf[r] THEN redis[b]
                 ELSE [reservations |-> redis[b].reservations \ {r}, failures |-> F(b)]]
    BY DEF Finalized
  <1>2. \A b \in Buckets : F(b) \subseteq redis[b].failures \cup (redis[b].reservations \cap {r})
    OBVIOUS
  <1>3. \A b \in Buckets : count /\ r \in redis[b].reservations => r \in F(b)
    OBVIOUS
  <1> HIDE DEF red, F
  <1>4. ASSUME NEW b \in Buckets
        PROVE  /\ red[b] \in Bucket /\ Counted(red[b]) /\ Size(red[b]) <= Maximum[b]
               /\ redis[b].reservations \ {r} \subseteq red[b].reservations
               /\ b \in BucketsOf[r] => red[b].failures = F(b)
    <2>1. Counted(redis[b]) /\ Size(redis[b]) <= Maximum[b] /\ redis[b] \in Bucket
      BY DEF RedisHeld
    <2>2. CASE b \notin BucketsOf[r]
      <3>1. red[b] = redis[b]
        BY <1>1, <2>2
      <3> QED
        BY <2>1, <2>2, <3>1
    <2>3. CASE b \in BucketsOf[r]
      <3>1. red[b] = [reservations |-> redis[b].reservations \ {r}, failures |-> F(b)]
        BY <1>1, <2>3
      <3>2. Counted(red[b]) /\ Size(red[b]) <= Size(redis[b])
        BY <1>2, <2>1, <3>1, FinalizingAddsNone
      <3>3. Size(redis[b]) \in Nat /\ Size(red[b]) \in Nat /\ Maximum[b] \in Nat
        BY <2>1, <3>2, CountsAreNat, LimitsAssumption
      <3>4. Size(red[b]) <= Maximum[b]
        BY <2>1, <3>2, <3>3
      <3> QED
        BY <3>1, <3>2, <3>4 DEF Counted
    <2> QED
      BY <2>2, <2>3
  <1>5. BucketsOf[r] \subseteq Buckets
    BY BucketsAssumption
  <1>6. red \in [Buckets -> Bucket]
    BY <1>1, <1>4
  <1> QED
    BY <1>3, <1>4, <1>5, <1>6 DEF RedisHeld, red

-----------------------------------------------------------------------------
(* The memory of the process *)

\* An admission in memory keeps every limit and reserves for r only.
LEMMA LocalAdmittedHeld ==
  ASSUME NEW loc, LocalHeld(loc), NEW r \in Requests, NEW guard \in BOOLEAN,
         ~LocalRefuses(r, guard, loc)
  PROVE  /\ LocalHeld(LocalAdmitted(r, guard, loc))
         /\ \A b \in Buckets :
              LocalAdmitted(r, guard, loc)[b].reservations \subseteq loc[b].reservations \cup {r}
         /\ \A b \in Buckets :
              /\ LocalAdmitted(r, guard, loc)[b].failures = loc[b].failures
              /\ b \in Tracked(r, guard, loc)
                   => r \in LocalAdmitted(r, guard, loc)[b].reservations
  <1> DEFINE T == Tracked(r, guard, loc)
             new == LocalAdmitted(r, guard, loc)
  <1>1. new = [b \in Buckets |->
                 IF b \in T THEN [loc[b] EXCEPT !.reservations = @ \cup {r}] ELSE loc[b]]
    BY DEF LocalAdmitted
  <1>2. T \subseteq BucketsOf[r] /\ BucketsOf[r] \subseteq Buckets /\ IsFiniteSet(BucketsOf[r])
    BY BucketsAssumption DEF Tracked
  <1>3. /\ \A b \in T : ~(Size(loc[b]) >= LocalMaximum[b])
        /\ ~(Cardinality(Entries(loc) \cup T) > MaxEntries)
    BY DEF LocalRefuses
  <1> HIDE DEF new, T
  <1>4. ASSUME NEW b \in Buckets
        PROVE  /\ new[b] \in Bucket /\ Counted(new[b]) /\ Size(new[b]) <= LocalMaximum[b]
               /\ new[b].failures = loc[b].failures
               /\ new[b].reservations = loc[b].reservations \cup (IF b \in T THEN {r} ELSE {})
    <2>1. Counted(loc[b]) /\ Size(loc[b]) <= LocalMaximum[b] /\ loc[b] \in Bucket
      BY DEF LocalHeld
    <2>2. CASE b \in T
      <3>1. new[b] = [loc[b] EXCEPT !.reservations = @ \cup {r}]
        BY <1>1, <2>2
      <3>2. Counted(new[b]) /\ Size(new[b]) <= Size(loc[b]) + 1
        BY <2>1, <3>1, ReservingAddsOne
      <3>3. Size(loc[b]) \in Nat /\ Size(new[b]) \in Nat /\ LocalMaximum[b] \in Nat
        BY <2>1, <3>2, CountsAreNat, LimitsAssumption
      <3>4. Size(new[b]) <= LocalMaximum[b]
        BY <1>3, <2>2, <3>2, <3>3
      <3>5. /\ new[b].failures = loc[b].failures
            /\ new[b].reservations = loc[b].reservations \cup {r}
        BY <2>1, <3>1 DEF Bucket
      <3> QED
        BY <2>2, <3>2, <3>4, <3>5 DEF Counted
    <2>3. CASE b \notin T
      <3>1. new[b] = loc[b]
        BY <1>1, <2>3
      <3> QED
        BY <2>1, <2>3, <3>1
    <2> QED
      BY <2>2, <2>3
  <1>5. Entries(new) \subseteq Entries(loc) \cup T
    BY <1>4 DEF Entries, Members
  <1>6. IsFiniteSet(Entries(new)) /\ Cardinality(Entries(new)) <= MaxEntries
    <2>1. IsFiniteSet(T) /\ IsFiniteSet(Entries(loc))
      BY <1>2, FS_Subset DEF LocalHeld
    <2>2. IsFiniteSet(Entries(loc) \cup T)
      BY <2>1, FS_Union
    <2>3. /\ IsFiniteSet(Entries(new))
          /\ Cardinality(Entries(new)) <= Cardinality(Entries(loc) \cup T)
      BY <1>5, <2>2, FS_Subset
    <2>4. /\ Cardinality(Entries(new)) \in Nat /\ Cardinality(Entries(loc) \cup T) \in Nat
          /\ MaxEntries \in Nat
      BY <2>2, <2>3, FS_CardinalityType, LimitsAssumption
    <2> QED
      BY <1>3, <2>3, <2>4
  <1>7. new \in [Buckets -> Bucket]
    BY <1>1, <1>4
  <1>8. ASSUME NEW b \in Buckets, NEW q \in new[b].reservations
        PROVE  b \in BucketsOf[q]
    <2>1. q \in loc[b].reservations \/ (b \in T /\ q = r)
      BY <1>4
    <2> QED
      BY <1>2, <2>1 DEF LocalHeld
  <1>9. LocalHeld(new)
    BY <1>4, <1>6, <1>7, <1>8 DEF LocalHeld
  <1>10. \A b \in Buckets : /\ new[b].reservations \subseteq loc[b].reservations \cup {r}
                            /\ new[b].failures = loc[b].failures
                            /\ b \in T => r \in new[b].reservations
    BY <1>4
  <1> QED
    BY <1>9, <1>10 DEF new, T

\* A finalization in memory keeps every limit and leaves r no reservation.
LEMMA LocalFinalizedHeld ==
  ASSUME NEW loc, LocalHeld(loc), NEW r \in Requests,
         NEW count \in BOOLEAN, NEW discard \in BOOLEAN
  PROVE  /\ LocalHeld(LocalFinalized(r, count, discard, loc))
         /\ \A b \in Buckets :
              LocalFinalized(r, count, discard, loc)[b].reservations = loc[b].reservations \ {r}
         /\ \A b \in BucketsOf[r] :
              count /\ ~discard /\ r \in loc[b].failures \cup loc[b].reservations
                 => r \in LocalFinalized(r, count, discard, loc)[b].failures
  <1> DEFINE new == LocalFinalized(r, count, discard, loc)
             F(b) == (IF discard THEN loc[b].failures \ {r} ELSE loc[b].failures)
                        \cup (IF count THEN loc[b].reservations \cap {r} ELSE {})
  <1>1. new = [b \in Buckets |->
                 IF b \notin BucketsOf[r] THEN loc[b]
                 ELSE [reservations |-> loc[b].reservations \ {r}, failures |-> F(b)]]
    BY DEF LocalFinalized
  <1>2. \A b \in Buckets : F(b) \subseteq loc[b].failures \cup (loc[b].reservations \cap {r})
    OBVIOUS
  <1>3. \A b \in Buckets :
          count /\ ~discard /\ r \in loc[b].failures \cup loc[b].reservations => r \in F(b)
    OBVIOUS
  <1> HIDE DEF new, F
  <1>4. ASSUME NEW b \in Buckets
        PROVE  /\ new[b] \in Bucket /\ Counted(new[b]) /\ Size(new[b]) <= LocalMaximum[b]
               /\ new[b].reservations = loc[b].reservations \ {r}
               /\ Members(new[b]) \subseteq Members(loc[b])
               /\ b \in BucketsOf[r] => new[b].failures = F(b)
    <2>1. Counted(loc[b]) /\ Size(loc[b]) <= LocalMaximum[b] /\ loc[b] \in Bucket
      BY DEF LocalHeld
    <2>2. CASE b \notin BucketsOf[r]
      <3>1. new[b] = loc[b]
        BY <1>1, <2>2
      <3>2. r \notin loc[b].reservations
        BY <2>2 DEF LocalHeld
      <3> QED
        BY <2>1, <2>2, <3>1, <3>2
    <2>3. CASE b \in BucketsOf[r]
      <3>1. new[b] = [reservations |-> loc[b].reservations \ {r}, failures |-> F(b)]
        BY <1>1, <2>3
      <3>2. Counted(new[b]) /\ Size(new[b]) <= Size(loc[b])
        BY <1>2, <2>1, <3>1, FinalizingAddsNone
      <3>3. Size(loc[b]) \in Nat /\ Size(new[b]) \in Nat /\ LocalMaximum[b] \in Nat
        BY <2>1, <3>2, CountsAreNat, LimitsAssumption
      <3>4. Size(new[b]) <= LocalMaximum[b]
        BY <2>1, <3>2, <3>3
      <3>5. Members(new[b]) \subseteq Members(loc[b])
        BY <1>2, <3>1 DEF Members
      <3> QED
        BY <3>1, <3>2, <3>4, <3>5 DEF Counted
    <2> QED
      BY <2>2, <2>3
  <1>5. Entries(new) \subseteq Entries(loc)
    BY <1>4 DEF Entries
  <1>6. IsFiniteSet(Entries(new)) /\ Cardinality(Entries(new)) <= MaxEntries
    <2>1. /\ IsFiniteSet(Entries(new)) /\ IsFiniteSet(Entries(loc))
          /\ Cardinality(Entries(new)) <= Cardinality(Entries(loc))
          /\ Cardinality(Entries(loc)) <= MaxEntries
      BY <1>5, FS_Subset DEF LocalHeld
    <2>2. /\ Cardinality(Entries(new)) \in Nat /\ Cardinality(Entries(loc)) \in Nat
          /\ MaxEntries \in Nat
      BY <2>1, FS_CardinalityType, LimitsAssumption
    <2> QED
      BY <2>1, <2>2
  <1>7. new \in [Buckets -> Bucket]
    BY <1>1, <1>4
  <1>8. \A b \in Buckets : \A q \in new[b].reservations : b \in BucketsOf[q]
    BY <1>4 DEF LocalHeld
  <1>9. LocalHeld(new)
    BY <1>4, <1>6, <1>7, <1>8 DEF LocalHeld
  <1>10. BucketsOf[r] \subseteq Buckets
    BY BucketsAssumption
  <1>11. \A b \in BucketsOf[r] :
           count /\ ~discard /\ r \in loc[b].failures \cup loc[b].reservations
              => r \in new[b].failures
    BY <1>3, <1>4, <1>10
  <1>12. \A b \in Buckets : new[b].reservations = loc[b].reservations \ {r}
    BY <1>4
  <1> QED
    BY <1>9, <1>11, <1>12 DEF new

\* A release in memory.
LEMMA LocalReleaseHeld ==
  ASSUME NEW loc, LocalHeld(loc), NEW r \in Requests
  PROVE  /\ LocalHeld(LocalFinalized(r, FALSE, FALSE, loc))
         /\ \A b \in Buckets :
              LocalFinalized(r, FALSE, FALSE, loc)[b].reservations = loc[b].reservations \ {r}
  <1>1. PICK count \in BOOLEAN, discard \in BOOLEAN : count = FALSE /\ discard = FALSE
    OBVIOUS
  <1>2. /\ LocalHeld(LocalFinalized(r, count, discard, loc))
        /\ \A b \in Buckets :
             LocalFinalized(r, count, discard, loc)[b].reservations = loc[b].reservations \ {r}
    BY LocalFinalizedHeld
  <1> QED
    BY <1>1, <1>2

\* The conservative count keeps every limit, and counts where there is room.
LEMMA CountedLocallyHeld ==
  ASSUME LocalHeld(local), NEW r \in Requests,
         \A b \in Buckets : r \notin local[b].reservations
  PROVE  /\ LocalHeld(CountedLocally(r))
         /\ \A b \in Buckets : CountedLocally(r)[b].reservations \subseteq local[b].reservations
         /\ req[r].count /\ ~LocalRefuses(r, FALSE, local) =>
              \A b \in BucketsOf[r] : r \in CountedLocally(r)[b].failures
  <1>1. CASE ~req[r].count \/ LocalRefuses(r, FALSE, local)
    BY <1>1 DEF CountedLocally
  <1>2. CASE req[r].count /\ ~LocalRefuses(r, FALSE, local)
    <2>1. PICK loc : loc = LocalAdmitted(r, FALSE, local)
      OBVIOUS
    <2>2. CountedLocally(r) = LocalFinalized(r, TRUE, FALSE, loc)
      BY <1>2, <2>1 DEF CountedLocally
    <2>3. LocalHeld(loc)
      BY <1>2, <2>1, LocalAdmittedHeld
    <2>4. \A b \in Buckets : /\ loc[b].reservations \subseteq local[b].reservations \cup {r}
                             /\ loc[b].failures = local[b].failures
                             /\ b \in Tracked(r, FALSE, local) => r \in loc[b].reservations
      <3>1. /\ \A b \in Buckets : LocalAdmitted(r, FALSE, local)[b].reservations
                                      \subseteq local[b].reservations \cup {r}
            /\ \A b \in Buckets :
                 /\ LocalAdmitted(r, FALSE, local)[b].failures = local[b].failures
                 /\ b \in Tracked(r, FALSE, local)
                      => r \in LocalAdmitted(r, FALSE, local)[b].reservations
        BY <1>2, LocalAdmittedHeld
      <3> QED
        BY <2>1, <3>1
    <2>5. BucketsOf[r] \subseteq Buckets
      BY BucketsAssumption
    <2>6. \A b \in BucketsOf[r] : r \in loc[b].failures \cup loc[b].reservations
      BY <2>4, <2>5 DEF Tracked
    <2>7. /\ LocalHeld(LocalFinalized(r, TRUE, FALSE, loc))
          /\ \A b \in Buckets : LocalFinalized(r, TRUE, FALSE, loc)[b].reservations
                                  = loc[b].reservations \ {r}
          /\ \A b \in BucketsOf[r] : r \in LocalFinalized(r, TRUE, FALSE, loc)[b].failures
      <3>1. LocalHeld(LocalFinalized(r, TRUE, FALSE, loc))
        BY <2>3, LocalFinalizedHeld
      <3>3. \A b \in Buckets : LocalFinalized(r, TRUE, FALSE, loc)[b].reservations
                                = loc[b].reservations \ {r}
        <4>1. PICK count \in BOOLEAN, discard \in BOOLEAN : count = TRUE /\ discard = FALSE
          OBVIOUS
        <4>2. \A b \in Buckets : LocalFinalized(r, count, discard, loc)[b].reservations
                                  = loc[b].reservations \ {r}
          BY <2>3, LocalFinalizedHeld
        <4> QED
          BY <4>1, <4>2
      <3>2. \A b \in BucketsOf[r] :
              TRUE /\ ~FALSE /\ r \in loc[b].failures \cup loc[b].reservations
                 => r \in LocalFinalized(r, TRUE, FALSE, loc)[b].failures
        BY <2>3, LocalFinalizedHeld
      <3> QED
        BY <2>6, <3>1, <3>2, <3>3
    <2> QED
      BY <2>2, <2>4, <2>7
  <1> QED
    BY <1>1, <1>2

-----------------------------------------------------------------------------
(* Requests move one at a time *)

\* Request r becomes n; the others stay, or learn of a failure.
Moves(r, n) ==
    /\ req' \in [Requests -> Request]
    /\ req'[r] = n
    /\ \A q \in Requests : q # r =>
         req'[q] = req[q] \/ req'[q] = [req[q] EXCEPT !.unharmed = FALSE]

LEMMA MovesOne ==
  ASSUME RequestsTyped, NEW r \in Requests, NEW n \in Request,
         req' = [req EXCEPT ![r] = n] \/ req' = Harmed(r, n)
  PROVE  Moves(r, n)
  <1>1. \A q \in Requests : [req[q] EXCEPT !.unharmed = FALSE] \in Request
    BY DEF RequestsTyped, Request
  <1> QED
    BY <1>1 DEF RequestsTyped, Harmed, Moves

LEMMA OthersKeep ==
  ASSUME RequestsTyped, NEW r \in Requests, NEW n, Moves(r, n),
         NEW q \in Requests, q # r
  PROVE  /\ req'[q].phase = req[q].phase /\ req'[q].backend = req[q].backend
         /\ req'[q].count = req[q].count /\ req'[q].undo = req[q].undo
         /\ req'[q].seen = req[q].seen
  BY DEF RequestsTyped, Moves, Request

\* Reservations in memory after r moved.
LEMMA LeaksMove ==
  ASSUME RequestsTyped, NoReservationLeaks, NEW r \in Requests, NEW n, Moves(r, n),
         \A b \in Buckets : local'[b].reservations \subseteq local[b].reservations \cup {r},
         \A b \in Buckets : r \in local'[b].reservations => n.phase \in {"admitting", "granted"}
  PROVE  NoReservationLeaks'
  <1> SUFFICES ASSUME NEW q \in Requests, NEW b \in Buckets, q \in local'[b].reservations
               PROVE  req'[q].phase \in {"admitting", "granted"}
    BY DEF NoReservationLeaks
  <1>1. CASE q = r
    BY <1>1 DEF Moves
  <1>2. CASE q # r
    <2>1. q \in local[b].reservations
      BY <1>2
    <2> QED
      BY <1>2, <2>1, OthersKeep DEF NoReservationLeaks
  <1> QED
    BY <1>1, <1>2

\* Places in Redis after r moved: the others' reservations and commands are as before.
LEMMA PlacesMove ==
  ASSUME RequestsTyped, PlacesKept, NEW r \in Requests, NEW n, Moves(r, n),
         PlaceKept(r, n, late', redis'),
         \A q \in Requests, command \in Commands :
            q # r /\ <<q, command>> \in late' => <<q, command>> \in late,
         \A b \in Buckets : redis[b].reservations \ {r} \subseteq redis'[b].reservations
  PROVE  PlacesKept'
  <1> SUFFICES ASSUME NEW q \in Requests
               PROVE  PlaceKept(q, req'[q], late', redis')
    BY DEF PlacesKept
  <1>1. CASE q = r
    BY <1>1 DEF Moves
  <1>2. CASE q # r
    <2>1. PlaceKept(q, req[q], late, redis)
      BY DEF PlacesKept
    <2>2. NoneLate(q, late) => NoneLate(q, late')
      BY <1>2 DEF NoneLate
    <2>3. BucketsOf[q] \subseteq Buckets
      BY BucketsAssumption
    <2>4. \A b \in Buckets : q \in redis[b].reservations => q \in redis'[b].reservations
      BY <1>2
    <2> QED
      BY <1>2, <2>1, <2>2, <2>3, <2>4, OthersKeep DEF PlaceKept
  <1> QED
    BY <1>1, <1>2

\* A request moves, and nothing fails.
LEMMA ProbesMove ==
  ASSUME LimiterInv, NEW r \in Requests, NEW n, Moves(r, n),
         \/ req' = [req EXCEPT ![r] = n] /\ n.phase # "probing"
         \/ UNCHANGED req,
         UNCHANGED <<mode, clean>>
  PROVE  ModeTyped' /\ ProbesSound'
  <1>1. ModeTyped'
    BY DEF LimiterInv, ModeTyped
  <1>2. \A q \in Requests : req'[q] = req[q] \/ (req'[q] = n /\ n.phase # "probing")
    BY DEF LimiterInv, RequestsTyped
  <1>3. \A q \in Requests : ProbeSound(req[q])'
    BY <1>2 DEF LimiterInv, ProbesSound, ProbeSound
  <1>4. \A q, s \in Requests :
          req'[q].phase = "probing" /\ req'[s].phase = "probing" => q = s
    BY <1>2 DEF LimiterInv, ProbesSound
  <1> QED
    BY <1>1, <1>3, <1>4 DEF LimiterInv, ProbesSound

\* Something fails: a new generation, and every probe under way has seen it.  A probe
\* that ends says so.
LEMMA FailureMoves ==
  ASSUME LimiterInv, NEW r \in Requests, NEW n, n.phase # "probing",
         Moves(r, n), req' = Harmed(r, n),
         mode.generation < MaxGeneration, clean' = 0,
         NEW degraded \in BOOLEAN, NEW checking \in BOOLEAN,
         mode' = [mode EXCEPT !.degraded = degraded, !.successes = 0, !.due = FALSE,
                              !.generation = @ + 1, !.probing = checking],
         mode.degraded => degraded,
         checking = mode.probing \/ req[r].phase = "probing"
  PROVE  ModeTyped' /\ ProbesSound'
  <1>1. /\ mode.generation \in 0 .. MaxGeneration /\ mode.generation + 1 \in 0 .. MaxGeneration
        /\ 0 \in 0 .. StableProbes /\ 0 < StableProbes
        /\ mode \in [degraded: BOOLEAN, probing: BOOLEAN, due: BOOLEAN,
                     successes: 0 .. StableProbes, generation: 0 .. MaxGeneration]
    BY LimitsAssumption DEF LimiterInv, ModeTyped
  <1>2. /\ mode'.generation = mode.generation + 1 /\ mode'.successes = 0
        /\ mode'.degraded = degraded /\ mode'.probing = checking
    BY <1>1
  <1>3. ModeTyped'
    <2>1. mode' \in [degraded: BOOLEAN, probing: BOOLEAN, due: BOOLEAN,
                     successes: 0 .. StableProbes, generation: 0 .. MaxGeneration]
      BY <1>1
    <2> QED
      BY <2>1 DEF ModeTyped
  <1>4. ASSUME NEW q \in Requests, req'[q].phase = "probing"
        PROVE  /\ q # r /\ req[q].phase = "probing" /\ req'[q].seen = req[q].seen
               /\ req[q].seen \in 0 .. MaxGeneration
    <2>1. q # r
      BY <1>4 DEF Moves
    <2>2. req[q] \in Request
      BY DEF LimiterInv, RequestsTyped
    <2> QED
      BY <1>4, <2>1, <2>2, OthersKeep DEF LimiterInv, Request
  <1>5. ASSUME NEW q \in Requests
        PROVE  ProbeSound(req[q])'
    <2> SUFFICES ASSUME req'[q].phase = "probing"
                 PROVE  /\ mode'.probing /\ mode'.degraded /\ req'[q].seen <= mode'.generation
                        /\ req'[q].seen # mode'.generation
      BY DEF ProbeSound
    <2>1. /\ q # r /\ req[q].phase = "probing" /\ req'[q].seen = req[q].seen
          /\ req[q].seen \in 0 .. MaxGeneration
      BY <1>4
    <2>2. mode.probing /\ mode.degraded /\ req[q].seen <= mode.generation
      BY <2>1 DEF LimiterInv, ProbesSound, ProbeSound
    <2>3. req[r].phase # "probing"
      BY <2>1 DEF LimiterInv, ProbesSound
    <2>4. mode'.probing /\ mode'.degraded
      BY <1>2, <2>2, <2>3
    <2> QED
      BY <1>1, <1>2, <2>1, <2>2, <2>4, LimitsAssumption
  <1>6. \A q, s \in Requests :
          req'[q].phase = "probing" /\ req'[s].phase = "probing" => q = s
    BY <1>4 DEF LimiterInv, ProbesSound
  <1> QED
    BY <1>1, <1>2, <1>3, <1>5, <1>6 DEF ProbesSound

-----------------------------------------------------------------------------
(* Steps of a request *)

LEMMA RequestMoves ==
  ASSUME LimiterInv, NEW r \in Requests, NEW n \in Request,
         req' = [req EXCEPT ![r] = n] \/ req' = Harmed(r, n),
         LocalHeld(local'), RedisHeld(redis'),
         \A b \in Buckets : local'[b].reservations \subseteq local[b].reservations \cup {r},
         \A b \in Buckets : r \in local'[b].reservations => n.phase \in {"admitting", "granted"},
         PlaceKept(r, n, late', redis'),
         late' \subseteq late \cup {<<r, command>> : command \in Commands},
         \A b \in Buckets : redis[b].reservations \ {r} \subseteq redis'[b].reservations
  PROVE  /\ Moves(r, n) /\ RequestsTyped' /\ LocalHeld(local)' /\ NoReservationLeaks'
         /\ RedisHeld(redis)' /\ PlacesKept'
  <1>1. Moves(r, n)
    BY MovesOne DEF LimiterInv
  <1>2. RequestsTyped'
    BY <1>1 DEF LimiterInv, RequestsTyped, Moves
  <1>3. NoReservationLeaks'
    BY <1>1, LeaksMove DEF LimiterInv
  <1>4. \A q \in Requests, command \in Commands :
          q # r /\ <<q, command>> \in late' => <<q, command>> \in late
    OBVIOUS
  <1>5. PlacesKept'
    BY <1>1, <1>4, PlacesMove DEF LimiterInv
  <1> QED
    BY <1>1, <1>2, <1>3, <1>5

\* Nothing fails.
LEMMA CalmStep ==
  ASSUME LimiterInv, NEW r \in Requests, NEW n \in Request, n.phase # "probing",
         req' = [req EXCEPT ![r] = n],
         LocalHeld(local'), RedisHeld(redis'),
         \A b \in Buckets : local'[b].reservations \subseteq local[b].reservations \cup {r},
         \A b \in Buckets : r \in local'[b].reservations => n.phase \in {"admitting", "granted"},
         PlaceKept(r, n, late', redis'),
         late' \subseteq late \cup {<<r, command>> : command \in Commands},
         \A b \in Buckets : redis[b].reservations \ {r} \subseteq redis'[b].reservations,
         UNCHANGED <<mode, clean>>
  PROVE  LimiterInv'
  <1>1. /\ Moves(r, n) /\ RequestsTyped' /\ LocalHeld(local)' /\ NoReservationLeaks'
        /\ RedisHeld(redis)' /\ PlacesKept'
    BY RequestMoves
  <1>2. ModeTyped' /\ ProbesSound'
    BY <1>1, ProbesMove
  <1> QED
    BY <1>1, <1>2 DEF LimiterInv

\* A request fails.
LEMMA FailedStep ==
  ASSUME LimiterInv, NEW r \in Requests, NEW n \in Request, n.phase # "probing",
         req' = Harmed(r, n),
         LocalHeld(local'), UNCHANGED redis,
         \A b \in Buckets : local'[b].reservations \subseteq local[b].reservations \cup {r},
         \A b \in Buckets : r \in local'[b].reservations => n.phase \in {"admitting", "granted"},
         PlaceKept(r, n, late', redis'),
         late' \subseteq late \cup {<<r, command>> : command \in Commands},
         mode.generation < MaxGeneration, clean' = 0,
         NEW degraded \in BOOLEAN, NEW checking \in BOOLEAN,
         mode' = [mode EXCEPT !.degraded = degraded, !.successes = 0, !.due = FALSE,
                              !.generation = @ + 1, !.probing = checking],
         mode.degraded => degraded,
         checking = mode.probing \/ req[r].phase = "probing"
  PROVE  LimiterInv'
  <1>1. RedisHeld(redis') /\ \A b \in Buckets :
          redis[b].reservations \ {r} \subseteq redis'[b].reservations
    BY DEF LimiterInv
  <1>2. /\ Moves(r, n) /\ RequestsTyped' /\ LocalHeld(local)' /\ NoReservationLeaks'
        /\ RedisHeld(redis)' /\ PlacesKept'
    BY <1>1, RequestMoves
  <1>3. ModeTyped' /\ ProbesSound'
    BY <1>2, FailureMoves
  <1> QED
    BY <1>2, <1>3 DEF LimiterInv

\* The modes after a failure, as FailedStep wants them.
LEMMA DegradeIsFailure ==
  ASSUME LimiterInv, Degrade
  PROVE  /\ mode.generation < MaxGeneration /\ clean' = 0
         /\ mode' = [mode EXCEPT !.degraded = TRUE, !.successes = 0, !.due = FALSE,
                                 !.generation = @ + 1, !.probing = mode.probing]
  BY DEF Degrade, LimiterInv, ModeTyped

LEMMA ProbeEndIsFailure ==
  ASSUME LimiterInv,
         mode' = [mode EXCEPT !.successes = 0, !.due = FALSE, !.probing = FALSE,
                              !.generation = @ + 1]
  PROVE  mode' = [mode EXCEPT !.degraded = mode.degraded, !.successes = 0, !.due = FALSE,
                              !.generation = @ + 1, !.probing = FALSE]
  BY DEF LimiterInv, ModeTyped

LEMMA ModeFlags ==
  ASSUME LimiterInv
  PROVE  mode.degraded \in BOOLEAN /\ mode.probing \in BOOLEAN
  BY DEF LimiterInv, ModeTyped

\* Requests as they are written after an admission.
LEMMA FreshRequests ==
  /\ Idle \in Request /\ Idle.phase = "idle" /\ ~Idle.undo /\ Idle.backend = "local"
  /\ \A p \in {"granted", "done"} :
       /\ [Idle EXCEPT !.phase = p] \in Request /\ [Idle EXCEPT !.phase = p].phase = p
       /\ [Idle EXCEPT !.phase = p].backend = "local"
  /\ LET n == [Idle EXCEPT !.phase = "admitting", !.backend = "redis"]
     IN n \in Request /\ n.phase = "admitting" /\ ~n.undo
  <1>1. 0 \in 0 .. MaxGeneration
    BY LimitsAssumption
  <1>2. Idle \in Request /\ Idle.phase = "idle" /\ ~Idle.undo /\ Idle.backend = "local"
    BY <1>1 DEF Idle, Request
  <1>3. \A p \in {"granted", "done"} :
          /\ [Idle EXCEPT !.phase = p] \in Request /\ [Idle EXCEPT !.phase = p].phase = p
          /\ [Idle EXCEPT !.phase = p].backend = "local"
    BY <1>2 DEF Request
  <1>4. /\ [Idle EXCEPT !.phase = "admitting", !.backend = "redis"] \in Request
        /\ [Idle EXCEPT !.phase = "admitting", !.backend = "redis"].phase = "admitting"
        /\ ~[Idle EXCEPT !.phase = "admitting", !.backend = "redis"].undo
    BY <1>2 DEF Request
  <1> QED
    BY <1>2, <1>3, <1>4

\* A request that waits for no answer of Redis and is not granted reserves nothing.
LEMMA NothingReserved ==
  ASSUME LimiterInv, NEW r \in Requests, req[r].phase \notin {"admitting", "granted"}
  PROVE  \A b \in Buckets : r \notin local[b].reservations
  BY DEF LimiterInv, NoReservationLeaks

\* admit, once the mode is known.
LEMMA AdmissionMoves ==
  ASSUME LimiterInv, NEW r \in Requests, req[r].phase \in {"idle", "probing"},
         NEW degraded \in BOOLEAN, Admission(r, degraded), UNCHANGED <<redis, late>>
  PROVE  \E n \in Request :
           /\ req' = [req EXCEPT ![r] = n] /\ n.phase # "probing"
           /\ LocalHeld(local')
           /\ \A b \in Buckets : local'[b].reservations \subseteq local[b].reservations \cup {r}
           /\ \A b \in Buckets :
                r \in local'[b].reservations => n.phase \in {"admitting", "granted"}
           /\ PlaceKept(r, n, late', redis')
  <1>1. NoneLate(r, late') /\ LocalHeld(local)
    BY DEF LimiterInv, PlacesKept, PlaceKept
  <1>2. CASE LocalRefuses(r, ~degraded, local)
    <2>1. req' = [req EXCEPT ![r] = Idle] /\ UNCHANGED local
      BY <1>2 DEF Admission
    <2>2. PlaceKept(r, Idle, late', redis')
      BY <1>1, FreshRequests DEF PlaceKept
    <2>3. \A b \in Buckets : r \notin local'[b].reservations
      BY <2>1, NothingReserved
    <2>4. LocalHeld(local')
      BY <1>1, <2>1
    <2> QED
      BY <2>1, <2>2, <2>3, <2>4, FreshRequests
  <1>3. CASE ~LocalRefuses(r, ~degraded, local)
    <2> DEFINE n == IF degraded THEN [Idle EXCEPT !.phase = "granted"]
                    ELSE [Idle EXCEPT !.phase = "admitting", !.backend = "redis"]
    <2>1. local' = LocalAdmitted(r, ~degraded, local) /\ req' = [req EXCEPT ![r] = n]
      BY <1>3 DEF Admission
    <2>2. /\ n \in Request /\ n.phase \in {"admitting", "granted"}
          /\ (n.phase = "granted" => n.backend = "local") /\ (n.phase = "admitting" => ~n.undo)
      BY FreshRequests
    <2> HIDE DEF n
    <2>3. PlaceKept(r, n, late', redis')
      BY <1>1, <2>2 DEF PlaceKept
    <2>4. PICK guard \in BOOLEAN : guard = ~degraded
      OBVIOUS
    <2>5. /\ LocalHeld(LocalAdmitted(r, guard, local))
          /\ \A b \in Buckets : LocalAdmitted(r, guard, local)[b].reservations
                                  \subseteq local[b].reservations \cup {r}
      BY <1>1, <1>3, <2>4, LocalAdmittedHeld
    <2> QED
      BY <2>1, <2>2, <2>3, <2>4, <2>5
  <1> QED
    BY <1>2, <1>3

LEMMA ArriveSound ==
  ASSUME LimiterInv, NEW r \in Requests, Arrive(r)
  PROVE  LimiterInv'
  <1>1. /\ req[r].phase = "idle" /\ Admission(r, mode.degraded)
        /\ UNCHANGED <<redis, late, mode, clean>>
    BY DEF Arrive
  <1>2. PICK n \in Request :
           /\ req' = [req EXCEPT ![r] = n] /\ n.phase # "probing"
           /\ LocalHeld(local')
           /\ \A b \in Buckets : local'[b].reservations \subseteq local[b].reservations \cup {r}
           /\ \A b \in Buckets :
                r \in local'[b].reservations => n.phase \in {"admitting", "granted"}
           /\ PlaceKept(r, n, late', redis')
    BY <1>1, ModeFlags, AdmissionMoves
  <1>3. /\ RedisHeld(redis') /\ late' \subseteq late \cup {<<r, command>> : command \in Commands}
        /\ \A b \in Buckets : redis[b].reservations \ {r} \subseteq redis'[b].reservations
    BY <1>1 DEF LimiterInv
  <1> QED
    BY <1>1, <1>2, <1>3, CalmStep

LEMMA ProbeSoundStep ==
  ASSUME LimiterInv, NEW r \in Requests, Probe(r)
  PROVE  LimiterInv'
  <1> DEFINE n == [Idle EXCEPT !.phase = "probing", !.unharmed = TRUE,
                               !.seen = mode.generation]
  <1>1. /\ req[r].phase = "idle" /\ mode.degraded /\ ~mode.probing
        /\ mode' = [mode EXCEPT !.probing = TRUE, !.due = FALSE]
        /\ req' = [req EXCEPT ![r] = n]
        /\ UNCHANGED <<local, redis, late, clean>>
    BY DEF Probe, ShouldProbe
  <1>2. mode \in [degraded: BOOLEAN, probing: BOOLEAN, due: BOOLEAN,
                  successes: 0 .. StableProbes, generation: 0 .. MaxGeneration]
    BY DEF LimiterInv, ModeTyped
  <1>3. /\ n \in Request /\ n.phase = "probing" /\ n.seen = mode.generation /\ n.unharmed
        /\ ~n.undo
    BY <1>2 DEF Idle, Request
  <1> HIDE DEF n
  <1>4. NoneLate(r, late)
    BY <1>1 DEF LimiterInv, PlacesKept, PlaceKept
  <1>5. PlaceKept(r, n, late', redis')
    BY <1>1, <1>3, <1>4 DEF PlaceKept
  <1>6. LocalHeld(local') /\ RedisHeld(redis') /\ \A b \in Buckets : r \notin local'[b].reservations
    BY <1>1, NothingReserved DEF LimiterInv
  <1>7. /\ Moves(r, n) /\ RequestsTyped' /\ LocalHeld(local)' /\ NoReservationLeaks'
        /\ RedisHeld(redis)' /\ PlacesKept'
    BY <1>1, <1>3, <1>5, <1>6, RequestMoves
  <1>8. /\ mode'.probing /\ mode'.degraded /\ mode'.generation = mode.generation
        /\ mode'.successes = mode.successes
    BY <1>1, <1>2
  <1>9. ModeTyped'
    <2>1. mode' \in [degraded: BOOLEAN, probing: BOOLEAN, due: BOOLEAN,
                     successes: 0 .. StableProbes, generation: 0 .. MaxGeneration]
      BY <1>1, <1>2
    <2> QED
      BY <1>1, <2>1 DEF LimiterInv, ModeTyped
  <1>10. \A q \in Requests : q # r => req'[q] = req[q] /\ req[q].phase # "probing"
    BY <1>1 DEF LimiterInv, RequestsTyped, ProbesSound, ProbeSound
  <1>11. ASSUME NEW q \in Requests
         PROVE  ProbeSound(req[q])'
    <2>1. CASE q = r
      <3>1. req'[q] = n /\ mode.generation \in Nat
        BY <1>2, <1>7, <2>1, LimitsAssumption DEF Moves
      <3> QED
        BY <1>3, <1>8, <3>1 DEF ProbeSound
    <2>2. CASE q # r
      BY <1>10, <2>2 DEF ProbeSound
    <2> QED
      BY <2>1, <2>2
  <1>12. \A q, s \in Requests :
           req'[q].phase = "probing" /\ req'[s].phase = "probing" => q = s
    BY <1>10
  <1>13. ProbesSound'
    BY <1>1, <1>8, <1>11, <1>12 DEF LimiterInv, ProbesSound
  <1> QED
    BY <1>7, <1>9, <1>13 DEF LimiterInv

\* The probe was answered: it counts if nothing failed, and then clean counts it too.
LEMMA ProbeAnswered ==
  ASSUME LimiterInv, NEW r \in Requests, ProbeSucceeds(r)
  PROVE  /\ ModeTyped' /\ ~mode'.probing /\ mode'.successes <= clean'
         /\ mode'.degraded => mode'.successes < StableProbes
         /\ ~mode'.degraded => clean' >= StableProbes
  <1> DEFINE k == IF req[r].seen = mode.generation THEN mode.successes + 1
                  ELSE mode.successes
  <1>1. /\ req[r].phase = "probing"
        /\ mode' = [mode EXCEPT !.probing = FALSE, !.successes = k,
                                !.degraded = @ /\ k < StableProbes]
        /\ clean' = IF req[r].unharmed THEN clean + 1 ELSE clean
    BY DEF ProbeSucceeds, ModeAfterProbe
  <1>2. /\ mode \in [degraded: BOOLEAN, probing: BOOLEAN, due: BOOLEAN,
                     successes: 0 .. StableProbes, generation: 0 .. MaxGeneration]
        /\ mode.degraded /\ mode.successes < StableProbes /\ mode.successes <= clean
        /\ req[r].seen = mode.generation => req[r].unharmed
        /\ clean \in Nat /\ StableProbes \in Nat
    BY <1>1, LimitsAssumption DEF LimiterInv, ModeTyped, ProbesSound, ProbeSound
  <1>3. mode.successes \in Nat
    BY <1>2
  <1>4. /\ k \in 0 .. StableProbes /\ k <= clean'
        /\ clean' \in Nat
    BY <1>1, <1>2, <1>3
  <1> HIDE DEF k
  <1>5. /\ mode' \in [degraded: BOOLEAN, probing: BOOLEAN, due: BOOLEAN,
                      successes: 0 .. StableProbes, generation: 0 .. MaxGeneration]
        /\ ~mode'.probing /\ mode'.successes = k
        /\ mode'.degraded = (k < StableProbes)
    <2>1. /\ (mode.degraded /\ k < StableProbes) = (k < StableProbes)
          /\ (mode.degraded /\ k < StableProbes) \in BOOLEAN
      BY <1>2
    <2>2. PICK d \in BOOLEAN : d = (k < StableProbes)
      <3>1. (k < StableProbes) \in BOOLEAN
        BY <2>1
      <3> QED
        BY <3>1, Zenon
    <2>3. mode' = [mode EXCEPT !.probing = FALSE, !.successes = k, !.degraded = d]
      BY <1>1, <1>2, <2>1, <2>2
    <2>4. mode' \in [degraded: BOOLEAN, probing: BOOLEAN, due: BOOLEAN,
                     successes: 0 .. StableProbes, generation: 0 .. MaxGeneration]
      BY <1>2, <1>4, <2>3
    <2>5. ~mode'.probing /\ mode'.successes = k /\ mode'.degraded = d
      BY <1>2, <2>3
    <2> QED
      BY <2>2, <2>4, <2>5
  <1> QED
    <2>1. ModeTyped'
      BY <1>4, <1>5 DEF ModeTyped
    <2>2. mode'.successes <= clean'
      BY <1>4, <1>5
    <2>3. k \in Nat
      BY <1>4, <1>2
    <2>4. ~mode'.degraded => clean' >= StableProbes
      BY <1>2, <1>4, <1>5, <2>3
    <2> QED
      BY <1>5, <2>1, <2>2, <2>4

LEMMA ProbeSucceedsSound ==
  ASSUME LimiterInv, NEW r \in Requests, ProbeSucceeds(r)
  PROVE  LimiterInv'
  <1>1. /\ req[r].phase = "probing" /\ Admission(r, mode'.degraded)
        /\ UNCHANGED <<redis, late>>
    BY DEF ProbeSucceeds
  <1>2. /\ ModeTyped' /\ ~mode'.probing /\ mode'.successes <= clean'
        /\ mode'.degraded => mode'.successes < StableProbes
    BY ProbeAnswered
  <1>3. PICK degraded \in BOOLEAN : degraded = mode'.degraded
    BY <1>2 DEF ModeTyped
  <1>4. PICK n \in Request :
           /\ req' = [req EXCEPT ![r] = n] /\ n.phase # "probing"
           /\ LocalHeld(local')
           /\ \A b \in Buckets : local'[b].reservations \subseteq local[b].reservations \cup {r}
           /\ \A b \in Buckets :
                r \in local'[b].reservations => n.phase \in {"admitting", "granted"}
           /\ PlaceKept(r, n, late', redis')
    BY <1>1, <1>3, AdmissionMoves
  <1>5. /\ RedisHeld(redis') /\ late' \subseteq late \cup {<<r, command>> : command \in Commands}
        /\ \A b \in Buckets : redis[b].reservations \ {r} \subseteq redis'[b].reservations
    BY <1>1 DEF LimiterInv
  <1>6. /\ Moves(r, n) /\ RequestsTyped' /\ LocalHeld(local)' /\ NoReservationLeaks'
        /\ RedisHeld(redis)' /\ PlacesKept'
    BY <1>4, <1>5, RequestMoves
  <1>7. \A q \in Requests : req'[q].phase # "probing"
    <2>1. \A q \in Requests : q # r => req[q].phase # "probing" /\ req'[q] = req[q]
      BY <1>1, <1>4 DEF LimiterInv, RequestsTyped, ProbesSound
    <2> QED
      BY <1>4, <1>6, <2>1 DEF Moves
  <1>8. ProbesSound'
    BY <1>2, <1>7 DEF ProbesSound, ProbeSound
  <1> QED
    BY <1>2, <1>6, <1>8 DEF LimiterInv

LEMMA ProbeFailsSound ==
  ASSUME LimiterInv, NEW r \in Requests, ProbeFails(r)
  PROVE  LimiterInv'
  <1>1. /\ req[r].phase = "probing" /\ mode.generation < MaxGeneration /\ clean' = 0
        /\ mode' = [mode EXCEPT !.successes = 0, !.due = FALSE, !.probing = FALSE,
                                !.generation = @ + 1]
        /\ UNCHANGED <<redis, late>>
    BY DEF ProbeFails
  <1>2. mode' = [mode EXCEPT !.degraded = mode.degraded, !.successes = 0, !.due = FALSE,
                             !.generation = @ + 1, !.probing = FALSE]
    BY <1>1, ProbeEndIsFailure
  <1>3. NoneLate(r, late') /\ LocalHeld(local)
    BY <1>1 DEF LimiterInv, PlacesKept, PlaceKept
  <1>4. late' \subseteq late \cup {<<r, command>> : command \in Commands}
    BY <1>1
  <1>5. CASE LocalRefuses(r, FALSE, local)
    <2>1. req' = Harmed(r, Idle) /\ UNCHANGED local
      BY <1>5 DEF ProbeFails
    <2>2. PlaceKept(r, Idle, late', redis')
      BY <1>3, FreshRequests DEF PlaceKept
    <2>3. LocalHeld(local') /\ \A b \in Buckets : r \notin local'[b].reservations
      BY <1>1, <1>3, <2>1, NothingReserved
    <2>4. Idle \in Request /\ Idle.phase # "probing"
      BY FreshRequests
    <2>5. \A b \in Buckets : local'[b].reservations \subseteq local[b].reservations \cup {r}
      BY <2>1
    <2> QED
      BY <1>1, <1>2, <1>4, <2>1, <2>2, <2>3, <2>4, <2>5, ModeFlags, FailedStep
  <1>6. CASE ~LocalRefuses(r, FALSE, local)
    <2>1. PICK n \in Request : n = [Idle EXCEPT !.phase = "granted"]
      BY FreshRequests
    <2>2. req' = Harmed(r, n) /\ local' = LocalAdmitted(r, FALSE, local)
      BY <1>6, <2>1 DEF ProbeFails
    <2>3. n.phase = "granted" /\ n.backend = "local"
      BY <2>1, FreshRequests
    <2>4. PlaceKept(r, n, late', redis')
      BY <2>3 DEF PlaceKept
    <2>5. /\ LocalHeld(LocalAdmitted(r, FALSE, local))
          /\ \A b \in Buckets : LocalAdmitted(r, FALSE, local)[b].reservations
                                  \subseteq local[b].reservations \cup {r}
      BY <1>3, <1>6, LocalAdmittedHeld
    <2>6. LocalHeld(local') /\ \A b \in Buckets :
            local'[b].reservations \subseteq local[b].reservations \cup {r}
      BY <2>2, <2>5
    <2> QED
      BY <1>1, <1>2, <1>4, <2>2, <2>3, <2>4, <2>6, ModeFlags, FailedStep
  <1> QED
    BY <1>5, <1>6

LEMMA ProbeCancelledSound ==
  ASSUME LimiterInv, NEW r \in Requests, ProbeCancelled(r)
  PROVE  LimiterInv'
  <1>1. /\ req[r].phase = "probing" /\ mode.generation < MaxGeneration /\ clean' = 0
        /\ mode' = [mode EXCEPT !.successes = 0, !.due = FALSE, !.probing = FALSE,
                                !.generation = @ + 1]
        /\ req' = Harmed(r, Idle)
        /\ UNCHANGED <<local, redis, late>>
    BY DEF ProbeCancelled
  <1>2. mode' = [mode EXCEPT !.degraded = mode.degraded, !.successes = 0, !.due = FALSE,
                             !.generation = @ + 1, !.probing = FALSE]
    BY <1>1, ProbeEndIsFailure
  <1>3. NoneLate(r, late') /\ LocalHeld(local')
    BY <1>1 DEF LimiterInv, PlacesKept, PlaceKept
  <1>4. PlaceKept(r, Idle, late', redis')
    BY <1>3, FreshRequests DEF PlaceKept
  <1>5. \A b \in Buckets : r \notin local'[b].reservations
    BY <1>1, NothingReserved
  <1>6. Idle \in Request /\ Idle.phase # "probing"
    BY FreshRequests
  <1>7. /\ late' \subseteq late \cup {<<r, command>> : command \in Commands}
        /\ \A b \in Buckets : local'[b].reservations \subseteq local[b].reservations \cup {r}
    BY <1>1
  <1> QED
    BY <1>1, <1>2, <1>3, <1>4, <1>5, <1>6, <1>7, ModeFlags, FailedStep

LEMMA AdmitAnsweredSound ==
  ASSUME LimiterInv, NEW r \in Requests, AdmitAnswered(r)
  PROVE  LimiterInv'
  <1>1. /\ req[r].phase = "admitting" /\ redis' = Admitted(r)
        /\ UNCHANGED <<late, mode, clean>>
    BY DEF AdmitAnswered
  <1>2. req[r] \in Request /\ req \in [Requests -> Request]
    BY DEF LimiterInv, RequestsTyped
  <1>3. /\ RedisHeld(Admitted(r)) /\ LocalHeld(local)
        /\ \A b \in Buckets : redis[b].reservations \subseteq Admitted(r)[b].reservations
    BY AdmittedHeld DEF LimiterInv
  <1>4. /\ RedisHeld(redis')
        /\ \A b \in Buckets : redis[b].reservations \ {r} \subseteq redis'[b].reservations
    BY <1>1, <1>3
  <1>5. late' \subseteq late \cup {<<r, command>> : command \in Commands}
    BY <1>1
  <1>6. CASE AdmitRefuses(r)
    <2>1. PICK n \in Request : n = [req[r] EXCEPT !.phase = "done", !.count = FALSE]
      BY <1>2 DEF Request
    <2>2. n.phase = "done"
      BY <1>2, <2>1 DEF Request
    <2>3. local' = LocalFinalized(r, FALSE, FALSE, local) /\ req' = [req EXCEPT ![r] = n]
      BY <1>6, <2>1 DEF AdmitAnswered
    <2>4. /\ LocalHeld(LocalFinalized(r, FALSE, FALSE, local))
          /\ \A b \in Buckets : LocalFinalized(r, FALSE, FALSE, local)[b].reservations
                                  = local[b].reservations \ {r}
      BY <1>3, LocalReleaseHeld
    <2>5. /\ LocalHeld(local')
          /\ \A b \in Buckets : local'[b].reservations = local[b].reservations \ {r}
      BY <2>3, <2>4
    <2>6. PlaceKept(r, n, late', redis')
      BY <2>2 DEF PlaceKept
    <2>7. /\ n.phase # "probing"
          /\ \A b \in Buckets : local'[b].reservations \subseteq local[b].reservations \cup {r}
          /\ \A b \in Buckets :
               r \in local'[b].reservations => n.phase \in {"admitting", "granted"}
      BY <2>2, <2>5
    <2> QED
      BY <1>1, <1>4, <1>5, <2>3, <2>5, <2>6, <2>7, CalmStep
  <1>7. CASE ~AdmitRefuses(r)
    <2>1. PICK n \in Request : n = [req[r] EXCEPT !.phase = "granted"]
      BY <1>2 DEF Request
    <2>2. n.phase = "granted"
      BY <1>2, <2>1 DEF Request
    <2>3. UNCHANGED local /\ req' = [req EXCEPT ![r] = n]
      BY <1>2, <1>7, <2>1 DEF AdmitAnswered
    <2>4. NoneLate(r, late')
      BY <1>1 DEF LimiterInv, PlacesKept, PlaceKept
    <2>5. \A b \in BucketsOf[r] : r \in redis'[b].reservations
      BY <1>1, <1>7, AdmittedHeld DEF LimiterInv
    <2>6. PlaceKept(r, n, late', redis')
      BY <2>2, <2>4, <2>5 DEF PlaceKept
    <2>7. /\ LocalHeld(local')
          /\ \A b \in Buckets : local'[b].reservations \subseteq local[b].reservations \cup {r}
      BY <1>3, <2>3
    <2> QED
      BY <1>1, <1>4, <1>5, <2>2, <2>3, <2>6, <2>7, CalmStep
  <1> QED
    BY <1>6, <1>7

LEMMA AdmitFailsSound ==
  ASSUME LimiterInv, NEW r \in Requests, AdmitFails(r)
  PROVE  LimiterInv'
  <1>1. /\ Degrade /\ late' = late \cup {<<r, "admit">>} /\ UNCHANGED redis
    BY DEF AdmitFails
  <1>2. PICK loc : loc = LocalFinalized(r, FALSE, FALSE, local)
    OBVIOUS
  <1>3. /\ LocalHeld(LocalFinalized(r, FALSE, FALSE, local))
        /\ \A b \in Buckets : LocalFinalized(r, FALSE, FALSE, local)[b].reservations
                                = local[b].reservations \ {r}
    BY LocalReleaseHeld DEF LimiterInv
  <1>4. LocalHeld(loc) /\ \A b \in Buckets : loc[b].reservations = local[b].reservations \ {r}
    BY <1>2, <1>3
  <1>5. late' \subseteq late \cup {<<r, command>> : command \in Commands}
    BY <1>1 DEF Commands
  <1>6. /\ mode.generation < MaxGeneration /\ clean' = 0
        /\ mode' = [mode EXCEPT !.degraded = TRUE, !.successes = 0, !.due = FALSE,
                                !.generation = @ + 1, !.probing = mode.probing]
    BY <1>1, DegradeIsFailure
  <1>7. CASE LocalRefuses(r, FALSE, loc)
    <2>1. PICK n \in Request : n = [Idle EXCEPT !.phase = "done"]
      BY FreshRequests
    <2>2. n.phase = "done"
      BY <2>1, FreshRequests
    <2>3. local' = loc /\ req' = Harmed(r, n)
      BY <1>2, <1>7, <2>1 DEF AdmitFails
    <2>4. PlaceKept(r, n, late', redis')
      BY <2>2 DEF PlaceKept
    <2>5. /\ LocalHeld(local')
          /\ \A b \in Buckets : local'[b].reservations = local[b].reservations \ {r}
      BY <1>4, <2>3
    <2> QED
      BY <1>1, <1>5, <1>6, <2>2, <2>3, <2>4, <2>5, ModeFlags, FailedStep
  <1>8. CASE ~LocalRefuses(r, FALSE, loc)
    <2>1. PICK n \in Request : n = [Idle EXCEPT !.phase = "granted"]
      BY FreshRequests
    <2>2. n.phase = "granted" /\ n.backend = "local"
      BY <2>1, FreshRequests
    <2>3. local' = LocalAdmitted(r, FALSE, loc) /\ req' = Harmed(r, n)
      BY <1>2, <1>8, <2>1 DEF AdmitFails
    <2>4. PlaceKept(r, n, late', redis')
      BY <2>2 DEF PlaceKept
    <2>5. LocalHeld(LocalAdmitted(r, FALSE, loc))
      BY <1>4, <1>8, LocalAdmittedHeld
    <2>6. \A b \in Buckets : LocalAdmitted(r, FALSE, loc)[b].reservations
                               \subseteq loc[b].reservations \cup {r}
      BY <1>4, <1>8, LocalAdmittedHeld
    <2>7. LocalHeld(local') /\ \A b \in Buckets :
            local'[b].reservations \subseteq local[b].reservations \cup {r}
      BY <1>4, <2>3, <2>5, <2>6
    <2> QED
      BY <1>1, <1>5, <1>6, <2>2, <2>3, <2>4, <2>7, ModeFlags, FailedStep
  <1> QED
    BY <1>7, <1>8

LEMMA AdmitCancelledSound ==
  ASSUME LimiterInv, NEW r \in Requests, AdmitCancelled(r)
  PROVE  LimiterInv'
  <1>1. /\ late' = late \cup {<<r, "admit">>} /\ UNCHANGED <<redis, mode, clean>>
        /\ local' = LocalFinalized(r, FALSE, FALSE, local)
    BY DEF AdmitCancelled
  <1>2. req[r] \in Request /\ req \in [Requests -> Request]
    BY DEF LimiterInv, RequestsTyped
  <1>3. PICK n \in Request : n = [req[r] EXCEPT !.phase = "done"]
    BY <1>2 DEF Request
  <1>4. n.phase = "done" /\ req' = [req EXCEPT ![r] = n]
    BY <1>2, <1>3 DEF Request, AdmitCancelled
  <1>5. /\ LocalHeld(LocalFinalized(r, FALSE, FALSE, local))
        /\ \A b \in Buckets : LocalFinalized(r, FALSE, FALSE, local)[b].reservations
                                = local[b].reservations \ {r}
    BY LocalReleaseHeld DEF LimiterInv
  <1>6. /\ LocalHeld(local')
        /\ \A b \in Buckets : local'[b].reservations = local[b].reservations \ {r}
    BY <1>1, <1>5
  <1>7. late' \subseteq late \cup {<<r, command>> : command \in Commands}
    BY <1>1 DEF Commands
  <1>8. PlaceKept(r, n, late', redis')
    BY <1>4 DEF PlaceKept
  <1>9. /\ RedisHeld(redis')
        /\ \A b \in Buckets : redis[b].reservations \ {r} \subseteq redis'[b].reservations
    BY <1>1 DEF LimiterInv
  <1> QED
    BY <1>1, <1>4, <1>6, <1>7, <1>8, <1>9, CalmStep

LEMMA FinalizeSound ==
  ASSUME LimiterInv, NEW r \in Requests, NEW count \in BOOLEAN, Finalize(r, count)
  PROVE  LimiterInv'
  <1> DEFINE phase == IF req[r].backend = "redis" THEN "finalizing" ELSE "done"
  <1>1. /\ req[r].phase = "granted" /\ (req[r].undo => ~count)
        /\ local' = LocalFinalized(r, count, req[r].undo, local)
        /\ UNCHANGED <<redis, late, mode, clean>>
    BY DEF Finalize
  <1>2. req[r] \in Request /\ req \in [Requests -> Request]
    BY DEF LimiterInv, RequestsTyped
  <1>3. PICK undo \in BOOLEAN : undo = req[r].undo
    BY <1>2 DEF Request
  <1>4. [req[r] EXCEPT !.count = count, !.phase = phase] \in Request
    BY <1>2 DEF Request
  <1>5. PICK n \in Request : n = [req[r] EXCEPT !.count = count, !.phase = phase]
    BY <1>4
  <1>6. /\ n.phase = phase /\ n.count = count /\ n.backend = req[r].backend
        /\ n.undo = req[r].undo
    BY <1>2, <1>5 DEF Request
  <1>7. req' = [req EXCEPT ![r] = n]
    BY <1>1, <1>2, <1>5 DEF Finalize
  <1>8. /\ LocalHeld(LocalFinalized(r, count, undo, local))
        /\ \A b \in Buckets : LocalFinalized(r, count, undo, local)[b].reservations
                                = local[b].reservations \ {r}
    BY LocalFinalizedHeld DEF LimiterInv
  <1>9. /\ LocalHeld(local')
        /\ \A b \in Buckets : local'[b].reservations = local[b].reservations \ {r}
    BY <1>1, <1>3, <1>8
  <1>10. PlaceKept(r, n, late', redis')
    <2>1. PlaceKept(r, req[r], late, redis)
      BY DEF LimiterInv, PlacesKept
    <2> QED
      BY <1>1, <1>6, <2>1 DEF PlaceKept
  <1>11. RedisHeld(redis') /\ late' \subseteq late \cup {<<r, command>> : command \in Commands}
        /\ \A b \in Buckets : redis[b].reservations \ {r} \subseteq redis'[b].reservations
    BY <1>1 DEF LimiterInv
  <1>12. /\ n.phase # "probing"
         /\ \A b \in Buckets : local'[b].reservations \subseteq local[b].reservations \cup {r}
         /\ \A b \in Buckets :
              r \in local'[b].reservations => n.phase \in {"admitting", "granted"}
    BY <1>6, <1>9
  <1> HIDE DEF phase
  <1> QED
    BY <1>1, <1>7, <1>9, <1>10, <1>11, <1>12, CalmStep

LEMMA FinalizeAnsweredSound ==
  ASSUME LimiterInv, NEW r \in Requests, FinalizeAnswered(r)
  PROVE  LimiterInv'
  <1>1. /\ req[r].phase = "finalizing" /\ redis' = Finalized(r, req[r].count, req[r].undo)
        /\ UNCHANGED <<local, late, mode, clean>>
    BY DEF FinalizeAnswered
  <1>2. req[r] \in Request /\ req \in [Requests -> Request]
    BY DEF LimiterInv, RequestsTyped
  <1>3. PICK count \in BOOLEAN, undo \in BOOLEAN : count = req[r].count /\ undo = req[r].undo
    BY <1>2 DEF Request
  <1>4. PICK n \in Request : n = [req[r] EXCEPT !.phase = "done"]
    BY <1>2 DEF Request
  <1>5. n.phase = "done" /\ req' = [req EXCEPT ![r] = n]
    BY <1>2, <1>4 DEF Request, FinalizeAnswered
  <1>6. /\ RedisHeld(Finalized(r, count, undo))
        /\ \A b \in Buckets :
             redis[b].reservations \ {r} \subseteq Finalized(r, count, undo)[b].reservations
    BY FinalizedHeld DEF LimiterInv
  <1>7. /\ RedisHeld(redis')
        /\ \A b \in Buckets : redis[b].reservations \ {r} \subseteq redis'[b].reservations
    BY <1>1, <1>3, <1>6
  <1>8. PlaceKept(r, n, late', redis')
    BY <1>5 DEF PlaceKept
  <1>9. /\ LocalHeld(local') /\ late' \subseteq late \cup {<<r, command>> : command \in Commands}
        /\ \A b \in Buckets : r \notin local'[b].reservations
        /\ \A b \in Buckets : local'[b].reservations \subseteq local[b].reservations \cup {r}
    BY <1>1, NothingReserved DEF LimiterInv
  <1> QED
    BY <1>1, <1>5, <1>7, <1>8, <1>9, CalmStep

LEMMA CommandTyped ==
  ASSUME NEW r \in Requests
  PROVE  Command(r) \in Commands
  BY DEF Command, Commands

LEMMA FinalizeFailsSound ==
  ASSUME LimiterInv, NEW r \in Requests, FinalizeFails(r)
  PROVE  LimiterInv'
  <1>1. /\ req[r].phase = "finalizing" /\ Degrade /\ UNCHANGED redis
        /\ late' = late \cup {<<r, Command(r)>>} /\ local' = CountedLocally(r)
    BY DEF FinalizeFails
  <1>2. req[r] \in Request
    BY DEF LimiterInv, RequestsTyped
  <1>3. PICK n \in Request : n = [req[r] EXCEPT !.phase = "done"]
    BY <1>2 DEF Request
  <1>4. n.phase = "done" /\ req' = Harmed(r, n)
    BY <1>2, <1>3 DEF Request, FinalizeFails
  <1>5. \A b \in Buckets : r \notin local[b].reservations
    BY <1>1, NothingReserved
  <1>6. /\ LocalHeld(CountedLocally(r))
        /\ \A b \in Buckets : CountedLocally(r)[b].reservations \subseteq local[b].reservations
    BY <1>5, CountedLocallyHeld DEF LimiterInv
  <1>7. /\ LocalHeld(local')
        /\ \A b \in Buckets : local'[b].reservations \subseteq local[b].reservations \cup {r}
        /\ \A b \in Buckets : r \notin local'[b].reservations
    BY <1>1, <1>5, <1>6
  <1>8. late' \subseteq late \cup {<<r, command>> : command \in Commands}
    BY <1>1, CommandTyped
  <1>9. PlaceKept(r, n, late', redis')
    BY <1>4 DEF PlaceKept
  <1>10. mode.generation < MaxGeneration /\ clean' = 0
        /\ mode' = [mode EXCEPT !.degraded = TRUE, !.successes = 0, !.due = FALSE,
                                !.generation = @ + 1, !.probing = mode.probing]
    BY <1>1, DegradeIsFailure
  <1> QED
    BY <1>1, <1>4, <1>7, <1>8, <1>9, <1>10, ModeFlags, FailedStep

\* A request that only changes its own state.
LEMMA OwnStep ==
  ASSUME LimiterInv, NEW r \in Requests, NEW n \in Request, n.phase # "probing",
         req[r].phase \notin {"admitting", "granted"} \/ n.phase \in {"admitting", "granted"},
         req' = [req EXCEPT ![r] = n], UNCHANGED <<local, redis, mode, clean>>,
         late' \subseteq late \cup {<<r, command>> : command \in Commands},
         PlaceKept(r, n, late', redis')
  PROVE  LimiterInv'
  <1>1. /\ LocalHeld(local') /\ RedisHeld(redis')
        /\ \A b \in Buckets : local'[b].reservations \subseteq local[b].reservations \cup {r}
        /\ \A b \in Buckets : redis[b].reservations \ {r} \subseteq redis'[b].reservations
    BY DEF LimiterInv
  <1>2. \A b \in Buckets : r \in local'[b].reservations => n.phase \in {"admitting", "granted"}
    BY NothingReserved
  <1> QED
    BY <1>1, <1>2, CalmStep

LEMMA FinalizeCancelledSound ==
  ASSUME LimiterInv, NEW r \in Requests, FinalizeCancelled(r)
  PROVE  LimiterInv'
  <1> DEFINE phase == IF req[r].undo THEN "done" ELSE "granted"
  <1>1. /\ req[r].phase = "finalizing" /\ late' = late \cup {<<r, Command(r)>>}
        /\ UNCHANGED <<local, redis, mode, clean>>
    BY DEF FinalizeCancelled
  <1>2. req[r] \in Request /\ req \in [Requests -> Request]
    BY DEF LimiterInv, RequestsTyped
  <1>3. PICK n \in Request : n = [req[r] EXCEPT !.phase = phase, !.undo = TRUE, !.count = FALSE]
    BY <1>2 DEF Request
  <1>4. n.phase = phase /\ n.undo
    BY <1>2, <1>3 DEF Request
  <1>5. req' = [req EXCEPT ![r] = n]
    BY <1>2, <1>3 DEF FinalizeCancelled
  <1>6. late' \subseteq late \cup {<<r, command>> : command \in Commands}
    BY <1>1, CommandTyped
  <1>7. PlaceKept(r, n, late', redis') /\ n.phase # "probing"
    BY <1>4 DEF PlaceKept
  <1> QED
    BY <1>1, <1>5, <1>6, <1>7, OwnStep

LEMMA AbandonDeliverySound ==
  ASSUME LimiterInv, NEW r \in Requests, AbandonDelivery(r)
  PROVE  LimiterInv'
  <1>1. req[r].phase = "done" /\ UNCHANGED <<local, redis, late, mode, clean>>
    BY DEF AbandonDelivery
  <1>2. req[r] \in Request /\ req \in [Requests -> Request]
    BY DEF LimiterInv, RequestsTyped
  <1>3. PICK n \in Request :
          n = [req[r] EXCEPT !.phase = "granted", !.undo = TRUE, !.count = FALSE]
    BY <1>2 DEF Request
  <1>4. n.phase = "granted" /\ n.undo
    BY <1>2, <1>3 DEF Request
  <1>5. req' = [req EXCEPT ![r] = n]
    BY <1>2, <1>3 DEF AbandonDelivery
  <1>6. late' \subseteq late \cup {<<r, command>> : command \in Commands}
    BY <1>1
  <1>7. PlaceKept(r, n, late', redis')
    BY <1>4 DEF PlaceKept
  <1> QED
    BY <1>1, <1>4, <1>5, <1>6, <1>7, OwnStep

LEMMA ReuseSound ==
  ASSUME LimiterInv, NEW r \in Requests, Reuse(r)
  PROVE  LimiterInv'
  <1>1. /\ req[r].phase = "done" /\ req' = [req EXCEPT ![r] = Idle]
        /\ \A c \in late : c[1] # r
        /\ UNCHANGED <<local, redis, late, mode, clean>>
    BY DEF Reuse
  <1>2. NoneLate(r, late')
    BY <1>1 DEF NoneLate
  <1>3. PlaceKept(r, Idle, late', redis')
    BY <1>2, FreshRequests DEF PlaceKept
  <1>4. /\ late' \subseteq late \cup {<<r, command>> : command \in Commands}
        /\ Idle \in Request /\ Idle.phase # "probing"
    BY <1>1, FreshRequests
  <1> QED
    BY <1>1, <1>3, <1>4, OwnStep

-----------------------------------------------------------------------------
(* Redis and the clock *)

\* A step that moves no request.
LEMMA UnmovedStep ==
  ASSUME LimiterInv, UNCHANGED <<req, mode, clean>>,
         LocalHeld(local'), RedisHeld(redis'), late' \subseteq late,
         \A b \in Buckets : local'[b].reservations \subseteq local[b].reservations,
         \A q \in Requests : PlaceKept(q, req[q], late', redis')
  PROVE  LimiterInv'
  <1>1. RequestsTyped' /\ ModeTyped' /\ ProbesSound'
    BY DEF LimiterInv, RequestsTyped, ModeTyped, ProbesSound, ProbeSound
  <1>2. NoReservationLeaks'
    BY DEF LimiterInv, NoReservationLeaks
  <1>3. PlacesKept'
    BY DEF PlacesKept
  <1> QED
    BY <1>1, <1>2, <1>3 DEF LimiterInv

\* A place outlives what happens to the commands and reservations of others.
LEMMA PlaceOutlives ==
  ASSUME LimiterInv, NEW q \in Requests, NEW lt, lt \subseteq late, NEW red,
         \/ \A b \in Buckets : q \in redis[b].reservations => q \in red[b].reservations
         \/ \E command \in Commands : <<q, command>> \in late
         \/ req[q].phase = "done"
  PROVE  PlaceKept(q, req[q], lt, red)
  <1>1. PlaceKept(q, req[q], late, redis)
    BY DEF LimiterInv, PlacesKept
  <1>2. NoneLate(q, late) => NoneLate(q, lt)
    BY DEF NoneLate
  <1>3. BucketsOf[q] \subseteq Buckets
    BY BucketsAssumption
  <1>4. CASE \A b \in Buckets : q \in redis[b].reservations => q \in red[b].reservations
    BY <1>1, <1>2, <1>3, <1>4 DEF PlaceKept
  <1>5. CASE \E command \in Commands : <<q, command>> \in late
    <2>1. ~NoneLate(q, late)
      BY <1>5 DEF NoneLate
    <2> QED
      BY <1>1, <2>1 DEF PlaceKept
  <1>6. CASE req[q].phase = "done"
    BY <1>6 DEF PlaceKept
  <1> QED
    BY <1>4, <1>5, <1>6

\* A script that runs late keeps every limit and touches the places of its own
\* request only, which counts on none of them any more.
LEMMA LateCommandSound ==
  ASSUME LimiterInv, NEW r \in Requests, NEW command \in Commands, LateCommand(r, command)
  PROVE  LimiterInv'
  <1>1. /\ <<r, command>> \in late /\ late' \subseteq late
        /\ UNCHANGED <<req, local, mode, clean>>
    BY DEF LateCommand
  <1>2. /\ RedisHeld(redis')
        /\ \A b \in Buckets : redis[b].reservations \ {r} \subseteq redis'[b].reservations
    <2>1. RedisHeld(redis)
      BY DEF LimiterInv
    <2>2. CASE command = "admit"
      <3>1. redis' = Admitted(r)
        BY <2>2 DEF LateCommand
      <3>2. /\ RedisHeld(Admitted(r))
            /\ \A b \in Buckets : redis[b].reservations \subseteq Admitted(r)[b].reservations
        BY <2>1, AdmittedHeld
      <3> QED
        BY <3>1, <3>2
    <2>3. CASE command \in {"count", "release", "discard"}
      <3>1. PICK count \in BOOLEAN, discard \in BOOLEAN :
              count = (command = "count") /\ discard = (command = "discard")
        OBVIOUS
      <3>2. redis' = Finalized(r, count, discard)
        <4>1. CASE command = "count"
          BY <3>1, <4>1 DEF LateCommand
        <4>2. CASE command = "release"
          BY <3>1, <4>2 DEF LateCommand
        <4>3. CASE command = "discard"
          BY <3>1, <4>3 DEF LateCommand
        <4> QED
          BY <2>3, <4>1, <4>2, <4>3
      <3>3. /\ RedisHeld(Finalized(r, count, discard))
            /\ \A b \in Buckets :
                 redis[b].reservations \ {r} \subseteq Finalized(r, count, discard)[b].reservations
        BY <2>1, FinalizedHeld
      <3> QED
        BY <3>2, <3>3
    <2> QED
      BY <2>2, <2>3 DEF Commands
  <1>3. ASSUME NEW q \in Requests
        PROVE  PlaceKept(q, req[q], late', redis')
    <2>1. \/ \A b \in Buckets : q \in redis[b].reservations => q \in redis'[b].reservations
          \/ \E c \in Commands : <<q, c>> \in late
      BY <1>1, <1>2
    <2>2. PICK lt, red : lt = late' /\ red = redis'
      OBVIOUS
    <2>3. PlaceKept(q, req[q], lt, red)
      BY <1>1, <2>1, <2>2, PlaceOutlives
    <2> QED
      BY <2>2, <2>3
  <1>4. /\ LocalHeld(local')
        /\ \A b \in Buckets : local'[b].reservations \subseteq local[b].reservations
    BY <1>1 DEF LimiterInv
  <1> QED
    BY <1>1, <1>2, <1>3, <1>4, UnmovedStep

LEMMA CommandLostSound ==
  ASSUME LimiterInv, NEW c \in late, CommandLost(c)
  PROVE  LimiterInv'
  <1>1. late' \subseteq late /\ UNCHANGED <<req, local, redis, mode, clean>>
    BY DEF CommandLost
  <1>2. /\ LocalHeld(local') /\ RedisHeld(redis')
        /\ \A b \in Buckets : local'[b].reservations \subseteq local[b].reservations
    BY <1>1 DEF LimiterInv
  <1>3. PICK lt : lt = late'
    OBVIOUS
  <1>4. \A q \in Requests : PlaceKept(q, req[q], lt, redis)
    BY <1>1, <1>3, PlaceOutlives
  <1>5. \A q \in Requests : PlaceKept(q, req[q], late', redis')
    BY <1>1, <1>3, <1>4
  <1> QED
    BY <1>1, <1>2, <1>5, UnmovedStep

\* Only what a finished request left behind lapses.
LEMMA LeaseEndsSound ==
  ASSUME LimiterInv, NEW r \in Requests, NEW b \in Buckets, LeaseEnds(r, b)
  PROVE  LimiterInv'
  <1>1. /\ req[r].phase = "done"
        /\ redis' = [redis EXCEPT ![b].reservations = @ \ {r}]
        /\ UNCHANGED <<req, local, late, mode, clean>>
    BY DEF LeaseEnds
  <1>2. /\ redis \in [Buckets -> Bucket]
        /\ \A a \in Buckets : Counted(redis[a]) /\ Size(redis[a]) <= Maximum[a]
    BY DEF LimiterInv, RedisHeld
  <1>3. PICK red : red = redis'
    OBVIOUS
  <1>4. ASSUME NEW a \in Buckets
        PROVE  /\ red[a] \in Bucket /\ red[a].failures = redis[a].failures
               /\ red[a].reservations \subseteq redis[a].reservations
               /\ redis[a].reservations \ {r} \subseteq red[a].reservations
    BY <1>1, <1>2, <1>3 DEF Bucket
  <1>5. ASSUME NEW a \in Buckets
        PROVE  Counted(red[a]) /\ Size(red[a]) <= Maximum[a]
    <2>1. Counted(red[a]) /\ Size(red[a]) <= Size(redis[a])
      BY <1>2, <1>4, LosingAddsNone
    <2>2. Size(red[a]) \in Nat /\ Size(redis[a]) \in Nat /\ Maximum[a] \in Nat
      BY <1>2, <2>1, CountsAreNat, LimitsAssumption
    <2> QED
      BY <1>2, <2>1, <2>2
  <1>6. red \in [Buckets -> Bucket]
    BY <1>1, <1>2, <1>3, <1>4
  <1>7. RedisHeld(redis')
    BY <1>3, <1>5, <1>6 DEF RedisHeld
  <1>8. \A q \in Requests : PlaceKept(q, req[q], late, red)
    <2>1. \A q \in Requests :
            \/ \A a \in Buckets : q \in redis[a].reservations => q \in red[a].reservations
            \/ req[q].phase = "done"
      BY <1>1, <1>4
    <2> QED
      BY <2>1, PlaceOutlives
  <1>9. \A q \in Requests : PlaceKept(q, req[q], late', redis')
    BY <1>1, <1>3, <1>8
  <1>10. /\ LocalHeld(local') /\ late' \subseteq late
         /\ \A a \in Buckets : local'[a].reservations \subseteq local[a].reservations
    BY <1>1 DEF LimiterInv
  <1> QED
    BY <1>1, <1>7, <1>9, <1>10, UnmovedStep

\* The window of a bucket in Redis, or in memory, ends.
LEMMA WindowEndsSound ==
  ASSUME LimiterInv, NEW b \in Buckets, WindowEnds(b)
  PROVE  LimiterInv'
  <1>1. CASE /\ redis' = [redis EXCEPT ![b].failures = {}]
             /\ UNCHANGED <<req, local, late, mode, clean>>
    <2>1. /\ redis \in [Buckets -> Bucket]
          /\ \A a \in Buckets : Counted(redis[a]) /\ Size(redis[a]) <= Maximum[a]
      BY DEF LimiterInv, RedisHeld
    <2>2. PICK red : red = redis'
      OBVIOUS
    <2>3. ASSUME NEW a \in Buckets
          PROVE  /\ red[a] \in Bucket /\ red[a].failures \subseteq redis[a].failures
                 /\ red[a].reservations = redis[a].reservations
      BY <1>1, <2>1, <2>2 DEF Bucket
    <2>4. ASSUME NEW a \in Buckets
          PROVE  Counted(red[a]) /\ Size(red[a]) <= Maximum[a]
      <3>1. Counted(red[a]) /\ Size(red[a]) <= Size(redis[a])
        BY <2>1, <2>3, LosingAddsNone
      <3>2. Size(red[a]) \in Nat /\ Size(redis[a]) \in Nat /\ Maximum[a] \in Nat
        BY <2>1, <3>1, CountsAreNat, LimitsAssumption
      <3> QED
        BY <2>1, <3>1, <3>2
    <2>5. red \in [Buckets -> Bucket]
      BY <1>1, <2>1, <2>2, <2>3
    <2>6. RedisHeld(redis')
      BY <2>2, <2>4, <2>5 DEF RedisHeld
    <2>7. \A q \in Requests : PlaceKept(q, req[q], late, red)
      BY <2>3, PlaceOutlives
    <2>8. \A q \in Requests : PlaceKept(q, req[q], late', redis')
      BY <1>1, <2>2, <2>7
    <2>9. /\ LocalHeld(local') /\ late' \subseteq late
          /\ \A a \in Buckets : local'[a].reservations \subseteq local[a].reservations
      BY <1>1 DEF LimiterInv
    <2> QED
      BY <1>1, <2>6, <2>8, <2>9, UnmovedStep
  <1>2. CASE /\ local' = [local EXCEPT ![b].failures = {}]
             /\ UNCHANGED <<req, redis, late, mode, clean>>
    <2>1. /\ local \in [Buckets -> Bucket]
          /\ \A a \in Buckets : Counted(local[a]) /\ Size(local[a]) <= LocalMaximum[a]
          /\ IsFiniteSet(Entries(local)) /\ Cardinality(Entries(local)) <= MaxEntries
          /\ \A a \in Buckets : \A q \in local[a].reservations : a \in BucketsOf[q]
      BY DEF LimiterInv, LocalHeld
    <2>2. PICK loc : loc = local'
      OBVIOUS
    <2>3. ASSUME NEW a \in Buckets
          PROVE  /\ loc[a] \in Bucket /\ loc[a].failures \subseteq local[a].failures
                 /\ loc[a].reservations = local[a].reservations
      BY <1>2, <2>1, <2>2 DEF Bucket
    <2>4. ASSUME NEW a \in Buckets
          PROVE  Counted(loc[a]) /\ Size(loc[a]) <= LocalMaximum[a]
      <3>1. Counted(loc[a]) /\ Size(loc[a]) <= Size(local[a])
        BY <2>1, <2>3, LosingAddsNone
      <3>2. Size(loc[a]) \in Nat /\ Size(local[a]) \in Nat /\ LocalMaximum[a] \in Nat
        BY <2>1, <3>1, CountsAreNat, LimitsAssumption
      <3> QED
        BY <2>1, <3>1, <3>2
    <2>5. loc \in [Buckets -> Bucket]
      BY <1>2, <2>1, <2>2, <2>3
    <2>6. Entries(loc) \subseteq Entries(local)
      BY <2>3 DEF Entries, Members
    <2>7. IsFiniteSet(Entries(loc)) /\ Cardinality(Entries(loc)) <= MaxEntries
      <3>1. IsFiniteSet(Entries(loc)) /\ Cardinality(Entries(loc)) <= Cardinality(Entries(local))
        BY <2>1, <2>6, FS_Subset
      <3>2. /\ Cardinality(Entries(loc)) \in Nat /\ Cardinality(Entries(local)) \in Nat
            /\ MaxEntries \in Nat
        BY <2>1, <3>1, FS_CardinalityType, LimitsAssumption
      <3> QED
        BY <2>1, <3>1, <3>2
    <2>8. \A a \in Buckets : \A q \in loc[a].reservations : a \in BucketsOf[q]
      BY <2>1, <2>3
    <2>9. LocalHeld(local')
      BY <2>2, <2>4, <2>5, <2>7, <2>8 DEF LocalHeld
    <2>10. /\ \A q \in Requests : PlaceKept(q, req[q], late', redis')
           /\ RedisHeld(redis') /\ late' \subseteq late
      BY <1>2 DEF LimiterInv, PlacesKept
    <2>11. \A a \in Buckets : local'[a].reservations \subseteq local[a].reservations
      BY <2>2, <2>3
    <2> QED
      BY <1>2, <2>9, <2>10, <2>11, UnmovedStep
  <1> QED
    BY <1>1, <1>2 DEF WindowEnds

LEMMA ProbeDueSound ==
  ASSUME LimiterInv, ProbeDue
  PROVE  LimiterInv'
  <1>1. mode' = [mode EXCEPT !.due = TRUE] /\ UNCHANGED <<req, local, redis, late, clean>>
    BY DEF ProbeDue
  <1>2. mode \in [degraded: BOOLEAN, probing: BOOLEAN, due: BOOLEAN,
                  successes: 0 .. StableProbes, generation: 0 .. MaxGeneration]
    BY DEF LimiterInv, ModeTyped
  <1>3. /\ mode' \in [degraded: BOOLEAN, probing: BOOLEAN, due: BOOLEAN,
                      successes: 0 .. StableProbes, generation: 0 .. MaxGeneration]
        /\ mode'.degraded = mode.degraded /\ mode'.probing = mode.probing
        /\ mode'.successes = mode.successes /\ mode'.generation = mode.generation
    BY <1>1, <1>2
  <1>4. ModeTyped'
    BY <1>1, <1>3 DEF LimiterInv, ModeTyped
  <1>5. ProbesSound'
    BY <1>1, <1>3 DEF LimiterInv, ProbesSound, ProbeSound
  <1>6. /\ RequestsTyped' /\ LocalHeld(local)' /\ NoReservationLeaks' /\ RedisHeld(redis)'
        /\ PlacesKept'
    BY <1>1 DEF LimiterInv, RequestsTyped, LocalHeld, NoReservationLeaks, RedisHeld, PlacesKept,
                Entries
  <1> QED
    BY <1>4, <1>5, <1>6 DEF LimiterInv

-----------------------------------------------------------------------------
(* The invariant holds *)

LEMMA LimiterInitSound ==
  ASSUME LimiterInit
  PROVE  LimiterInv
  <1>1. /\ EmptyBucket \in Bucket /\ Counted(EmptyBucket) /\ Members(EmptyBucket) = {}
        /\ EmptyBucket.reservations = {} /\ Size(EmptyBucket) = 0
    <2>1. EmptyBucket \in Bucket /\ EmptyBucket.reservations = {} /\ EmptyBucket.failures = {}
      BY DEF EmptyBucket, Bucket
    <2>2. IsFiniteSet({}) /\ Cardinality({}) = 0
      BY FS_EmptySet
    <2> QED
      BY <2>1, <2>2 DEF Counted, Members, Size
  <1>2. RequestsTyped /\ ModeTyped
    BY FreshRequests, LimitsAssumption DEF LimiterInit, RequestsTyped, ModeTyped
  <1>3. RedisHeld(redis)
    BY <1>1, LimitsAssumption DEF LimiterInit, RedisHeld
  <1>4. LocalHeld(local)
    <2>1. Entries(local) = {}
      BY <1>1 DEF LimiterInit, Entries
    <2>2. IsFiniteSet(Entries(local)) /\ Cardinality(Entries(local)) <= MaxEntries
      BY <2>1, FS_EmptySet, LimitsAssumption
    <2> QED
      BY <1>1, <2>2, LimitsAssumption DEF LimiterInit, LocalHeld
  <1>5. NoReservationLeaks
    BY <1>1 DEF LimiterInit, NoReservationLeaks
  <1>6. PlacesKept
    <2>1. \A r \in Requests : req[r] = Idle /\ NoneLate(r, late)
      BY DEF LimiterInit, NoneLate
    <2> QED
      BY <2>1, FreshRequests DEF PlacesKept, PlaceKept
  <1>7. ProbesSound
    <2>1. \A r \in Requests : req[r].phase = "idle"
      BY FreshRequests DEF LimiterInit
    <2> QED
      BY <2>1 DEF LimiterInit, ProbesSound, ProbeSound
  <1> QED
    BY <1>2, <1>3, <1>4, <1>5, <1>6, <1>7 DEF LimiterInv

LEMMA RequestStepSound ==
  ASSUME LimiterInv, NEW r \in Requests, RequestStep(r) \/ AbandonDelivery(r)
  PROVE  LimiterInv'
  <1>1. CASE Arrive(r) \/ Probe(r)
    BY <1>1, ArriveSound, ProbeSoundStep
  <1>2. CASE ProbeSucceeds(r) \/ ProbeFails(r) \/ ProbeCancelled(r)
    BY <1>2, ProbeSucceedsSound, ProbeFailsSound, ProbeCancelledSound
  <1>3. CASE AdmitAnswered(r) \/ AdmitFails(r) \/ AdmitCancelled(r)
    BY <1>3, AdmitAnsweredSound, AdmitFailsSound, AdmitCancelledSound
  <1>4. CASE \E count \in BOOLEAN : Finalize(r, count)
    BY <1>4, FinalizeSound
  <1>5. CASE FinalizeAnswered(r) \/ FinalizeFails(r) \/ FinalizeCancelled(r)
    BY <1>5, FinalizeAnsweredSound, FinalizeFailsSound, FinalizeCancelledSound
  <1>6. CASE Reuse(r) \/ AbandonDelivery(r)
    BY <1>6, ReuseSound, AbandonDeliverySound
  <1> QED
    BY <1>1, <1>2, <1>3, <1>4, <1>5, <1>6 DEF RequestStep

\* What Redis and the clock do besides the requests.
LEMMA RedisStepSound ==
  ASSUME LimiterInv, RedisStep
  PROVE  LimiterInv'
  <1>1. CASE \E c \in late : LateCommand(c[1], c[2]) \/ CommandLost(c)
    <2>1. PICK c \in late : LateCommand(c[1], c[2]) \/ CommandLost(c)
      BY <1>1
    <2>2. c[1] \in Requests /\ c[2] \in Commands
      BY DEF LimiterInv, RequestsTyped
    <2> QED
      BY <2>1, <2>2, LateCommandSound, CommandLostSound
  <1>2. CASE \E b \in Buckets : WindowEnds(b) \/ \E r \in Requests : LeaseEnds(r, b)
    BY <1>2, WindowEndsSound, LeaseEndsSound
  <1> QED
    BY <1>1, <1>2 DEF RedisStep

LEMMA LimiterNextSound ==
  ASSUME LimiterInv, [LimiterNext]_limiterVars
  PROVE  LimiterInv'
  <1>1. CASE \E r \in Requests : RequestStep(r) \/ AbandonDelivery(r)
    BY <1>1, RequestStepSound
  <1>2. CASE RedisStep
    BY <1>2, RedisStepSound
  <1>3. CASE ProbeDue
    BY <1>3, ProbeDueSound
  <1>4. CASE UNCHANGED limiterVars
    <2>1. UNCHANGED <<req, local, redis, late, mode, clean>>
      BY <1>4 DEF limiterVars
    <2>2. /\ LocalHeld(local') /\ RedisHeld(redis') /\ late' \subseteq late
          /\ \A b \in Buckets : local'[b].reservations \subseteq local[b].reservations
          /\ \A q \in Requests : PlaceKept(q, req[q], late', redis')
      BY <2>1 DEF LimiterInv, PlacesKept
    <2> QED
      BY <2>1, <2>2, UnmovedStep
  <1> QED
    BY <1>1, <1>2, <1>3, <1>4 DEF LimiterNext

LEMMA LimiterInvHolds == LimiterSpec => []LimiterInv
  <1>1. LimiterInit => LimiterInv
    BY LimiterInitSound
  <1>2. LimiterInv /\ [LimiterNext]_limiterVars => LimiterInv'
    BY LimiterNextSound
  <1> QED
    BY <1>1, <1>2, PTL DEF LimiterSpec

\* The limits hold wherever they are kept, in Redis and in the memory of the process,
\* whatever was cancelled, late or lost, for any requests, buckets and limits
\* (_ADMIT_SCRIPT, _FINALIZE_SCRIPT, _local_admit, _local_finalize).
THEOREM LimitsHoldHolds == LimiterSpec => []LimitsHold
  <1>1. LimiterInv => LimitsHold
    <2> SUFFICES ASSUME LimiterInv
                 PROVE  LimitsHold
      OBVIOUS
    <2>1. LimiterTypeOK
      BY DEF LimiterInv, RequestsTyped, ModeTyped, LocalHeld, RedisHeld, Commands, LimiterTypeOK
    <2>2. RedisLimitHolds /\ LocalLimitHolds /\ MemoryBounded /\ NoReservationLeaks
      BY DEF LimiterInv, LocalHeld, RedisHeld, RedisLimitHolds, LocalLimitHolds, MemoryBounded
    <2> QED
      BY <2>1, <2>2 DEF LimitsHold
  <1> QED
    BY <1>1, LimiterInvHolds, PTL

-----------------------------------------------------------------------------
(* Failures count *)

\* A step of a request leaves the others where they are.
LEMMA RequestStepIsOwn ==
  ASSUME LimiterInv, NEW r \in Requests, RequestStep(r) \/ AbandonDelivery(r),
         NEW q \in Requests, q # r
  PROVE  req'[q].phase = req[q].phase
  <1>1. req \in [Requests -> Request] /\ req[q] \in Request
    BY DEF LimiterInv, RequestsTyped
  <1>2. (\E n : req' = [req EXCEPT ![r] = n] \/ req' = Harmed(r, n))
          => req'[q].phase = req[q].phase
    BY <1>1 DEF Harmed, Request
  <1>3. CASE Arrive(r) \/ Probe(r)
    BY <1>1, <1>3 DEF Arrive, Probe, Admission
  <1>4. CASE ProbeSucceeds(r)
    BY <1>1, <1>4 DEF ProbeSucceeds, Admission
  <1>5. CASE ProbeFails(r) \/ ProbeCancelled(r)
    BY <1>2, <1>5 DEF ProbeFails, ProbeCancelled
  <1>6. CASE AdmitAnswered(r)
    BY <1>1, <1>6 DEF AdmitAnswered
  <1>7. CASE AdmitFails(r)
    BY <1>2, <1>7 DEF AdmitFails
  <1>8. CASE AdmitCancelled(r)
    BY <1>1, <1>8 DEF AdmitCancelled
  <1>9. CASE \E count \in BOOLEAN : Finalize(r, count)
    BY <1>1, <1>9 DEF Finalize
  <1>10. CASE FinalizeAnswered(r) \/ FinalizeCancelled(r)
    BY <1>1, <1>10 DEF FinalizeAnswered, FinalizeCancelled
  <1>11. CASE FinalizeFails(r)
    BY <1>2, <1>11 DEF FinalizeFails
  <1>12. CASE Reuse(r) \/ AbandonDelivery(r)
    BY <1>1, <1>12 DEF Reuse, AbandonDelivery
  <1> QED
    BY <1>3, <1>4, <1>5, <1>6, <1>7, <1>8, <1>9, <1>10, <1>11, <1>12 DEF RequestStep

\* A request ends with its failure counted: Redis answered that it did, or memory did
\* as far as it had room.
LEMMA EndCounts ==
  ASSUME LimiterInv, NEW r \in Requests, RequestStep(r) \/ AbandonDelivery(r),
         req[r].phase = "finalizing", req[r].count,
         req'[r].phase = "done", req'[r].count
  PROVE  \/ LocalRefuses(r, FALSE, local)
         \/ \A b \in BucketsOf[r] : r \in local'[b].failures \cup redis'[b].failures
  <1>1. req \in [Requests -> Request] /\ req[r] \in Request
    BY DEF LimiterInv, RequestsTyped
  <1>2. PlaceKept(r, req[r], late, redis)
    BY DEF LimiterInv, PlacesKept
  <1>3. BucketsOf[r] \subseteq Buckets
    BY BucketsAssumption
  <1>4. CASE FinalizeAnswered(r)
    <2>1. redis' = Finalized(r, req[r].count, req[r].undo)
      BY <1>4 DEF FinalizeAnswered
    <2>2. PICK count \in BOOLEAN, undo \in BOOLEAN : count = req[r].count /\ undo = req[r].undo
      BY <1>1 DEF Request
    <2>3. \A b \in BucketsOf[r] : r \in redis[b].reservations
      BY <1>1, <1>2 DEF PlaceKept, Request
    <2>4. \A b \in BucketsOf[r] : count /\ r \in redis[b].reservations
                                    => r \in Finalized(r, count, undo)[b].failures
      BY FinalizedHeld DEF LimiterInv
    <2> QED
      BY <2>1, <2>2, <2>3, <2>4
  <1>5. CASE FinalizeFails(r)
    <2>1. local' = CountedLocally(r)
      BY <1>5 DEF FinalizeFails
    <2>2. \A b \in Buckets : r \notin local[b].reservations
      BY NothingReserved
    <2>3. req[r].count /\ ~LocalRefuses(r, FALSE, local) =>
            \A b \in BucketsOf[r] : r \in CountedLocally(r)[b].failures
      BY <2>2, CountedLocallyHeld DEF LimiterInv
    <2> QED
      BY <2>1, <2>3
  <1>6. CASE FinalizeCancelled(r)
    BY <1>1, <1>6 DEF FinalizeCancelled, Request
  <1> QED
    BY <1>4, <1>5, <1>6 DEF RequestStep, Arrive, Probe, ProbeSucceeds, ProbeFails, ProbeCancelled,
       AdmitAnswered, AdmitFails, AdmitCancelled, Finalize, Reuse, AbandonDelivery

\* Only an answered probe ends degraded mode.
LEMMA ProbesEndDegraded ==
  ASSUME LimiterInv, [LimiterNext]_limiterVars, mode.degraded, ~mode'.degraded
  PROVE  \E r \in Requests : ProbeSucceeds(r)
  <1>1. mode \in [degraded: BOOLEAN, probing: BOOLEAN, due: BOOLEAN,
                  successes: 0 .. StableProbes, generation: 0 .. MaxGeneration]
    BY DEF LimiterInv, ModeTyped
  <1>2. mode' # mode
    OBVIOUS
  <1>3. ~Degrade
    BY <1>1 DEF Degrade
  <1>4. ~ProbeDue /\ \A r \in Requests : ~Probe(r) /\ ~ProbeFails(r) /\ ~ProbeCancelled(r)
    BY <1>1 DEF ProbeDue, Probe, ProbeFails, ProbeCancelled
  <1>5. ~RedisStep
    BY <1>2 DEF RedisStep, LateCommand, CommandLost, WindowEnds, LeaseEnds
  <1>6. \A r \in Requests : ~AdmitFails(r) /\ ~FinalizeFails(r)
    BY <1>3 DEF AdmitFails, FinalizeFails
  <1>7. \A r \in Requests :
          /\ ~Arrive(r) /\ ~AdmitAnswered(r) /\ ~AdmitCancelled(r)
          /\ \A count \in BOOLEAN : ~Finalize(r, count)
          /\ ~FinalizeAnswered(r) /\ ~FinalizeCancelled(r) /\ ~Reuse(r) /\ ~AbandonDelivery(r)
    BY <1>2 DEF Arrive, AdmitAnswered, AdmitCancelled, Finalize, FinalizeAnswered,
                FinalizeCancelled, Reuse, AbandonDelivery
  <1> QED
    BY <1>2, <1>4, <1>5, <1>6, <1>7 DEF LimiterNext, RequestStep, limiterVars

\* No failure is lost between the two counts, and degraded mode ends only after
\* StableProbes probes in a row beside which nothing failed (finalize, _mode).
THEOREM FailuresCountHolds == LimiterSpec => FailuresCount
  <1>1. ASSUME LimiterInv, [LimiterNext]_limiterVars, NEW r \in Requests,
               req[r].phase = "finalizing", req[r].count,
               req'[r].phase = "done", req'[r].count
        PROVE  \/ LocalRefuses(r, FALSE, local)
               \/ \A b \in BucketsOf[r] : r \in local'[b].failures \cup redis'[b].failures
    <2>1. req' # req
      BY <1>1
    <2>2. PICK q \in Requests : RequestStep(q) \/ AbandonDelivery(q)
      BY <1>1, <2>1 DEF LimiterNext, limiterVars, RedisStep, LateCommand, CommandLost, WindowEnds,
                        LeaseEnds, ProbeDue
    <2>3. q = r
      BY <1>1, <2>2, RequestStepIsOwn
    <2> QED
      BY <1>1, <2>2, <2>3, EndCounts
  <1>2. ASSUME LimiterInv, [LimiterNext]_limiterVars
        PROVE  mode.degraded /\ ~mode'.degraded => clean' >= StableProbes
    BY <1>2, ProbesEndDegraded, ProbeAnswered
  <1>3. LimiterInv /\ [LimiterNext]_limiterVars =>
          [\A r \in Requests :
             /\ req[r].phase = "finalizing" /\ req[r].count
             /\ req'[r].phase = "done" /\ req'[r].count
             => \/ LocalRefuses(r, FALSE, local)
                \/ \A b \in BucketsOf[r] :
                     \/ r \in local'[b].failures \cup redis'[b].failures
                     \/ redis' # redis /\ r \notin redis[b].reservations]_limiterVars
    BY <1>1
  <1>4. LimiterInv /\ [LimiterNext]_limiterVars =>
          [mode.degraded /\ ~mode'.degraded => clean' >= StableProbes]_limiterVars
    BY <1>2
  <1>5. LimiterSpec => FailureNotForgotten
    BY <1>3, LimiterInvHolds, PTL DEF LimiterSpec, FailureNotForgotten
  <1>6. LimiterSpec => HealthyIsEarned
    BY <1>4, LimiterInvHolds, PTL DEF LimiterSpec, HealthyIsEarned
  <1> QED
    BY <1>5, <1>6 DEF FailuresCount

=============================================================================
