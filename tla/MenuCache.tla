----------------------------- MODULE MenuCache -----------------------------
(***************************************************************************)
(* The menu cache of the catalog (catalog/menu_cache.py and the reads and  *)
(* writes of catalog/service.py that use it).                              *)
(*                                                                         *)
(* A key caches the list of menus or the items of one menu.  Its content   *)
(* in PostgreSQL is a version that every write moves on, and for a menu    *)
(* the set of its items.  Readers fill the cache and writers delete from   *)
(* it after their commit; Redis may fail, reject, time out, or apply a     *)
(* command after its caller gave up.  Time is counted in ticks.            *)
(***************************************************************************)
EXTENDS Integers, FiniteSets

CONSTANTS
    Menus, Items, Readers, Writers,
    List,           \* the key of the list of menus
    None,
    MaxAge,         \* MENU_LIST_MAX_AGE_SECONDS
    Cooldown,       \* MENU_CACHE_RECOVERY_COOLDOWN_SECONDS
    MaxTime,        \* bound: ticks
    MaxWrites,      \* bound: writes
    MaxFailures     \* bound: failed commands, other than those of probes

ASSUME CacheBounds == {MaxAge, Cooldown, MaxTime, MaxWrites, MaxFailures} \subseteq Nat

VARIABLES
    now,
    version,        \* PostgreSQL: version of each key's content
    ended,          \* ghost: when each version was superseded
    menus,          \* menus that exist
    items,          \* items of each menu
    cache,          \* cached payloads
    lateFills,      \* commands Redis may still apply
    openUntil,      \* _open_until
    probing,        \* _probe_in_flight
    reader,         \* reads in progress
    writer,         \* writes in progress
    unsure,         \* ghost: keys whose invalidation failed
    writes,
    failures

cacheVars == <<now, version, ended, menus, items, cache, lateFills, openUntil, probing,
               reader, writer, unsure, writes, failures>>
store == <<version, ended, menus, items, writes>>
circuit == <<openUntil, probing>>

Keys == {List} \cup Menus
Versions == 0 .. MaxWrites

\* MenuListPayload, MenuItemListPayload: what was read and since when it is true.
Payload == [version: Versions, items: SUBSET Items, source: 0 .. MaxTime]

NoRead == [phase |-> "idle", key |-> List, probe |-> FALSE, fill |-> FALSE,
           payload |-> None, hit |-> FALSE]
NoWrite == [phase |-> "idle", op |-> "update_menu", menu |-> None]

Failure == failures < MaxFailures /\ failures' = failures + 1

Cached(k) == IF cache[k] = None THEN None ELSE cache[k].payload

\* Mutant: the lifetime Redis was given is relied on.
ValidPayloadUnaged(p) == p # None

\* _valid_payload, _valid_item_payload.
ValidPayload(p) == p # None /\ p.source <= now /\ now - p.source < MaxAge

-----------------------------------------------------------------------------
(* Readers: list_menus, list_menu_items *)

\* The authorized resource exists, and _begin_lookup says whether to use Redis.
BeginLookup(r, k) ==
    /\ reader[r].phase = "idle"
    /\ k # List => k \in menus
    /\ LET closed == openUntil = None
           probe == ~closed /\ now >= openUntil /\ ~probing
       IN /\ reader' = [reader EXCEPT ![r] =
                [NoRead EXCEPT !.phase = IF closed \/ probe THEN "get" ELSE "query",
                             !.key = k, !.probe = probe]]
          /\ probing' = (probing \/ probe)
    /\ UNCHANGED <<now, store, cache, lateFills, openUntil, writer, unsure, failures>>

\* _finish_probe.
FinishProbe(r, success) ==
    /\ probing' = (probing /\ ~reader[r].probe)
    /\ openUntil' = IF reader[r].probe /\ success THEN None ELSE openUntil

\* GET is answered: a valid payload leads to the next phase, anything else is a miss.
Answered(r, next) ==
    /\ reader[r].phase = "get"
    /\ FinishProbe(r, TRUE)
    /\ LET p == Cached(reader[r].key)
       IN reader' = [reader EXCEPT ![r] =
            [@ EXCEPT !.probe = FALSE, !.fill = TRUE,
                      !.phase = IF ValidPayload(p) THEN next ELSE "query",
                      !.payload = IF ValidPayload(p) THEN p ELSE None,
                      !.hit = ValidPayload(p)]]
    /\ UNCHANGED <<now, store, cache, lateFills, writer, unsure, failures>>

\* lookup, and lookup_menu_items whose hit is checked against live items.
Lookup(r) == reader[r].key = List /\ Answered(r, "answered")
LookupMenuItems(r) == reader[r].key # List /\ Answered(r, "attach")

\* GET fails: transport failures open the circuit, a rejection does not.
GetFails(r) ==
    /\ reader[r].phase = "get"
    /\ IF reader[r].probe THEN UNCHANGED failures ELSE Failure
    /\ probing' = (probing /\ ~reader[r].probe)
    /\ \E transport \in BOOLEAN :
         openUntil' = IF transport THEN now + Cooldown ELSE openUntil
    /\ reader' = [reader EXCEPT ![r].phase = "query", ![r].probe = FALSE]
    /\ UNCHANGED <<now, store, cache, lateFills, writer, unsure>>

\* Mutant: a cancelled probe is not given back.
CancelReadProbing(r) ==
    /\ reader[r].phase = "get"
    /\ reader' = [reader EXCEPT ![r] = NoRead]
    /\ UNCHANGED <<now, store, cache, lateFills, circuit, writer, unsure, failures>>

\* The request is cancelled while it waits for GET.
CancelRead(r) ==
    /\ reader[r].phase = "get"
    /\ FinishProbe(r, FALSE)
    /\ reader' = [reader EXCEPT ![r] = NoRead]
    /\ UNCHANGED <<now, store, cache, lateFills, writer, unsure, failures>>

\* The source is read: its age counts from before the query.
Query(r) ==
    /\ reader[r].phase = "query"
    /\ reader' = [reader EXCEPT ![r].phase = "read",
         ![r].payload = [version |-> version[reader[r].key], source |-> now,
            items |-> IF reader[r].key = List THEN {} ELSE items[reader[r].key]]]
    /\ UNCHANGED <<now, store, cache, lateFills, circuit, writer, unsure, failures>>

\* Mutant: what was read is returned though it is gone.
AttachedHitAnyway(r) == reader[r].payload # None

\* for_menu_items finds every item of the payload in its menu.
Attached(r) == reader[r].payload.items \subseteq items[reader[r].key]

\* A hit with an item that is gone is a miss.
AttachHit(r) ==
    /\ reader[r].phase = "attach"
    /\ reader' = [reader EXCEPT ![r] =
         IF Attached(r) THEN NoRead
         ELSE [@ EXCEPT !.phase = "query", !.payload = None, !.hit = FALSE]]
    /\ UNCHANGED <<now, store, cache, lateFills, circuit, writer, unsure, failures>>

\* After the query a missing item is an error; otherwise the payload is the answer,
\* and is stored first if the lookup reached Redis.
AttachRead(r) ==
    /\ reader[r].phase = "read"
    /\ reader' = [reader EXCEPT ![r] =
         IF reader[r].fill /\ (reader[r].key # List => Attached(r))
         THEN [@ EXCEPT !.phase = "store"] ELSE NoRead]
    /\ UNCHANGED <<now, store, cache, lateFills, circuit, writer, unsure, failures>>

\* What is left of a payload's age.
Remaining(p) == MaxAge - (now - p.source)

\* SET with PX; the ghost field says whether the entry was true when it landed.
Entry(k, p, life) ==
    [payload |-> p, expires |-> now + life, true |-> p.version = version[k]]

\* store, store_menu_items.
Store(r) ==
    /\ reader[r].phase = "store"
    /\ LET p == reader[r].payload
       IN cache' = IF now - p.source < MaxAge
                   THEN [cache EXCEPT ![reader[r].key] = Entry(reader[r].key, p, Remaining(p))]
                   ELSE cache
    /\ reader' = [reader EXCEPT ![r] = NoRead]
    /\ UNCHANGED <<now, store, lateFills, circuit, writer, unsure, failures>>

\* SET fails, and may still be applied later, with the lifetime it was sent with.
StoreFails(r) ==
    /\ reader[r].phase = "store"
    /\ now - reader[r].payload.source < MaxAge
    /\ Failure
    /\ \/ lateFills' = lateFills \cup {[key |-> reader[r].key, payload |-> reader[r].payload,
                              life |-> Remaining(reader[r].payload)]}
       \/ UNCHANGED lateFills
    /\ \E transport \in BOOLEAN :
         openUntil' = IF transport THEN now + Cooldown ELSE openUntil
    /\ reader' = [reader EXCEPT ![r] = NoRead]
    /\ UNCHANGED <<now, store, cache, probing, writer, unsure>>

\* A hit on the list of menus is returned.
Finish(r) ==
    /\ reader[r].phase = "answered"
    /\ reader' = [reader EXCEPT ![r] = NoRead]
    /\ UNCHANGED <<now, store, cache, lateFills, circuit, writer, unsure, failures>>

-----------------------------------------------------------------------------
(* Writers *)

\* The keys whose content a write changes, and the keys it deletes afterwards.
Changed(w) ==
    (IF w.op \in {"create_menu", "update_menu", "delete_menu"} THEN {List} ELSE {})
    \cup (IF w.op \in {"create_menu", "update_menu"} THEN {} ELSE {w.menu})

\* Mutant: a deleted menu only disappears from the list.
InvalidatedList(w) == Changed(w) \cap (IF w.op = "delete_menu" THEN {List} ELSE Keys)

\* _invalidate_menu_list, _invalidate_menu_items, _invalidate_deleted_menu.
Invalidated(w) ==
    CASE w.op \in {"create_menu", "update_menu"} -> {List}
      [] w.op = "delete_menu" -> {List, w.menu}
      [] OTHER -> {w.menu}

\* The transaction of a write; the restaurant's lock lets one commit at a time.
Commit(w, op, m) ==
    /\ writer[w].phase = "idle"
    /\ writes < MaxWrites
    /\ writes' = writes + 1
    /\ LET write == [phase |-> "committed", op |-> op, menu |-> m]
       IN /\ writer' = [writer EXCEPT ![w] = write]
          /\ ended' = [k \in Keys |-> IF k \in Changed(write)
                           THEN [ended[k] EXCEPT ![version[k]] = now] ELSE ended[k]]
          /\ version' = [k \in Keys |-> IF k \in Changed(write)
                           THEN version[k] + 1 ELSE version[k]]
    /\ UNCHANGED <<now, cache, lateFills, circuit, reader, unsure, failures>>

\* A new menu has an unused id.
CreateMenu(w, m) ==
    /\ m \notin menus /\ version[m] = 0
    /\ menus' = menus \cup {m}
    /\ Commit(w, "create_menu", m)
    /\ UNCHANGED items

UpdateMenu(w, m) ==
    /\ m \in menus
    /\ Commit(w, "update_menu", m)
    /\ UNCHANGED <<menus, items>>

DeleteMenu(w, m) ==
    /\ m \in menus /\ items[m] = {}
    /\ menus' = menus \ {m}
    /\ Commit(w, "delete_menu", m)
    /\ UNCHANGED items

\* A deleted item's id may come back, which is more than PostgreSQL allows.
CreateMenuItem(w, m, i) ==
    /\ m \in menus /\ i \notin items[m]
    /\ items' = [items EXCEPT ![m] = @ \cup {i}]
    /\ Commit(w, "create_item", m)
    /\ UNCHANGED menus

UpdateMenuItem(w, m, i) ==
    /\ m \in menus /\ i \in items[m]
    /\ Commit(w, "update_item", m)
    /\ UNCHANGED <<menus, items>>

\* An item with order history is deactivated instead.
DeleteMenuItem(w, m, i) ==
    /\ m \in menus /\ i \in items[m]
    /\ \E history \in BOOLEAN :
         items' = IF history THEN items ELSE [items EXCEPT ![m] = @ \ {i}]
    /\ Commit(w, "delete_item", m)
    /\ UNCHANGED menus

\* invalidate, after the commit.
Invalidate(w) ==
    /\ writer[w].phase = "committed"
    /\ cache' = [k \in Keys |-> IF k \in Invalidated(writer[w]) THEN None ELSE cache[k]]
    /\ writer' = [writer EXCEPT ![w] = NoWrite]
    /\ UNCHANGED <<now, store, lateFills, circuit, reader, unsure, failures>>

\* A failed invalidation is logged: the write stands and the circuit stays as it is.
InvalidateFails(w) ==
    /\ writer[w].phase = "committed"
    /\ Failure
    /\ unsure' = unsure \cup Invalidated(writer[w])
    /\ writer' = [writer EXCEPT ![w] = NoWrite]
    /\ UNCHANGED <<now, store, cache, lateFills, circuit, reader>>

-----------------------------------------------------------------------------
(* Redis and time *)

\* A command whose caller gave up is applied after all.
ApplyLate(c) ==
    /\ c \in lateFills
    /\ cache' = [cache EXCEPT ![c.key] = Entry(c.key, c.payload, c.life)]
    /\ lateFills' = lateFills \ {c}
    /\ UNCHANGED <<now, store, circuit, reader, writer, unsure, failures>>

\* Time passes, and Redis drops what has expired.
Tick ==
    /\ now < MaxTime
    /\ now' = now + 1
    /\ cache' = [k \in Keys |-> IF cache[k] # None /\ cache[k].expires <= now + 1
                                THEN None ELSE cache[k]]
    /\ UNCHANGED <<store, lateFills, circuit, reader, writer, unsure, failures>>

-----------------------------------------------------------------------------
CacheInit ==
    /\ now = 0
    /\ version = [k \in Keys |-> 0]
    /\ ended = [k \in Keys |-> [v \in Versions |-> None]]
    /\ menus \in {Menus, {}}
    /\ items \in [Menus -> {{}, IF menus = {} THEN {} ELSE Items}]
    /\ cache = [k \in Keys |-> None]
    /\ lateFills = {}
    /\ openUntil = None
    /\ probing = FALSE
    /\ reader = [r \in Readers |-> NoRead]
    /\ writer = [w \in Writers |-> NoWrite]
    /\ unsure = {}
    /\ writes = 0
    /\ failures = 0

ReaderStep(r) ==
    \/ \E k \in Keys : BeginLookup(r, k)
    \/ Lookup(r) \/ LookupMenuItems(r) \/ GetFails(r) \/ CancelRead(r) \/ Query(r)
    \/ AttachHit(r) \/ AttachRead(r) \/ Store(r) \/ StoreFails(r) \/ Finish(r)

WriterStep(w) ==
    \/ \E m \in Menus : CreateMenu(w, m) \/ UpdateMenu(w, m) \/ DeleteMenu(w, m)
    \/ \E m \in Menus, i \in Items :
         CreateMenuItem(w, m, i) \/ UpdateMenuItem(w, m, i) \/ DeleteMenuItem(w, m, i)
    \/ Invalidate(w) \/ InvalidateFails(w)

CacheNext ==
    \/ \E r \in Readers : ReaderStep(r)
    \/ \E w \in Writers : WriterStep(w)
    \/ \E c \in lateFills : ApplyLate(c)
    \/ Tick

CacheSpec == CacheInit /\ [][CacheNext]_cacheVars

-----------------------------------------------------------------------------
(* Properties *)

\* Every variable keeps its type, and every entry a lifetime that Redis accepts.
CacheTypeOK ==
    /\ now \in 0 .. MaxTime /\ version \in [Keys -> Versions]
    /\ menus \subseteq Menus /\ items \in [Menus -> SUBSET Items]
    /\ \A k \in Keys :
         cache[k] # None => cache[k].payload \in Payload /\ now < cache[k].expires
    /\ openUntil \in {None} \cup Nat /\ probing \in BOOLEAN
    /\ \A r \in Readers : reader[r].phase \in
            {"idle", "get", "query", "read", "attach", "store", "answered"}
    /\ unsure \subseteq Keys

\* What a lookup accepts was true less than MaxAge ago, also when an old fill lands
\* after a write and its invalidation, or long after its reader gave up.
BoundedStaleness ==
    [][\A r \in Readers :
         reader'[r].hit /\ ~reader[r].hit =>
            LET end == ended[reader'[r].key][reader'[r].payload.version]
            IN end = None \/ now - end < MaxAge]_cacheVars

\* An entry that was true when it landed is gone once the write that made it false
\* has finished, unless that write could not reach Redis; only a fill that overtakes
\* a write leaves a false entry behind, and BoundedStaleness limits that one.
TrueEntriesAreDeleted ==
    \A k \in Keys :
        \/ Cached(k) = None \/ ~cache[k].true \/ Cached(k).version = version[k]
        \/ k \in unsure
        \/ \E w \in Writers : writer[w].phase = "committed" /\ k \in Changed(writer[w])

\* An answer from the cache lists no item that was gone when it was put together.
NoDeletedItems ==
    [][\A r \in Readers :
         reader[r].phase = "attach" /\ reader'[r].phase = "idle" =>
            reader[r].payload.items \subseteq items[reader[r].key]]_cacheVars

\* The probe is under way exactly while the circuit says so; a probe that is lost
\* would keep the cache out of use for ever.
ProbeFlagTrue ==
    /\ probing = (\E r \in Readers : reader[r].probe)
    /\ Cardinality({r \in Readers : reader[r].probe}) <= 1

\* Redis holds what the protocol accounts for: no entry outlives the write that made
\* it false by accident, and no probe is forgotten.
CacheAccounted ==
    /\ CacheTypeOK
    /\ TrueEntriesAreDeleted
    /\ ProbeFlagTrue

\* Answers from the cache are recently true and name nothing that is gone.
AnswersAreRecent ==
    /\ BoundedStaleness
    /\ NoDeletedItems

\* A probe that fails starts another cooldown (docs/api/catalog-cache.md).
FailedProbeCools ==
    [][\A r \in Readers :
         reader[r].probe /\ reader'[r].phase = "query" /\ openUntil' # None
            => now < openUntil']_cacheVars

=============================================================================
