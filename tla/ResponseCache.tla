---------------------------- MODULE ResponseCache ----------------------------
(***************************************************************************)
(* The local store of ResponseCache (essaproxy/cache.py), without Redis.   *)
(* Its methods hold the lock across no await, so each is one step.  A      *)
(* stored response is a record with a field `chunks', its length.          *)
(***************************************************************************)
EXTENDS Integers, FiniteSets, Functions

CONSTANT MaxTime   \* bound: how far the clock runs

VARIABLES
  cache,           \* self.cache: key -> [expires, data]
  current_size,    \* self.current_size
  max_size_bytes,  \* self.max_size_bytes
  now              \* time.time()

store == <<cache, current_size>>

NoEntries == [key \in {} |-> 0]

CacheInit(limit) ==
  /\ cache = NoEntries
  /\ current_size = 0
  /\ max_size_bytes = limit
  /\ now = 0

(* What the entries really hold: the chunks that are stored under each key.*)
Chunks(key, n) == {key} \X (1 .. n)
Stored == UNION {Chunks(key, cache[key].data.chunks) : key \in DOMAIN cache}
Content == Cardinality(Stored)

Fresh(key) == key \in DOMAIN cache /\ now < cache[key].expires

(* get of a key that is not fresh: an expired entry is removed.            *)
Miss(key) ==
  /\ ~Fresh(key)
  /\ IF key \in DOMAIN cache
       THEN /\ current_size' = current_size - cache[key].data.chunks
            /\ cache' = Restrict(cache, DOMAIN cache \ {key})
       ELSE UNCHANGED store

(* Mutation: the length of the new response is left out.                   *)
EvictsLate(data) == current_size > max_size_bytes

(* set: too large, or into the emptied or the present store.  The length   *)
(* of an entry that is overwritten is not taken off.                       *)
Evicts(data) == current_size + data.chunks > max_size_bytes

(* Mutation: only the number is reset when the store is full.              *)
StoreUnevicted(key, data, ttl) ==
  IF data.chunks > max_size_bytes THEN UNCHANGED store
  ELSE /\ cache' = [k \in DOMAIN cache \cup {key} |->
                      IF k = key THEN [expires |-> now + ttl, data |-> data] ELSE cache[k]]
       /\ current_size' = (IF Evicts(data) THEN 0 ELSE current_size) + data.chunks

Store(key, data, ttl) ==
  IF data.chunks > max_size_bytes THEN UNCHANGED store
  ELSE LET kept == IF Evicts(data) THEN {} ELSE DOMAIN cache
       IN  /\ cache' = [k \in kept \cup {key} |->
                          IF k = key THEN [expires |-> now + ttl, data |-> data] ELSE cache[k]]
           /\ current_size' = (IF Evicts(data) THEN 0 ELSE current_size) + data.chunks

(* Mutations: caching that is turned off keeps its entries; clear() resets *)
(* the number only.                                                        *)
ReconfigureKept(limit, ttl) ==
  /\ max_size_bytes' = limit
  /\ UNCHANGED store
ReconfigureSize(limit, ttl) ==
  /\ max_size_bytes' = limit
  /\ current_size' = IF ttl = 0 THEN 0 ELSE current_size
  /\ UNCHANGED cache

(* reload_config: the limit is set, and clear() called if caching is off.  *)
Reconfigure(limit, ttl) ==
  /\ max_size_bytes' = limit
  /\ IF ttl = 0 THEN cache' = NoEntries /\ current_size' = 0 ELSE UNCHANGED store

Tick ==
  /\ now < MaxTime
  /\ now' = now + 1
=============================================================================
