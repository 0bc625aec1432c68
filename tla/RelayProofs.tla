---------------------------- MODULE RelayProofs -----------------------------
(***************************************************************************)
(* For any number of clients, paths, reloads and responses of any length:  *)
(* a client that waits is answered in full, nothing that was cached before *)
(* caching was turned off is served later, and a response is stored short  *)
(* only by a reply task whose client has left or whose backend broke.      *)
(***************************************************************************)
EXTENDS Relay, FiniteSetTheorems, TLAPS

-----------------------------------------------------------------------------
Requests == [method : {"GET", "POST"}, key : Key \cup {""}, length : Nat, ok : BOOLEAN]

Typed ==
  /\ request \in [Client -> Requests]
  /\ stage \in [Client -> {"idle", "connecting", "relaying", "closed"}]
  /\ mode \in [Client -> {"none", "done"} \cup Replies]
  /\ sent \in [Client -> Nat] /\ got \in [Client -> Nat] /\ delivered \in [Client -> Nat]
  /\ backend \in [Client -> {"open", "ended", "broken", "closed"}]
  /\ gone \in [Client -> BOOLEAN]
  /\ config \in Configs /\ now \in Nat /\ max_size_bytes \in Nat
  /\ \A key \in DOMAIN cache : cache[key] \in Entries

(* Where a connection stands: what has been read was sent, a backend that  *)
(* has ended has sent everything, and what is piped is written as it is    *)
(* read.  A reply task outlives the handler only if the client has left.   *)
Counts(c) ==
  /\ got[c] <= sent[c] /\ sent[c] <= request[c].length
  /\ backend[c] = "ended" => sent[c] = request[c].length

Stages(c) ==
  /\ stage[c] = "idle" => mode[c] = "none"
  /\ stage[c] = "connecting" =>
       mode[c] = "none" /\ backend[c] = "closed" /\ got[c] = 0 /\ sent[c] = 0 /\ delivered[c] = 0
  /\ stage[c] = "relaying" => mode[c] # "none" /\ backend[c] # "closed"
  /\ stage[c] = "closed" /\ mode[c] \in Replies => gone[c]

Delivery(c) ==
  /\ stage[c] = "relaying" /\ mode[c] = "piping" => delivered[c] = got[c]
  /\ mode[c] = "done" /\ ~gone[c] /\ backend[c] # "broken" => delivered[c] = request[c].length

RelayOK(c) == Counts(c) /\ Stages(c) /\ Delivery(c)

(* Caching that is off leaves nothing fresh.                               *)
OffIsEmpty ==
  /\ disabled \in Int /\ disabled <= now
  /\ config.cache_ttl = 0 => \A key \in DOMAIN cache : ~Fresh(key)
  /\ NothingSurvivesDisabling

Inv == Typed /\ OffIsEmpty /\ \A c \in Client : RelayOK(c)

LEMMA ConfigsAreTyped == \A f \in Configs : f.cache_ttl \in Nat /\ f.cache_max_size \in Nat
  BY RelayAssumption

LEMMA InitInv == Init => Inv
<1> SUFFICES ASSUME Init PROVE Inv
  OBVIOUS
<1>1. Typed
  BY ConfigsAreTyped DEF Init, CacheInit, Typed, Requests, NoRequest, NoEntries, Replies
<1>2. OffIsEmpty
  BY DEF Init, CacheInit, OffIsEmpty, NothingSurvivesDisabling, Fresh, NoEntries
<1>3. ASSUME NEW c \in Client PROVE RelayOK(c)
  <2>1. request[c].length = 0
    BY DEF Init, NoRequest
  <2>2. /\ stage[c] = "idle" /\ mode[c] = "none" /\ backend[c] = "closed"
        /\ got[c] = 0 /\ sent[c] = 0
    BY DEF Init
  <2> QED BY <2>1, <2>2 DEF RelayOK, Counts, Stages, Delivery
<1> QED BY <1>1, <1>2, <1>3 DEF Inv

-----------------------------------------------------------------------------
(* The cache: a look-up that misses, and a response that is stored.        *)
LEMMA MissKeeps ==
  ASSUME Inv, NEW key, Miss(key)
  PROVE  \A k \in DOMAIN cache' : k \in DOMAIN cache /\ cache'[k] = cache[k]
  BY DEF Miss, Restrict, store

(* The steps that change the store: a response is stored, a look-up takes  *)
(* out what is stale, a reload empties it.                                 *)
LEMMA StoreSteps ==
  ASSUME [Next]_vars
  PROVE  \/ \E c \in Client : BufferEnds(c)
         \/ \E key : Miss(key)
         \/ cache' = NoEntries /\ current_size' = 0
         \/ UNCHANGED store
<1>1. ASSUME NEW c, NEW method, NEW key, NEW length, NEW ok,
             Hit(c, method, key) \/ Forward(c, method, key, length, ok)
      PROVE  Miss(key) \/ UNCHANGED store
  BY <1>1 DEF Hit, Forward, Unchanged
<1>2. ASSUME NEW c, StartRelay(c) \/ ReadChunk(c) \/ PipeEnds(c) \/ Close(c)
      PROVE  UNCHANGED store
  BY <1>2 DEF StartRelay, ReadChunk, PipeEnds, Close, Unchanged
<1>3. ASSUME NEW c, Backend(c) \/ ClientLeaves(c)
      PROVE  UNCHANGED store
  BY <1>3 DEF Backend, BackendSends, BackendEnds, ClientLeaves, Unchanged
<1>4. ASSUME NEW new, Reload(new)
      PROVE  (cache' = NoEntries /\ current_size' = 0) \/ UNCHANGED store
  BY <1>4 DEF Reload, Reconfigure
<1>5. ASSUME Clock \/ UNCHANGED vars PROVE UNCHANGED store
  BY <1>5 DEF Clock, vars
<1> QED BY <1>1, <1>2, <1>3, <1>4, <1>5 DEF Next, Tasks

LEMMA StoreKeeps ==
  ASSUME Inv, NEW key, NEW data, NEW ttl, Store(key, data, ttl)
  PROVE  \A k \in DOMAIN cache' :
           \/ k \in DOMAIN cache /\ cache'[k] = cache[k]
           \/ k = key /\ cache'[k] = [expires |-> now + ttl, data |-> data]
  BY DEF Store, store

(* A step that only removes entries, or adds what is stored now for as     *)
(* long as the configuration says, leaves the cache well.                  *)
LEMMA CacheOK ==
  ASSUME Inv, UNCHANGED <<now, config, disabled>>,
         \A k \in DOMAIN cache' :
           \/ k \in DOMAIN cache /\ cache'[k] = cache[k]
           \/ /\ cache'[k] \in Entries /\ cache'[k].data.at = now
              /\ cache'[k].expires = now + config.cache_ttl
  PROVE  OffIsEmpty' /\ \A k \in DOMAIN cache' : cache'[k] \in Entries
<1>1. \A k \in DOMAIN cache' : cache'[k] \in Entries
  BY DEF Inv, Typed
<1>2. (config.cache_ttl = 0 => \A k \in DOMAIN cache : ~Fresh(k))'
  BY DEF Inv, Typed, OffIsEmpty, Fresh
<1>3. NothingSurvivesDisabling'
  BY DEF Inv, Typed, OffIsEmpty, NothingSurvivesDisabling, Fresh
<1> QED BY <1>1, <1>2, <1>3 DEF Inv, OffIsEmpty

(* A step of the relay of one connection: the others stay where they are.  *)
Only(c) ==
  \A d \in Client \ {c} :
    /\ request'[d] = request[d] /\ stage'[d] = stage[d] /\ mode'[d] = mode[d]
    /\ sent'[d] = sent[d] /\ got'[d] = got[d] /\ delivered'[d] = delivered[d]
    /\ backend'[d] = backend[d] /\ gone'[d] = gone[d]

LEMMA OneRelay ==
  ASSUME Inv, NEW c \in Client, Only(c), RelayOK(c)', Typed', OffIsEmpty'
  PROVE  Inv'
<1>1. ASSUME NEW d \in Client \ {c} PROVE RelayOK(d)'
  BY <1>1 DEF Only, Inv, RelayOK, Counts, Stages, Delivery
<1> QED BY <1>1 DEF Inv

(* Steps that do not touch the cache.                                      *)
LEMMA CacheLasts ==
  ASSUME Inv, UNCHANGED <<cache, now, config, disabled>>
  PROVE  OffIsEmpty' /\ \A k \in DOMAIN cache' : cache'[k] \in Entries
  BY CacheOK

-----------------------------------------------------------------------------
LEMMA NewRequestOK ==
  ASSUME Inv, NEW c \in Client, NEW method \in Methods, NEW key \in Key, NEW length \in Nat,
         NEW ok \in BOOLEAN, NEW chunks \in Nat, NEW next \in {"connecting", "closed"},
         NewRequest(c, method, key, length, ok),
         delivered' = Set(delivered, c, chunks), next = "connecting" => chunks = 0,
         stage' = Set(stage, c, next),
         UNCHANGED <<max_size_bytes, now, config, disabled>>,
         OffIsEmpty', \A k \in DOMAIN cache' : cache'[k] \in Entries
  PROVE  Inv'
<1>1. method \in {"GET", "POST"}
  BY RelayAssumption
<1>2. Typed'
  BY <1>1 DEF NewRequest, Set, Inv, Typed, Requests
<1>3. RelayOK(c)'
  BY DEF NewRequest, Set, Inv, Typed, RelayOK, Counts, Stages, Delivery, Replies
<1>4. Only(c)
  BY DEF NewRequest, Set, Inv, Typed, Only
<1> QED BY <1>2, <1>3, <1>4, OneRelay

LEMMA HitInv ==
  ASSUME Inv, NEW c \in Client, NEW method \in Methods, NEW key \in Key, Hit(c, method, key)
  PROVE  Inv'
<1>1. cache[key] \in Entries
  BY DEF Hit, Fresh, Inv, Typed
<1>2. cache[key].data.length \in Nat /\ cache[key].data.chunks \in Nat
  BY <1>1 DEF Entries
<1>3. UNCHANGED <<cache, max_size_bytes, now, config, disabled>>
  BY DEF Hit, Unchanged, store
<1> QED BY <1>2, <1>3, CacheLasts, NewRequestOK DEF Hit

LEMMA ForwardInv ==
  ASSUME Inv, NEW c \in Client, NEW method \in Methods, NEW key \in Key,
         NEW length \in Lengths, NEW ok \in BOOLEAN, Forward(c, method, key, length, ok)
  PROVE  Inv'
<1>1. length \in Nat
  BY RelayAssumption
<1>2. UNCHANGED <<max_size_bytes, now, config, disabled>>
  BY DEF Forward, Unchanged
<1>3. \A k \in DOMAIN cache' : k \in DOMAIN cache /\ cache'[k] = cache[k]
  BY MissKeeps DEF Forward, store
<1>4. OffIsEmpty' /\ \A k \in DOMAIN cache' : cache'[k] \in Entries
  BY <1>2, <1>3, CacheOK
<1> QED BY <1>1, <1>2, <1>4, NewRequestOK DEF Forward

(* The steps of a relay and of its backend that leave the cache.           *)
LEMMA QuietRelayInv ==
  ASSUME Inv, NEW c \in Client,
         \/ StartRelay(c) \/ ReadChunk(c) \/ PipeEnds(c) \/ Close(c)
         \/ BackendSends(c) \/ BackendEnds(c) \/ ClientLeaves(c)
  PROVE  Inv'
<1>1. UNCHANGED <<cache, max_size_bytes, now, config, disabled>>
  BY DEF StartRelay, ReadChunk, PipeEnds, Close, BackendSends, BackendEnds, ClientLeaves,
         Unchanged, store
<1>2. OffIsEmpty' /\ \A k \in DOMAIN cache' : cache'[k] \in Entries
  BY <1>1, CacheLasts
<1>3. RelayOK(c) /\ request[c].length \in Nat
  BY DEF Inv, Typed, Requests
<1>4. CASE StartRelay(c)
  <2>1. ReplyTask(request[c].method) \in Replies
    BY DEF ReplyTask, Replies
  <2>2. Typed' /\ Only(c)
    BY <1>1, <1>2, <1>4, <2>1 DEF StartRelay, Unchanged, Set, Inv, Typed, Only
  <2>3. RelayOK(c)'
    BY <1>3, <1>4, <2>1
       DEF StartRelay, Unchanged, Set, Inv, Typed, RelayOK, Counts, Stages, Delivery, Replies
  <2> QED BY <1>2, <2>2, <2>3, OneRelay
<1>5. CASE ReadChunk(c)
  <2>1. Typed' /\ Only(c)
    BY <1>1, <1>2, <1>5 DEF ReadChunk, Unchanged, Set, Inv, Typed, Only, Replies
  <2>2. RelayOK(c)'
    BY <1>3, <1>5
       DEF ReadChunk, Unchanged, Set, Inv, Typed, RelayOK, Counts, Stages, Delivery, Replies
  <2> QED BY <1>2, <2>1, <2>2, OneRelay
<1>6. CASE PipeEnds(c)
  <2>1. Typed' /\ Only(c)
    BY <1>1, <1>2, <1>6 DEF PipeEnds, Unchanged, Set, Inv, Typed, Only
  <2>2. RelayOK(c)'
    BY <1>3, <1>6 DEF PipeEnds, AtEnd, Unchanged, Set, Inv, Typed,
                      RelayOK, Counts, Stages, Delivery, Replies
  <2> QED BY <1>2, <2>1, <2>2, OneRelay
<1>7. CASE Close(c)
  <2>1. Typed' /\ Only(c)
    BY <1>1, <1>2, <1>7 DEF Close, Unchanged, Set, Inv, Typed, Only
  <2>2. RelayOK(c)'
    BY <1>3, <1>7
       DEF Close, Unchanged, Set, Inv, Typed, RelayOK, Counts, Stages, Delivery, Replies
  <2> QED BY <1>2, <2>1, <2>2, OneRelay
<1>8. CASE BackendSends(c)
  <2>1. Typed' /\ Only(c)
    BY <1>1, <1>2, <1>8 DEF BackendSends, Unchanged, Set, Inv, Typed, Only
  <2>2. RelayOK(c)'
    BY <1>3, <1>8
       DEF BackendSends, Unchanged, Set, Inv, Typed, RelayOK, Counts, Stages, Delivery, Replies
  <2> QED BY <1>2, <2>1, <2>2, OneRelay
<1>9. CASE BackendEnds(c)
  <2>1. Typed' /\ Only(c)
    BY <1>1, <1>2, <1>9 DEF BackendEnds, Unchanged, Set, Inv, Typed, Only
  <2>2. RelayOK(c)'
    BY <1>3, <1>9
       DEF BackendEnds, Unchanged, Set, Inv, Typed, RelayOK, Counts, Stages, Delivery, Replies
  <2> QED BY <1>2, <2>1, <2>2, OneRelay
<1>10. CASE ClientLeaves(c)
  <2>1. Typed' /\ Only(c)
    BY <1>1, <1>2, <1>10 DEF ClientLeaves, Unchanged, Set, Inv, Typed, Only
  <2>2. RelayOK(c)'
    BY <1>3, <1>10
       DEF ClientLeaves, Unchanged, Set, Inv, Typed, RelayOK, Counts, Stages, Delivery, Replies
  <2> QED BY <1>2, <2>1, <2>2, OneRelay
<1> QED BY <1>4, <1>5, <1>6, <1>7, <1>8, <1>9, <1>10

(* The end of a buffered reply: what was read is stored, and written to    *)
(* the client unless both connections are closed already.                  *)
LEMMA BufferEndsInv ==
  ASSUME Inv, NEW c \in Client, BufferEnds(c)
  PROVE  Inv'
<1> DEFINE data == [chunks |-> got[c], length |-> request[c].length, at |-> now]
<1>1. RelayOK(c) /\ request[c].length \in Nat /\ got[c] \in Nat
      /\ now \in Nat /\ config.cache_ttl \in Nat
  BY ConfigsAreTyped DEF Inv, Typed, Requests
<1>2. [expires |-> now + config.cache_ttl, data |-> data] \in Entries
  BY <1>1 DEF Entries
<1>3. UNCHANGED <<max_size_bytes, now, config, disabled>>
  BY DEF BufferEnds, Unchanged
<1>4. OffIsEmpty' /\ \A k \in DOMAIN cache' : cache'[k] \in Entries
  <2>1. CASE Store(request[c].key, data, config.cache_ttl)
    <3> DEFINE new == [expires |-> now + config.cache_ttl, data |-> data]
    <3>1. \A k \in DOMAIN cache' :
            (k \in DOMAIN cache /\ cache'[k] = cache[k]) \/ cache'[k] = new
      BY <2>1, StoreKeeps
    <3>2. new.expires = now + config.cache_ttl /\ new.data.at = now /\ new \in Entries
      BY <1>2
    <3> QED BY <1>3, <3>1, <3>2, CacheOK
  <2>2. CASE UNCHANGED store
    BY <1>3, <2>2, CacheLasts DEF store
  <2> QED BY <2>1, <2>2 DEF BufferEnds
<1>5. Typed' /\ Only(c)
  BY <1>3, <1>4 DEF BufferEnds, Unchanged, Set, Inv, Typed, Only
<1>6. RelayOK(c)'
  BY <1>1 DEF BufferEnds, AtEnd, Unchanged, Set, Inv, Typed,
              RelayOK, Counts, Stages, Delivery, Replies
<1> QED BY <1>4, <1>5, <1>6, OneRelay

(* Steps of no relay at all.                                               *)
LEMMA RelaysLast ==
  ASSUME Inv, UNCHANGED handler
  PROVE  \A c \in Client : RelayOK(c)'
  BY DEF Inv, handler, RelayOK, Counts, Stages, Delivery

LEMMA ReloadInv ==
  ASSUME Inv, NEW new \in Configs, Reload(new)
  PROVE  Inv'
<1>1. /\ config' = new /\ new.cache_ttl \in Nat /\ max_size_bytes' \in Nat
      /\ UNCHANGED <<now, handler>>
      /\ disabled' = IF 0 \in {new.cache_ttl, config.cache_ttl} THEN now ELSE disabled
  BY ConfigsAreTyped DEF Reload, Reconfigure
<1>2. IF new.cache_ttl = 0 THEN DOMAIN cache' = {} ELSE cache' = cache
  BY DEF Reload, Reconfigure, store, NoEntries
<1>3. Typed'
  BY <1>1, <1>2 DEF Inv, Typed, handler
<1>4. OffIsEmpty'
  <2>1. CASE new.cache_ttl = 0
    BY <1>1, <1>2, <2>1 DEF Inv, Typed, OffIsEmpty, NothingSurvivesDisabling, Fresh
  <2>2. CASE new.cache_ttl # 0 /\ config.cache_ttl = 0
    BY <1>1, <1>2, <2>2 DEF Inv, Typed, OffIsEmpty, NothingSurvivesDisabling, Fresh
  <2>3. CASE new.cache_ttl # 0 /\ config.cache_ttl # 0
    BY <1>1, <1>2, <2>3 DEF Inv, OffIsEmpty, NothingSurvivesDisabling, Fresh
  <2> QED BY <2>1, <2>2, <2>3
<1> QED BY <1>1, <1>3, <1>4, RelaysLast DEF Inv

LEMMA ClockInv ==
  ASSUME Inv, Clock
  PROVE  Inv'
<1>1. now' = now + 1 /\ UNCHANGED <<store, max_size_bytes, config, disabled, handler>>
  BY DEF Clock, Tick
<1>2. Typed'
  BY <1>1 DEF Inv, Typed, handler, store
<1>3. \A key \in DOMAIN cache : cache[key].expires \in Nat
  BY DEF Inv, Typed, Entries
<1>4. OffIsEmpty'
  BY <1>1, <1>3 DEF Inv, Typed, OffIsEmpty, NothingSurvivesDisabling, Fresh, store
<1> QED BY <1>1, <1>2, <1>4, RelaysLast DEF Inv

-----------------------------------------------------------------------------
(***************************************************************************)
(* The invariant of the relays and of the cache they share.                *)
(***************************************************************************)
THEOREM RelayInvariance == Spec => []Inv
<1>1. Inv /\ [Next]_vars => Inv'
  <2> SUFFICES ASSUME Inv, [Next]_vars PROVE Inv'
    OBVIOUS
  <2>1. ASSUME NEW c \in Client, NEW method \in Methods, NEW key \in Key, Hit(c, method, key)
        PROVE  Inv'
    BY <2>1, HitInv
  <2>2. ASSUME NEW c \in Client, NEW method \in Methods, NEW key \in Key,
               NEW length \in Lengths, NEW ok \in BOOLEAN, Forward(c, method, key, length, ok)
        PROVE  Inv'
    BY <2>2, ForwardInv
  <2>3. ASSUME NEW c \in Client, Tasks(c) PROVE Inv'
    BY <2>3, QuietRelayInv, BufferEndsInv DEF Tasks
  <2>4. ASSUME NEW c \in Client, Backend(c) \/ ClientLeaves(c) PROVE Inv'
    BY <2>4, QuietRelayInv DEF Backend
  <2>5. ASSUME NEW new \in Configs, Reload(new) PROVE Inv'
    BY <2>5, ReloadInv
  <2>6. CASE Clock
    BY <2>6, ClockInv
  <2>7. CASE UNCHANGED vars
    BY <2>7, CacheLasts, RelaysLast DEF vars, store, handler, Inv, Typed
  <2> QED BY <2>1, <2>2, <2>3, <2>4, <2>5, <2>6, <2>7 DEF Next
<1> QED BY <1>1, InitInv, PTL DEF Spec

(***************************************************************************)
(* A client that waits for a backend that answers has the whole response   *)
(* when the connection is closed, whichever reply task it got and whatever *)
(* other connections and reloads did meanwhile (proxy.py:617-815).         *)
(***************************************************************************)
THEOREM ClientsAreAnswered == Spec => []AnsweredInFull
<1>1. Inv => AnsweredInFull
  <2> SUFFICES ASSUME Inv, NEW c \in Client, stage[c] = "closed", mode[c] # "none", ~gone[c],
                      backend[c] # "broken"
               PROVE  delivered[c] = request[c].length
    BY DEF AnsweredInFull
  <2>1. mode[c] = "done"
    BY DEF Inv, Typed, RelayOK, Stages
  <2> QED BY <2>1 DEF Inv, RelayOK, Delivery
<1> QED BY <1>1, RelayInvariance, PTL

(***************************************************************************)
(* Turning caching off empties the cache for good, also of what relays     *)
(* store that end while it is off (proxy.py:115-118).                      *)
(***************************************************************************)
THEOREM DisablingIsForGood == Spec => []NothingSurvivesDisabling
<1>1. Inv => NothingSurvivesDisabling
  BY DEF Inv, OffIsEmpty
<1> QED BY <1>1, RelayInvariance, PTL

-----------------------------------------------------------------------------
(* An entry that a step puts into the cache, or puts there anew.           *)
Stores(key) == key \in DOMAIN cache' /\ ~(key \in DOMAIN cache /\ cache'[key] = cache[key])

(* A reply that was cut: its backend broke, or its client left and the     *)
(* handler closed the backend's connection before it had sent everything.  *)
Cut(c) == got[c] < request[c].length /\ (gone[c] \/ backend[c] = "broken")

(* What a buffered reply has read when its loop ends.                      *)
LEMMA ReadToTheEnd ==
  ASSUME Inv, NEW c \in Client, BufferEnds(c)
  PROVE  got[c] = request[c].length \/ Cut(c)
<1>1. got[c] \in Nat /\ sent[c] \in Nat /\ request[c].length \in Nat
  BY DEF Inv, Typed, Requests
<1>2. got[c] <= sent[c] /\ sent[c] <= request[c].length
  BY DEF Inv, RelayOK, Counts
<1>3. CASE backend[c] = "broken"
  BY <1>1, <1>2, <1>3 DEF Cut
<1>4. CASE backend[c] = "ended" /\ got[c] = sent[c]
  BY <1>4 DEF Inv, RelayOK, Counts
<1>5. CASE backend[c] = "closed"
  <2>1. stage[c] = "closed" /\ mode[c] \in Replies
    BY <1>5 DEF BufferEnds, Inv, Typed, RelayOK, Stages, Replies
  <2>2. gone[c]
    BY <2>1 DEF Inv, RelayOK, Stages
  <2> QED BY <1>1, <1>2, <2>2 DEF Cut
<1> QED BY <1>3, <1>4, <1>5 DEF BufferEnds, AtEnd

LEMMA StoresWhole ==
  ASSUME Inv, [Next]_vars, NEW key, Stores(key)
  PROVE  \E c \in Client :
           /\ BufferEnds(c) /\ request[c].key = key
           /\ cache'[key].data.chunks = got[c] /\ cache'[key].data.length = request[c].length
<1>1. ASSUME NEW c \in Client, BufferEnds(c)
      PROVE  /\ request[c].key = key
             /\ cache'[key].data.chunks = got[c] /\ cache'[key].data.length = request[c].length
  <2> DEFINE data == [chunks |-> got[c], length |-> request[c].length, at |-> now]
  <2>1. Store(request[c].key, data, config.cache_ttl)
    BY <1>1 DEF BufferEnds, Stores, store
  <2>2. key = request[c].key /\ cache'[key] = [expires |-> now + config.cache_ttl, data |-> data]
    BY <2>1, StoreKeeps DEF Stores
  <2> QED BY <2>2
<1>2. ASSUME NEW k, Miss(k) PROVE FALSE
  BY <1>2, MissKeeps DEF Stores
<1>3. ~(cache' = NoEntries)
  BY DEF NoEntries, Stores
<1>4. ~UNCHANGED store
  BY DEF store, Stores
<1>5. PICK c \in Client : BufferEnds(c)
  BY <1>2, <1>3, <1>4, StoreSteps
<1> QED BY <1>1, <1>5

(***************************************************************************)
(* README.md:86 promises responses of the backend, and a response that is  *)
(* not whole does get into the cache (CachedComplete fails when clients    *)
(* leave).  This is the only way: whatever expires, is overwritten or      *)
(* reconfigured, and whether clients leave and backends break or not, a    *)
(* step that stores an entry shorter than its response is the end of a     *)
(* reply task (proxy.py:729-778) that was cut, by a backend that broke or  *)
(* by the handler that closed it because the client had left.              *)
(***************************************************************************)
THEOREM OnlyCutRepliesAreStoredShort ==
  Spec => [][\A key : Stores(key) /\ cache'[key].data.chunks # cache'[key].data.length
                        => \E c \in Client : BufferEnds(c) /\ request[c].key = key /\ Cut(c)]_vars
<1>1. ASSUME Inv, [Next]_vars, NEW key,
             Stores(key), cache'[key].data.chunks # cache'[key].data.length
      PROVE  \E c \in Client : BufferEnds(c) /\ request[c].key = key /\ Cut(c)
  BY <1>1, StoresWhole, ReadToTheEnd
<1>2. Inv /\ [Next]_vars
        => [\A key : Stores(key) /\ cache'[key].data.chunks # cache'[key].data.length
              => \E c \in Client : BufferEnds(c) /\ request[c].key = key /\ Cut(c)]_vars
  BY <1>1
<1> QED BY <1>2, RelayInvariance, PTL DEF Spec

-----------------------------------------------------------------------------
(* The accounting of the cache.                                            *)
SizeInv ==
  /\ IsFiniteSet(Stored)
  /\ current_size \in Nat
  /\ Content <= current_size

LEMMA ChunksCount ==
  ASSUME NEW key, NEW n \in Nat
  PROVE  IsFiniteSet(Chunks(key, n)) /\ Cardinality(Chunks(key, n)) = n
<1>1. IsFiniteSet({key}) /\ Cardinality({key}) = 1
  BY FS_Singleton
<1>2. IsFiniteSet(1 .. n) /\ Cardinality(1 .. n) = n
  BY FS_Interval
<1>3. /\ IsFiniteSet({key} \X (1 .. n))
      /\ Cardinality({key} \X (1 .. n)) = Cardinality({key}) * Cardinality(1 .. n)
  BY <1>1, <1>2, FS_Product
<1> QED BY <1>1, <1>2, <1>3 DEF Chunks

(* An entry that is removed takes off what it held.                        *)
LEMMA MissSize ==
  ASSUME Inv, SizeInv, NEW key, Miss(key)
  PROVE  SizeInv'
<1>1. CASE UNCHANGED store
  BY <1>1 DEF SizeInv, Content, Stored, store
<1>2. CASE /\ key \in DOMAIN cache
           /\ current_size' = current_size - cache[key].data.chunks
           /\ cache' = Restrict(cache, DOMAIN cache \ {key})
  <2> DEFINE n == cache[key].data.chunks
  <2>1. n \in Nat
    BY <1>2 DEF Inv, Typed, Entries
  <2>2. DOMAIN cache' = DOMAIN cache \ {key} /\ \A k \in DOMAIN cache' : cache'[k] = cache[k]
    BY <1>2 DEF Restrict
  <2>3. Chunks(key, n) \subseteq Stored
    BY <1>2 DEF Stored
  <2>4. Stored' = Stored \ Chunks(key, n)
    BY <2>2 DEF Stored, Chunks
  <2>5. Stored \cap Chunks(key, n) = Chunks(key, n)
    BY <2>3
  <2> HIDE DEF n
  <2>6. IsFiniteSet(Stored') /\ Cardinality(Stored') = Cardinality(Stored) - n
    <3>1. IsFiniteSet(Stored)
      BY DEF SizeInv
    <3>2. /\ IsFiniteSet(Stored \ Chunks(key, n))
          /\ Cardinality(Stored \ Chunks(key, n))
               = Cardinality(Stored) - Cardinality(Stored \cap Chunks(key, n))
      BY <3>1, FS_Difference
    <3>3. Cardinality(Chunks(key, n)) = n
      BY <2>1, ChunksCount
    <3> QED BY <2>4, <2>5, <3>2, <3>3
  <2>7. Cardinality(Stored) \in Nat /\ n <= Cardinality(Stored)
    BY <2>1, <2>3, ChunksCount, FS_CardinalityType, FS_Subset DEF SizeInv
  <2> QED BY <1>2, <2>1, <2>6, <2>7 DEF SizeInv, Content, n
<1> QED BY <1>1, <1>2 DEF Miss

(* A response that is stored adds at most what it holds, within the limit. *)
LEMMA StoreSize ==
  ASSUME Inv, SizeInv, NEW key, NEW data, data.chunks \in Nat, NEW ttl, Store(key, data, ttl)
  PROVE  SizeInv' /\ (cache' # cache => Content' <= max_size_bytes)
<1>1. CASE UNCHANGED store
  BY <1>1 DEF SizeInv, Content, Stored, store
<1>2. CASE ~(data.chunks > max_size_bytes)
  <2> DEFINE kept == IF Evicts(data) THEN {} ELSE Stored
             size == IF Evicts(data) THEN 0 ELSE current_size
             added == Chunks(key, data.chunks)
  <2>1. /\ current_size' = size + data.chunks
        /\ DOMAIN cache' = (IF Evicts(data) THEN {} ELSE DOMAIN cache) \cup {key}
        /\ \A k \in DOMAIN cache' :
             cache'[k] = IF k = key THEN [expires |-> now + ttl, data |-> data] ELSE cache[k]
    BY <1>2 DEF Store
  <2>2. Stored' \subseteq kept \cup added
    <3>1. ASSUME NEW k \in DOMAIN cache'
          PROVE  Chunks(k, cache'[k].data.chunks) \subseteq kept \cup added
      <4>1. CASE k = key
        <5>1. cache'[k].data = data
          BY <2>1, <4>1
        <5> QED BY <4>1, <5>1
      <4>2. CASE k # key
        <5>1. ~Evicts(data) /\ k \in DOMAIN cache /\ cache'[k] = cache[k]
          BY <2>1, <4>2
        <5>2. Chunks(k, cache[k].data.chunks) \subseteq Stored
          BY <5>1 DEF Stored
        <5> QED BY <5>1, <5>2
      <4> QED BY <4>1, <4>2
    <3> QED BY <3>1 DEF Stored
  <2>3. IsFiniteSet(kept) /\ Cardinality(kept) \in Nat /\ Cardinality(kept) <= size
    BY FS_EmptySet, FS_CardinalityType DEF SizeInv, Content
  <2>4. IsFiniteSet(added) /\ Cardinality(added) = data.chunks
    BY ChunksCount
  <2>5. size \in Nat /\ size + data.chunks <= max_size_bytes
    <3>1. max_size_bytes \in Nat
      BY DEF Inv, Typed
    <3> QED BY <1>2, <3>1 DEF SizeInv, Evicts
  <2> HIDE DEF kept, size, added
  <2>6. /\ IsFiniteSet(kept \cup added)
        /\ Cardinality(kept \cup added) <= size + data.chunks
    <3>1. Cardinality(kept \cap added) \in Nat
      BY <2>3, FS_Intersection, FS_CardinalityType
    <3>2. /\ IsFiniteSet(kept \cup added)
          /\ Cardinality(kept \cup added)
               = Cardinality(kept) + Cardinality(added) - Cardinality(kept \cap added)
      BY <2>3, <2>4, FS_Union
    <3> QED BY <2>3, <2>4, <2>5, <3>1, <3>2
  <2>7. IsFiniteSet(Stored') /\ Cardinality(Stored') <= Cardinality(kept \cup added)
    BY <2>2, <2>6, FS_Subset
  <2>8. Cardinality(Stored') \in Nat /\ Cardinality(kept \cup added) \in Nat
    BY <2>6, <2>7, FS_CardinalityType
  <2>9. max_size_bytes \in Nat
    BY DEF Inv, Typed
  <2> QED BY <2>1, <2>5, <2>6, <2>7, <2>8, <2>9 DEF SizeInv, Content
<1> QED BY <1>1, <1>2 DEF Store

LEMMA BufferEndsSize ==
  ASSUME Inv, SizeInv, NEW c \in Client, BufferEnds(c)
  PROVE  SizeInv' /\ (cache' # cache => Content' <= max_size_bytes)
<1> DEFINE data == [chunks |-> got[c], length |-> request[c].length, at |-> now]
<1>1. CASE Store(request[c].key, data, config.cache_ttl)
  <2>1. data.chunks \in Nat
    BY DEF Inv, Typed
  <2> HIDE DEF data
  <2> QED BY <1>1, <2>1, StoreSize
<1>2. CASE UNCHANGED store
  BY <1>2 DEF SizeInv, Content, Stored, store
<1> QED BY <1>1, <1>2 DEF BufferEnds

LEMMA SizeStep ==
  ASSUME Inv, SizeInv, [Next]_vars
  PROVE  SizeInv'
<1>1. ASSUME NEW c \in Client, BufferEnds(c) PROVE SizeInv'
  BY <1>1, BufferEndsSize
<1>2. ASSUME NEW key, Miss(key) PROVE SizeInv'
  BY <1>2, MissSize
<1>3. CASE cache' = NoEntries /\ current_size' = 0
  <2>1. Stored' = {}
    BY <1>3 DEF Stored, NoEntries
  <2> QED BY <1>3, <2>1, FS_EmptySet DEF SizeInv, Content
<1>4. CASE UNCHANGED store
  BY <1>4 DEF SizeInv, Content, Stored, store
<1> QED BY <1>1, <1>2, <1>3, <1>4, StoreSteps

(***************************************************************************)
(* The invariant of the accounting: current_size (cache.py) is an upper    *)
(* bound of the chunks that the entries hold.                              *)
(***************************************************************************)
THEOREM SizeInvariance == Spec => []SizeInv
<1>1. Init => SizeInv
  <2> SUFFICES ASSUME Init PROVE SizeInv
    OBVIOUS
  <2>1. Stored = {}
    BY DEF Init, CacheInit, Stored, NoEntries
  <2> QED BY <2>1, FS_EmptySet DEF Init, CacheInit, SizeInv, Content
<1> QED BY <1>1, SizeStep, RelayInvariance, PTL DEF Spec

(***************************************************************************)
(* ResponseCache.current_size is never less than what the entries hold,    *)
(* through overwrites, expiries, evictions and reloads (cache.py).         *)
(***************************************************************************)
THEOREM SizeIsCovered == Spec => []SizeCoversContent
<1>1. SizeInv => SizeCoversContent
  BY DEF SizeInv, SizeCoversContent
<1> QED BY <1>1, SizeInvariance, PTL

(***************************************************************************)
(* Whenever a response has just been stored, the cache is within its limit.*)
(***************************************************************************)
THEOREM StoresWithinLimit == Spec => StoredWithinLimit
<1>1. Inv /\ SizeInv
        => [\A c \in Client : BufferEnds(c) /\ cache' # cache => Content' <= max_size_bytes]_vars
  BY BufferEndsSize
<1> QED BY <1>1, RelayInvariance, SizeInvariance, PTL DEF StoredWithinLimit

-----------------------------------------------------------------------------
(* The bounds, and that only the paths of requests are keys of the cache.  *)
Ranges ==
  /\ now \in 0 .. MaxTime /\ reloads \in 0 .. MaxReloads /\ disabled \in -1 .. MaxTime
  /\ DOMAIN cache \subseteq Key
  /\ \A c \in Client : stage[c] # "idle" => request[c].key \in Key

LEMMA InitRanges == Init => Ranges
  BY RelayAssumption DEF Init, CacheInit, NoEntries, Ranges

LEMMA RangesStep ==
  ASSUME Inv, Ranges, [Next]_vars
  PROVE  Ranges'
<1>1. ASSUME NEW c \in Client, NEW method, NEW key \in Key, NEW length, NEW ok, NEW next,
             NewRequest(c, method, key, length, ok), stage' = Set(stage, c, next),
             UNCHANGED <<max_size_bytes, now, config, reloads, disabled>>,
             DOMAIN cache' \subseteq DOMAIN cache
      PROVE  Ranges'
  BY <1>1 DEF NewRequest, Set, Inv, Typed, Ranges
<1>2. ASSUME NEW c \in Client, NEW method \in Methods, NEW key \in Key, Hit(c, method, key)
      PROVE  Ranges'
  BY <1>1, <1>2 DEF Hit, Unchanged, store
<1>3. ASSUME NEW c \in Client, NEW method \in Methods, NEW key \in Key, NEW length, NEW ok,
             Forward(c, method, key, length, ok)
      PROVE  Ranges'
  <2>1. DOMAIN cache' \subseteq DOMAIN cache
    BY <1>3, MissKeeps DEF Forward, store
  <2> QED BY <1>1, <1>3, <2>1 DEF Forward, Unchanged
<1>4. ASSUME NEW c \in Client, BufferEnds(c) PROVE Ranges'
  <2>1. request[c].key \in Key
    BY <1>4 DEF BufferEnds, Inv, RelayOK, Stages, Ranges
  <2>2. DOMAIN cache' \subseteq DOMAIN cache \cup {request[c].key}
    BY <1>4 DEF BufferEnds, Store, store
  <2> QED BY <1>4, <2>1, <2>2 DEF BufferEnds, Unchanged, Ranges
<1>5. ASSUME NEW c \in Client,
             \/ StartRelay(c) \/ ReadChunk(c) \/ PipeEnds(c) \/ Close(c)
             \/ Backend(c) \/ ClientLeaves(c)
      PROVE  Ranges'
  <2>1. UNCHANGED <<cache, max_size_bytes, now, config, reloads, disabled, request>>
    BY <1>5 DEF StartRelay, ReadChunk, PipeEnds, Close, Backend, BackendSends, BackendEnds,
                ClientLeaves, Unchanged, store
  <2>2. \A d \in Client : stage'[d] # "idle" => stage[d] # "idle"
    BY <1>5 DEF StartRelay, ReadChunk, PipeEnds, Close, Backend, BackendSends, BackendEnds,
                ClientLeaves, Unchanged, Set, Inv, Typed
  <2> QED BY <2>1, <2>2 DEF Ranges
<1>6. ASSUME NEW new \in Configs, Reload(new) PROVE Ranges'
  <2>1. DOMAIN cache' \subseteq DOMAIN cache
    BY <1>6 DEF Reload, Reconfigure, NoEntries, store
  <2> QED
    BY <1>6, <2>1, RelayAssumption DEF Reload, handler, Ranges
<1>7. CASE Clock
  BY <1>7, RelayAssumption DEF Clock, Tick, store, handler, Ranges
<1>8. CASE UNCHANGED vars
  BY <1>8 DEF vars, store, handler, Ranges
<1> QED BY <1>2, <1>3, <1>4, <1>5, <1>6, <1>7, <1>8 DEF Next, Tasks

(***************************************************************************)
(* The relays and the cache are type correct: the accounted size is never  *)
(* below 0, and no chunk is read that was not sent.                        *)
(***************************************************************************)
THEOREM RelayTyped == Spec => []TypeOK
<1>1. Inv /\ SizeInv /\ Ranges => TypeOK
  <2> SUFFICES ASSUME Inv, SizeInv, Ranges PROVE TypeOK
    OBVIOUS
  <2>1. ASSUME NEW c \in Client
        PROVE  sent[c] \in 0 .. request[c].length /\ got[c] \in 0 .. sent[c]
    <3>1. sent[c] \in Nat /\ got[c] \in Nat /\ request[c].length \in Nat
      BY DEF Inv, Typed, Requests
    <3>2. got[c] <= sent[c] /\ sent[c] <= request[c].length
      BY DEF Inv, RelayOK, Counts
    <3> QED BY <3>1, <3>2
  <2> QED BY <2>1 DEF Inv, Typed, Requests, SizeInv, Ranges, TypeOK
<1>2. Spec => []Ranges
  BY InitRanges, RangesStep, RelayInvariance, PTL DEF Spec
<1> QED BY <1>1, <1>2, RelayInvariance, SizeInvariance, PTL
=============================================================================
