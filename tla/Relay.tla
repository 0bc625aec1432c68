-------------------------------- MODULE Relay --------------------------------
(***************************************************************************)
(* The relay of EssaProxy with its response cache: what handle_client does *)
(* once the request is to be answered (proxy.py:483-508 and 617-652), the  *)
(* two tasks it starts, _pipe and _buffer_compress_and_send, and the cache.*)
(*                                                                         *)
(* A response is a number of chunks.  The handler waits for the first of   *)
(* its two tasks to end and closes both connections; the other task is not *)
(* awaited and runs on.  Compression, masking and the status line change   *)
(* nothing in this: a response that is masked is masked as a whole, and    *)
(* the LLM filter replaces one by a status that is not stored.             *)
(***************************************************************************)
EXTENDS ResponseCache

CONSTANTS
  Client,       \* client connections
  Key,          \* request paths, the keys of the cache
  Methods,      \* the methods of the requests, of {"GET", "POST"}
  Lengths,      \* the lengths a response may have
  BufferLimit,  \* length above which a response is not buffered (5 MB)
  Configs,      \* the configurations: [cache_ttl, cache_max_size, enable_dlp]
  Leaves,       \* TRUE: clients may leave before they are answered
  Fails,        \* TRUE: backend connections may break
  KeepsAlive,   \* TRUE: a backend may leave the connection open
  MaxReloads    \* bound: how often the configuration is reloaded

ASSUME RelayAssumption ==
  /\ Methods \subseteq {"GET", "POST"}
  /\ Lengths \subseteq Nat \ {0}
  /\ BufferLimit \in Nat /\ MaxReloads \in Nat /\ MaxTime \in Nat
  /\ \A f \in Configs : f.cache_ttl \in Nat /\ f.cache_max_size \in Nat

VARIABLES
  config,     \* EssaProxy.config
  reloads,    \* how often it was reloaded
  disabled,   \* history: when caching was last off, or -1
  request,    \* [method, key, length, ok] of each connection
  stage,      \* the handler: "idle", "connecting", "relaying", "closed"
  mode,       \* task2: "none", "buffering", "masking", "piping" or "done"
  sent,       \* chunks that have come from the backend
  got,        \* chunks that task2 has read
  delivered,  \* chunks that were written to the client
  backend,    \* its connection: "open", "ended", "broken" or "closed" by us
  gone        \* the client has closed the connection

handler == <<request, stage, mode, sent, got, delivered, backend, gone>>
vars == <<store, max_size_bytes, now, config, reloads, disabled, handler>>

NoRequest == [method |-> "GET", key |-> "", length |-> 0, ok |-> FALSE]
Replies == {"buffering", "masking", "piping"}

Entries == [expires : Nat, data : [chunks : Nat, length : Nat, at : Nat]]

TypeOK ==
  /\ DOMAIN cache \subseteq Key /\ \A key \in DOMAIN cache : cache[key] \in Entries
  /\ current_size \in Nat /\ max_size_bytes \in Nat /\ now \in 0 .. MaxTime
  /\ config \in Configs /\ reloads \in 0 .. MaxReloads /\ disabled \in -1 .. MaxTime
  /\ request \in [Client -> [method : {"GET", "POST"}, key : Key \cup {""},
                             length : Nat, ok : BOOLEAN]]
  /\ stage \in [Client -> {"idle", "connecting", "relaying", "closed"}]
  /\ mode \in [Client -> {"none", "done"} \cup Replies]
  /\ \A c \in Client : sent[c] \in 0 .. request[c].length /\ got[c] \in 0 .. sent[c]
  /\ delivered \in [Client -> Nat]
  /\ backend \in [Client -> {"open", "ended", "broken", "closed"}]
  /\ gone \in [Client -> BOOLEAN]

Init ==
  /\ config \in Configs
  /\ CacheInit(config.cache_max_size)
  /\ reloads = 0 /\ disabled = IF config.cache_ttl = 0 THEN 0 ELSE -1
  /\ request = [c \in Client |-> NoRequest]
  /\ stage = [c \in Client |-> "idle"]
  /\ mode = [c \in Client |-> "none"]
  /\ sent = [c \in Client |-> 0]
  /\ got = [c \in Client |-> 0]
  /\ delivered = [c \in Client |-> 0]
  /\ backend = [c \in Client |-> "closed"]
  /\ gone = [c \in Client |-> FALSE]

-----------------------------------------------------------------------------
Set(f, c, value) == [f EXCEPT ![c] = value]

(* The two tasks are created; which reply task it is depends on what the   *)
(* configuration says by now.                                              *)
ReplyTask(method) ==
  IF config.enable_dlp THEN "masking"
  ELSE IF method = "GET" /\ config.cache_ttl > 0 THEN "buffering"
  ELSE "piping"

Unchanged(rest) == UNCHANGED <<max_size_bytes, now, config, reloads, disabled, rest>>

(* A request comes on a new connection; the backend's answer to it, if it  *)
(* is asked, is fixed here.  What the cache holds of a GET is written at   *)
(* once, anything else goes to a backend.                                  *)
NewRequest(c, method, key, length, ok) ==
  /\ stage[c] \in {"idle", "closed"} /\ mode[c] \in {"none", "done"}
  /\ request' = Set(request, c, [method |-> method, key |-> key, length |-> length, ok |-> ok])
  /\ mode' = Set(mode, c, "none")
  /\ sent' = Set(sent, c, 0) /\ got' = Set(got, c, 0)
  /\ backend' = Set(backend, c, "closed")
  /\ gone' = Set(gone, c, FALSE)

Looked(method) == method = "GET" /\ config.cache_ttl > 0

Hit(c, method, key) ==
  /\ Looked(method) /\ Fresh(key)
  /\ NewRequest(c, method, key, cache[key].data.length, TRUE)
  /\ delivered' = Set(delivered, c, cache[key].data.chunks)
  /\ stage' = Set(stage, c, "closed")
  /\ Unchanged(store)

Forward(c, method, key, length, ok) ==
  /\ IF Looked(method) THEN Miss(key) ELSE UNCHANGED store
  /\ NewRequest(c, method, key, length, ok)
  /\ delivered' = Set(delivered, c, 0)
  /\ stage' = Set(stage, c, "connecting")
  /\ Unchanged(<<>>)

(* The backend has accepted the connection: the two tasks are created.     *)
StartRelay(c) ==
  /\ stage[c] = "connecting"
  /\ stage' = Set(stage, c, "relaying")
  /\ mode' = Set(mode, c, ReplyTask(request[c].method))
  /\ backend' = Set(backend, c, "open")
  /\ Unchanged(<<store, request, sent, got, delivered, gone>>)

-----------------------------------------------------------------------------
(* Environment: the backend.                                               *)
BackendSends(c) ==
  /\ backend[c] = "open" /\ sent[c] < request[c].length
  /\ sent' = Set(sent, c, sent[c] + 1)
  /\ Unchanged(<<store, request, stage, mode, got, delivered, backend, gone>>)

BackendEnds(c) ==
  /\ backend[c] = "open"
  /\ \/ /\ sent[c] = request[c].length
        /\ backend' = Set(backend, c, "ended")
     \/ /\ Fails
        /\ backend' = Set(backend, c, "broken")
  /\ Unchanged(<<store, request, stage, mode, sent, got, delivered, gone>>)

(* Environment: the client closes its side before it has the answer.       *)
ClientLeaves(c) ==
  /\ Leaves /\ stage[c] \in {"connecting", "relaying"} /\ ~gone[c]
  /\ gone' = Set(gone, c, TRUE)
  /\ Unchanged(<<store, request, stage, mode, sent, got, delivered, backend>>)

-----------------------------------------------------------------------------
(* Mutation: the fallback to the pipe does not write what was buffered.    *)
ReadChunkAlone(c) ==
  LET total == got[c] + 1
      pipes == mode[c] = "piping" \/ (mode[c] = "buffering" /\ total > BufferLimit)
  IN  /\ mode[c] \in Replies /\ got[c] < sent[c]
      /\ got' = Set(got, c, total)
      /\ mode' = Set(mode, c, IF pipes THEN "piping" ELSE mode[c])
      /\ delivered' = Set(delivered, c,
           IF pipes /\ stage[c] = "relaying" THEN delivered[c] + 1 ELSE delivered[c])
      /\ Unchanged(<<store, request, stage, sent, backend, gone>>)

(* task2 reads a chunk.  _pipe writes it on; the buffer grows, and above   *)
(* the limit what it holds is written and the rest piped.                  *)
ReadChunk(c) ==
  LET total == got[c] + 1
      pipes == mode[c] = "piping" \/ (mode[c] = "buffering" /\ total > BufferLimit)
  IN  /\ mode[c] \in Replies /\ got[c] < sent[c]
      /\ got' = Set(got, c, total)
      /\ mode' = Set(mode, c, IF pipes THEN "piping" ELSE mode[c])
      /\ delivered' = Set(delivered, c,
           IF pipes /\ stage[c] = "relaying" THEN total ELSE delivered[c])
      /\ Unchanged(<<store, request, stage, sent, backend, gone>>)

(* Mutation: the loop ends with unread chunks.                             *)
AtEndEarly(c) == backend[c] \in {"broken", "ended", "closed"}

(* The read returns b"" after the last chunk, or raises: both end the loop.*)
AtEnd(c) == backend[c] = "broken" \/ (backend[c] \in {"ended", "closed"} /\ got[c] = sent[c])

(* _pipe ends.                                                             *)
PipeEnds(c) ==
  /\ mode[c] = "piping" /\ AtEnd(c)
  /\ mode' = Set(mode, c, "done")
  /\ Unchanged(<<store, request, stage, sent, got, delivered, backend, gone>>)

(* Mutation: what is not stored is not written either.                     *)
BufferEndsUnsent(c) ==
  /\ mode[c] \in {"buffering", "masking"} /\ AtEnd(c)
  /\ mode' = Set(mode, c, "done")
  /\ IF got[c] > 0 /\ request[c].ok
       THEN /\ Store(request[c].key,
                     [chunks |-> got[c], length |-> request[c].length, at |-> now], config.cache_ttl)
            /\ delivered' = Set(delivered, c, IF stage[c] = "relaying" THEN got[c] ELSE 0)
       ELSE UNCHANGED <<store, delivered>>
  /\ Unchanged(<<request, stage, sent, got, backend, gone>>)

(* _buffer_compress_and_send: what was read is stored if it starts like a  *)
(* 200, and written to the client.                                         *)
BufferEnds(c) ==
  /\ mode[c] \in {"buffering", "masking"} /\ AtEnd(c)
  /\ mode' = Set(mode, c, "done")
  /\ IF got[c] > 0 /\ request[c].ok
       THEN Store(request[c].key,
                  [chunks |-> got[c], length |-> request[c].length, at |-> now], config.cache_ttl)
       ELSE UNCHANGED store
  /\ delivered' = Set(delivered, c, IF stage[c] = "relaying" THEN got[c] ELSE 0)
  /\ Unchanged(<<request, stage, sent, got, backend, gone>>)

(* The first of the two tasks is done, task1 because the client has left:  *)
(* both connections are closed.                                            *)
Close(c) ==
  /\ stage[c] = "relaying" /\ (mode[c] = "done" \/ gone[c])
  /\ stage' = Set(stage, c, "closed")
  /\ backend' = Set(backend, c, IF backend[c] = "open" THEN "closed" ELSE backend[c])
  /\ Unchanged(<<store, request, mode, sent, got, delivered, gone>>)

-----------------------------------------------------------------------------
Reload(new) ==
  /\ reloads < MaxReloads /\ new # config
  /\ reloads' = reloads + 1
  /\ config' = new
  /\ Reconfigure(new.cache_max_size, new.cache_ttl)
  /\ disabled' = IF 0 \in {new.cache_ttl, config.cache_ttl} THEN now ELSE disabled
  /\ UNCHANGED <<now, handler>>

Clock ==
  /\ Tick
  /\ UNCHANGED <<store, max_size_bytes, config, reloads, disabled, handler>>

Tasks(c) ==
  \/ StartRelay(c)
  \/ ReadChunk(c) \/ PipeEnds(c) \/ BufferEnds(c) \/ Close(c)
Backend(c) == BackendSends(c) \/ BackendEnds(c)

Next ==
  \/ \E c \in Client :
       \/ \E method \in Methods, key \in Key :
            \/ Hit(c, method, key)
            \/ \E length \in Lengths, ok \in BOOLEAN : Forward(c, method, key, length, ok)
       \/ Tasks(c)
       \/ Backend(c)
       \/ ClientLeaves(c)
  \/ \E new \in Configs : Reload(new)
  \/ Clock

Spec == Init /\ [][Next]_vars

(* The event loop runs what is ready.  A backend that has accepted the     *)
(* request sends its response; it ends the connection unless it keeps it.  *)
FairSpec ==
  /\ Spec
  /\ \A c \in Client :
       /\ WF_vars(Tasks(c)) /\ WF_vars(BackendSends(c))
       /\ WF_vars(~KeepsAlive /\ BackendEnds(c))

-----------------------------------------------------------------------------
(***************************************************************************)
(* README.md:86: what the cache holds are the responses of the backend,    *)
(* each of them whole.                                                     *)
(***************************************************************************)
CachedComplete ==
  \A key \in DOMAIN cache : cache[key].data.chunks = cache[key].data.length

(***************************************************************************)
(* A client that waits for its answer, with a backend that gives it, has   *)
(* it whole when the connection is closed, whatever other connections did  *)
(* to the cache and however often the configuration changed meanwhile.     *)
(* (What a client gets from the cache is whole if CachedComplete is.)      *)
(***************************************************************************)
AnsweredInFull ==
  \A c \in Client :
    stage[c] = "closed" /\ mode[c] # "none" /\ ~gone[c] /\ backend[c] # "broken"
      => delivered[c] = request[c].length

(***************************************************************************)
(* The accounting of the cache covers what it holds, so that the limit     *)
(* bounds the memory whenever a response has just been stored (cache.py).  *)
(***************************************************************************)
SizeCoversContent == Content <= current_size

StoredWithinLimit ==
  [][\A c \in Client : BufferEnds(c) /\ cache' # cache => Content' <= max_size_bytes]_vars

(***************************************************************************)
(* A reload that turns caching off empties the cache for good: what was    *)
(* stored before, or by relays that ended while it was off, is not served  *)
(* when caching is on again (proxy.py:115-118).                            *)
(***************************************************************************)
NothingSurvivesDisabling ==
  \A key \in DOMAIN cache :
    Fresh(key) => cache[key].data.at >= disabled

(***************************************************************************)
(* A response that the backend has sent in full reaches the client that    *)
(* waits for it, also when it is buffered first.                           *)
(***************************************************************************)
Delivered ==
  \A c \in Client :
    stage[c] = "relaying" /\ sent[c] = request[c].length
      ~> gone[c] \/ backend[c] = "broken" \/ delivered[c] = request[c].length
=============================================================================
