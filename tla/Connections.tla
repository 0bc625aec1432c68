----------------------------- MODULE Connections -----------------------------
(***************************************************************************)
(* The life of a client connection in EssaProxy around the forwarding      *)
(* core: handle_client_wrapper, the checks of handle_client in their order *)
(* (proxy.py), who closes the connection in the end, and what an interrupt *)
(* (cli.py) or EssaProxy.stop do to the handlers that still run.           *)
(*                                                                         *)
(* Every await is a place where other connections, the client and the      *)
(* shutdown come in between; what stands between two awaits is one action. *)
(* A request is the set of its traits that the checks tell apart.  What    *)
(* the forwarding core does with it is the stage "forwarding".             *)
(***************************************************************************)
EXTENDS Integers, Sequences, FiniteSets

CONSTANTS
  Client,      \* connections
  Requests,    \* Requests[c]: what c may ask for, each a set of traits
  Deployments, \* what a configuration enables, each a set of features
  Resolved,    \* the names of the code that exist when they are looked up
  Shutdowns    \* the ways the proxy may be stopped

(* The names that proxy.py uses at lines 223, 272 and 274.                 *)
Names == {"time", "allow_request", "rate_limit_blocks_total"}
AllFeatures ==
  {"chaos", "plugins", "dpi_waf", "honeypot", "tarpit", "ws_backplane",
   "sse_multiplexer", "graphql_waf", "cache"}
Traits ==
  {"standby", "no_peername", "blocklisted", "malicious", "wasm_rejected", "admin",
   "websocket", "event_stream", "unauthorized", "graphql", "cacheable",
   "unconnectable", \* no connection can even be tried to a server of its pool:
                    \* a port above 65535, a host name that has no encoding
   "garbled"}       \* the head stored for it ends only where bytes are ignored

ASSUME ConnectionsAssumption ==
  /\ IsFiniteSet(Client)
  /\ \A c \in Client : Requests[c] \subseteq SUBSET Traits
  /\ Deployments \subseteq SUBSET AllFeatures
  /\ Resolved \subseteq Names
  /\ Shutdowns \subseteq {"interrupt", "stop"}

VARIABLES
  features,      \* what the configuration enables
  proxy,         \* "serving", "draining", "stopping" or "stopped"
  expired,       \* drain_timeout has passed
  drained,       \* stop: the tasks that gather was given
  active_tasks,  \* EssaProxy.active_tasks: connections whose task is in it
  request,       \* the request of each connection
  pc,            \* the await at which each handler stands
  open,          \* the proxy has not closed the connection
  gone,          \* the client has closed it
  refusal,       \* why a connection was turned away
  metrics        \* MetricsCollector

shutdown == <<proxy, expired, drained>>
vars == <<features, shutdown, active_tasks, request, pc, open, gone, refusal, metrics>>

Running == {"resolving", "limiting", "faulting", "reading", "plugins", "body", "lookup",
            "answering", "intercepted", "subscribed", "forwarding"}
Over    == {"ended", "raised", "cut"}

TypeOK ==
  /\ features \in Deployments
  /\ proxy \in {"serving", "draining", "stopping", "stopped"}
  /\ expired \in BOOLEAN
  /\ drained \subseteq Client /\ active_tasks \subseteq Client
  /\ request \in [Client -> SUBSET Traits]
  /\ pc \in [Client -> {"none", "accepted", "trapped"} \cup Running \cup Over]
  /\ open \in [Client -> BOOLEAN] /\ gone \in [Client -> BOOLEAN]
  /\ refusal \in [Client -> {"", "standby", "blocklist", "limit", "fault", "plugin", "waf",
                             "wasm", "unauthorized", "graphql"}]
  /\ metrics \in [requests_total : Nat, waf_blocks_total : Nat,
                  rate_limit_blocks_total : Nat, cache_hits_total : Nat]

Init ==
  /\ features \in Deployments
  /\ proxy = "serving" /\ expired = FALSE /\ drained = {}
  /\ active_tasks = {}
  /\ request = [c \in Client |-> {}]
  /\ pc = [c \in Client |-> "none"]
  /\ open = [c \in Client |-> FALSE]
  /\ gone = [c \in Client |-> FALSE]
  /\ refusal = [c \in Client |-> ""]
  /\ metrics = [requests_total |-> 0, waf_blocks_total |-> 0,
                rate_limit_blocks_total |-> 0, cache_hits_total |-> 0]

-----------------------------------------------------------------------------
(* What a handler does up to its next await.                               *)
GoTo(c, stage) ==
  /\ pc' = [pc EXCEPT ![c] = stage]
  /\ UNCHANGED <<active_tasks, open>>

(* Mutation: the task is only discarded by handlers that do not close.     *)
CloseKeepsTask(c) ==
  /\ pc' = [pc EXCEPT ![c] = "ended"]
  /\ open' = [open EXCEPT ![c] = FALSE]
  /\ UNCHANGED active_tasks

(* It closes the connection and returns; the finally clause of the wrapper *)
(* discards the task.                                                      *)
Close(c) ==
  /\ pc' = [pc EXCEPT ![c] = "ended"]
  /\ active_tasks' = active_tasks \ {c}
  /\ open' = [open EXCEPT ![c] = FALSE]

(* It returns and leaves the connection to a task of the tarpit.           *)
HandOver(c) ==
  /\ pc' = [pc EXCEPT ![c] = "trapped"]
  /\ active_tasks' = active_tasks \ {c}
  /\ UNCHANGED open

(* An exception leaves the wrapper; asyncio reports it and nothing else.   *)
Raise(c) ==
  /\ pc' = [pc EXCEPT ![c] = "raised"]
  /\ active_tasks' = active_tasks \ {c}
  /\ UNCHANGED open

(* It answers itself: drain, then close.                                   *)
Refuse(c, reason) ==
  /\ GoTo(c, "answering")
  /\ refusal' = [refusal EXCEPT ![c] = reason]

Counted(counter, n) == metrics' = [metrics EXCEPT ![counter] = @ + n]

-----------------------------------------------------------------------------
(* The server accepts a connection and schedules its task.                 *)
Accept(c) ==
  /\ proxy = "serving" /\ pc[c] = "none"
  /\ pc' = [pc EXCEPT ![c] = "accepted"]
  /\ open' = [open EXCEPT ![c] = TRUE]
  /\ request' \in {[request EXCEPT ![c] = r] : r \in Requests[c]}
  /\ UNCHANGED <<features, shutdown, active_tasks, gone, refusal, metrics>>

(* The task runs for the first time: into active_tasks, then time.time()   *)
(* outside the try block, the HA check and the address, without which the  *)
(* connection is closed.                                                   *)
Begin(c) ==
  /\ pc[c] = "accepted"
  /\ IF "time" \in Resolved /\ "no_peername" \in request[c]
          /\ "standby" \notin request[c]
       THEN Close(c) /\ UNCHANGED refusal
       ELSE LET standby == "time" \in Resolved /\ "standby" \in request[c]
            IN  /\ active_tasks' = active_tasks \cup {c}
                /\ pc' = [pc EXCEPT ![c] = IF "time" \notin Resolved THEN "raised"
                                           ELSE IF standby THEN "answering"
                                           ELSE "resolving"]
                /\ refusal' = [refusal EXCEPT ![c] = IF standby THEN "standby" ELSE ""]
                /\ UNCHANGED open
  /\ UNCHANGED <<features, shutdown, request, gone, metrics>>

(* get_country has answered: the IP blocklist, then the rate limiter.      *)
Resolve(c) ==
  /\ pc[c] = "resolving"
  /\ \/ /\ "blocklisted" \in request[c]
        /\ Counted("waf_blocks_total", 1)
        /\ refusal' = [refusal EXCEPT ![c] = "blocklist"]
        /\ Close(c)
     \/ /\ "blocklisted" \notin request[c]
        /\ Counted("requests_total", 1)
        /\ IF "allow_request" \in Resolved THEN GoTo(c, "limiting") ELSE Raise(c)
        /\ UNCHANGED refusal
  /\ UNCHANGED <<features, shutdown, request, gone>>

(* The limiter has answered: go on, or count the refusal and answer it.    *)
Limit(c) ==
  /\ pc[c] = "limiting"
  /\ \/ /\ GoTo(c, "faulting")
        /\ UNCHANGED <<refusal, metrics>>
     \/ IF "rate_limit_blocks_total" \in Resolved
          THEN /\ Counted("rate_limit_blocks_total", 1)
               /\ refusal' = [refusal EXCEPT ![c] = "limit"]
               /\ IF "tarpit" \in features THEN HandOver(c) ELSE GoTo(c, "answering")
          ELSE Raise(c) /\ UNCHANGED <<refusal, metrics>>
  /\ UNCHANGED <<features, shutdown, request, gone>>

(* Mutation: a dropped request is not closed.                              *)
FaultUnclosed(c) ==
  /\ pc[c] = "faulting"
  /\ \/ GoTo(c, "reading") /\ UNCHANGED refusal
     \/ /\ "chaos" \in features
        /\ pc' = [pc EXCEPT ![c] = "ended"]
        /\ active_tasks' = active_tasks \ {c}
        /\ refusal' = [refusal EXCEPT ![c] = "fault"]
        /\ UNCHANGED open
     \/ "chaos" \in features /\ Refuse(c, "fault")
  /\ UNCHANGED <<features, shutdown, request, gone, metrics>>

(* inject_faults: nothing, 'drop' or 'error'.                              *)
Fault(c) ==
  /\ pc[c] = "faulting"
  /\ \/ GoTo(c, "reading") /\ UNCHANGED refusal
     \/ /\ "chaos" \in features
        /\ Close(c)
        /\ refusal' = [refusal EXCEPT ![c] = "fault"]
     \/ "chaos" \in features /\ Refuse(c, "fault")
  /\ UNCHANGED <<features, shutdown, request, gone, metrics>>

(* readuntil: the head is complete, or it is too large, or the client has  *)
(* closed before it was.                                                   *)
ReadHead(c) ==
  /\ pc[c] = "reading"
  /\ GoTo(c, "plugins") \/ Close(c)
  /\ UNCHANGED <<features, shutdown, request, gone, refusal, metrics>>

-----------------------------------------------------------------------------
Flagged(c)  == "dpi_waf" \in features /\ "malicious" \in request[c]
Rerouted(c) == Flagged(c) /\ "honeypot" \in features
Asks(c, trait, feature) == trait \in request[c] /\ feature \in features

(* Mutation: the WAF only stops a request when there is a tarpit for it.   *)
InspectionsTarpit(c) ==
  << <<Flagged(c) /\ ~Rerouted(c) /\ "tarpit" \in features,  "trapped",     "waf">>,
     <<"wasm_rejected" \in request[c],                       "answering",   "wasm">>,
     <<"admin" \in request[c],                               "intercepted", "">>,
     <<Asks(c, "websocket", "ws_backplane"),                 "intercepted", "">>,
     <<Asks(c, "event_stream", "sse_multiplexer"),           "subscribed",  "">>,
     <<"unauthorized" \in request[c],                        "answering",   "unauthorized">>,
     <<Asks(c, "graphql", "graphql_waf"),                    "body",        "">>,
     <<Asks(c, "cacheable", "cache"),                        "lookup",      "">>,
     <<TRUE,                                                 "forwarding",  "">> >>

(* The checks from the WAF to the routing, none of which awaits: condition,*)
(* stage and reason.  The first whose condition holds decides.             *)
Inspections(c) ==
  << <<Flagged(c) /\ ~Rerouted(c) /\ "tarpit" \in features,  "trapped",     "waf">>,
     <<Flagged(c) /\ ~Rerouted(c),                           "answering",   "waf">>,
     <<"wasm_rejected" \in request[c],                       "answering",   "wasm">>,
     <<"admin" \in request[c],                               "intercepted", "">>,
     <<Asks(c, "websocket", "ws_backplane"),                 "intercepted", "">>,
     <<Asks(c, "event_stream", "sse_multiplexer"),           "subscribed",  "">>,
     <<"unauthorized" \in request[c],                        "answering",   "unauthorized">>,
     <<Asks(c, "graphql", "graphql_waf"),                    "body",        "">>,
     <<Asks(c, "cacheable", "cache"),                        "lookup",      "">>,
     <<TRUE,                                                 "forwarding",  "">> >>

Decision(c) ==
  LET steps == Inspections(c)
  IN  steps[CHOOSE i \in DOMAIN steps :
              steps[i][1] /\ \A j \in 1 .. i - 1 : ~steps[j][1]]

(* Mutations: each check counts what it finds, whichever decided; the JWT  *)
(* check takes back what the WAF counted.                                  *)
WafHitsOfAll(c) ==
  (IF Flagged(c) THEN 1 ELSE 0) + (IF "unauthorized" \in request[c] THEN 1 ELSE 0)
WafHitsTakenBack(c) ==
  (IF Flagged(c) THEN 1 ELSE 0) - (IF Decision(c)[3] = "unauthorized" THEN 1 ELSE 0)

(* The WAF counts a hit when it sees it, the JWT check a missing token.    *)
WafHits(c) ==
  (IF Flagged(c) THEN 1 ELSE 0) + (IF Decision(c)[3] = "unauthorized" THEN 1 ELSE 0)

(* execute_request_plugins has returned: a plugin dropped or answered the  *)
(* request, or the inspections run.                                        *)
Inspect(c) ==
  /\ pc[c] = "plugins"
  /\ \/ /\ "plugins" \in features
        /\ Close(c)
        /\ refusal' = [refusal EXCEPT ![c] = "plugin"]
        /\ UNCHANGED metrics
     \/ /\ "plugins" \in features
        /\ Refuse(c, "plugin")
        /\ UNCHANGED metrics
     \/ /\ Counted("waf_blocks_total", WafHits(c))
        /\ refusal' = [refusal EXCEPT ![c] = Decision(c)[3]]
        /\ IF Decision(c)[2] = "trapped" THEN HandOver(c) ELSE GoTo(c, Decision(c)[2])
  /\ UNCHANGED <<features, shutdown, request, gone>>

(* The await after the checks: the cache is asked, or it is not.           *)
AfterChecks(c) == IF Asks(c, "cacheable", "cache") THEN "lookup" ELSE "forwarding"

(* readexactly: the query is too complex, or it is not, or did not come.   *)
CheckBody(c) ==
  /\ pc[c] = "body"
  /\ \/ Refuse(c, "graphql")
     \/ GoTo(c, AfterChecks(c)) /\ UNCHANGED refusal
  /\ UNCHANGED <<features, shutdown, request, gone, metrics>>

(* cache.get: a hit is answered, a miss is forwarded.  A head that only    *)
(* seems to end cannot be split from its body: nothing catches that.       *)
Lookup(c) ==
  /\ pc[c] = "lookup"
  /\ \/ GoTo(c, "answering") /\ Counted("cache_hits_total", 1)
     \/ "garbled" \in request[c] /\ Raise(c) /\ Counted("cache_hits_total", 1)
     \/ GoTo(c, "forwarding") /\ UNCHANGED metrics
  /\ UNCHANGED <<features, shutdown, request, gone, refusal>>

(* drain returns and the connection is closed; or it raises, because the   *)
(* client has closed the connection itself.  Then the handler is over, but *)
(* for the GraphQL check: its "except Exception: pass" swallows that, and  *)
(* the handler goes on with the query it has rejected.                     *)
Answer(c) ==
  /\ pc[c] = "answering"
  /\ \/ Close(c) /\ UNCHANGED refusal
     \/ /\ gone[c]
        /\ open' = [open EXCEPT ![c] = FALSE]
        /\ \/ /\ refusal[c] \notin {"standby", "wasm", "graphql"}
              /\ pc' = [pc EXCEPT ![c] = "raised"]
              /\ active_tasks' = active_tasks \ {c}
              /\ UNCHANGED refusal
           \/ /\ refusal[c] = "graphql"
              /\ pc' = [pc EXCEPT ![c] = AfterChecks(c)]
              /\ refusal' = [refusal EXCEPT ![c] = ""]
              /\ UNCHANGED active_tasks
  /\ UNCHANGED <<features, shutdown, request, gone, metrics>>

(* The relay, the admin page or the websocket hub is done with it; or the  *)
(* exception of a connection that cannot even be tried, which the retry    *)
(* loop does not catch, leaves the handler before the try of the relay.    *)
Finish(c) ==
  /\ pc[c] \in {"forwarding", "intercepted"}
  /\ Close(c) \/ (pc[c] = "forwarding" /\ "unconnectable" \in request[c] /\ Raise(c))
  /\ UNCHANGED <<features, shutdown, request, gone, refusal, metrics>>

(* Mutation: the tarpit has no finally clause.                             *)
ReleaseUnclosed(c) ==
  /\ pc[c] = "trapped" /\ gone[c] /\ open[c]
  /\ UNCHANGED vars

(* The tarpit's task writes into a connection that the client has closed.  *)
Release(c) ==
  /\ pc[c] = "trapped" /\ gone[c] /\ open[c]
  /\ open' = [open EXCEPT ![c] = FALSE]
  /\ UNCHANGED <<features, shutdown, active_tasks, request, pc, gone, refusal, metrics>>

Disconnect(c) ==
  /\ open[c] /\ ~gone[c]
  /\ gone' = [gone EXCEPT ![c] = TRUE]
  /\ UNCHANGED <<features, shutdown, active_tasks, request, pc, open, refusal, metrics>>

-----------------------------------------------------------------------------
(* asyncio.run ends: every task is cancelled and the process exits.        *)
CutAll ==
  /\ pc' = [c \in Client |-> IF pc[c] \in Running \cup {"accepted"} THEN "cut" ELSE pc[c]]
  /\ open' = [c \in Client |-> FALSE]
  /\ active_tasks' = {}
  /\ proxy' = "stopped"

(* Ctrl+C: asyncio.run cancels run_proxy, in which only KeyboardInterrupt  *)
(* leads to stop().                                                        *)
Interrupt ==
  /\ "interrupt" \in Shutdowns /\ proxy \in {"serving", "draining"}
  /\ CutAll
  /\ UNCHANGED <<features, expired, drained, request, gone, refusal, metrics>>

(* EssaProxy.stop: no new connections, and gather over the tasks of now.   *)
Stop ==
  /\ "stop" \in Shutdowns /\ proxy = "serving"
  /\ proxy' = "draining"
  /\ drained' = active_tasks
  /\ UNCHANGED <<features, expired, active_tasks, request, pc, open, gone, refusal, metrics>>

(* Mutation: stop() does not wait for what gather returns.                 *)
DrainAtOnce ==
  /\ proxy = "draining"
  /\ proxy' = "stopping"
  /\ UNCHANGED <<features, expired, drained, active_tasks, request, pc, open, gone, refusal, metrics>>

Drain ==
  /\ proxy = "draining" /\ \A c \in drained : pc[c] \notin Running
  /\ proxy' = "stopping"
  /\ UNCHANGED <<features, expired, drained, active_tasks, request, pc, open, gone, refusal, metrics>>

(* Mutation: gather is awaited without wait_for.                           *)
NoDrainTimeout == FALSE

(* wait_for gives up and cancels what it was waiting for: the finally      *)
(* clauses of the relay and the hub (a handler may not have got there) and *)
(* of the admin page close their connection, other handlers leave it to    *)
(* the exit.                                                               *)
DrainTimeout ==
  LET late == {c \in drained : pc[c] \in Running}
  IN  /\ proxy = "draining" /\ late # {}
      /\ proxy' = "stopping" /\ expired' = TRUE
      /\ pc' = [c \in Client |-> IF c \in late THEN "cut" ELSE pc[c]]
      /\ \E trying \in SUBSET {c \in late : pc[c] \in {"forwarding", "intercepted"}} :
           /\ \A c \in late : pc[c] = "intercepted" /\ "admin" \in request[c] => c \in trying
           /\ open' = [c \in Client |-> open[c] /\ c \notin trying]
      /\ active_tasks' = active_tasks \ late
      /\ UNCHANGED <<features, drained, request, gone, refusal, metrics>>

Exit ==
  /\ proxy = "stopping"
  /\ CutAll
  /\ UNCHANGED <<features, expired, drained, request, gone, refusal, metrics>>

Step(c) ==
  \/ Begin(c) \/ Resolve(c) \/ Limit(c) \/ Fault(c)
  \/ ReadHead(c) \/ Inspect(c) \/ CheckBody(c) \/ Lookup(c)
  \/ Answer(c) \/ Finish(c) \/ Release(c)
StopSteps == Drain \/ DrainTimeout \/ Exit

Next ==
  \/ \E c \in Client : proxy # "stopped" /\ (Accept(c) \/ Step(c) \/ Disconnect(c))
  \/ Interrupt \/ Stop \/ StopSteps

Spec == Init /\ [][Next]_vars

(* The awaits that others than the client end, and that have no timeout:   *)
(* Redis, a plugin, a backend or its shadow that takes nothing more        *)
(* (proxy.py:602, 615, 709), the other clients of the websocket hub        *)
(* (websocket.py:106).                                                     *)
AwaitsOthers(c) ==
  \/ pc[c] \in {"resolving", "limiting", "plugins", "lookup", "forwarding"}
  \/ pc[c] = "intercepted" /\ "admin" \notin request[c]

(* stop() waits no longer than drain_timeout.  A handler that waits for    *)
(* its client alone is held up by nothing once the client has gone: what   *)
(* it reads ends, what it writes fails.  Of others nothing is assumed.     *)
Fairness ==
  /\ WF_vars(StopSteps)
  /\ \A c \in Client :
       WF_vars(proxy # "stopped" /\ gone[c] /\ ~AwaitsOthers(c) /\ Step(c))
FairSpec == Spec /\ Fairness

-----------------------------------------------------------------------------
(***************************************************************************)
(* active_tasks, the "active connections" of the drain (proxy.py:203), are *)
(* the handlers that still run: no path out of a handler forgets its task. *)
(***************************************************************************)
TasksAreRunning == active_tasks = {c \in Client : pc[c] \in Running}

(* The exceptions that leave a handler with its connection open: that of   *)
(* open_connection which is not in the tuple of proxy.py:565, before the   *)
(* try of line 587, and that of the split at line 488.                     *)
LeftOpen(c) == pc[c] = "raised" /\ request[c] \cap {"unconnectable", "garbled"} # {}

(***************************************************************************)
(* However else a handler ends, its connection does not stay open behind   *)
(* it, except in the tarpit and, after a cancellation, until the process   *)
(* ends; and when the process has ended, none is open.                     *)
(***************************************************************************)
ClosedWhenOver ==
  \A c \in Client :
    /\ pc[c] \in {"ended", "raised"} /\ open[c] => LeftOpen(c)
    /\ pc[c] \in Over /\ proxy = "stopped" => ~open[c]

(***************************************************************************)
(* essaproxy_waf_blocks_total counts every connection that the blocklist,  *)
(* the WAF or the JWT check drops, and counts it once (proxy.py:265, 347,  *)
(* 439); besides, a honeypot has each request it was meant to take counted *)
(* as well, which is not dropped.  Without one the count is exact.  It is  *)
(* not what its help text says, "Total connections dropped by IP           *)
(* Blocklist" (metrics.py:29).                                             *)
(***************************************************************************)
DropsAreCounted ==
  LET dropped  == {c \in Client : refusal[c] \in {"blocklist", "waf", "unauthorized"}}
      rerouted == {c \in Client : Rerouted(c)}
  IN  metrics.waf_blocks_total
        \in Cardinality(dropped) .. Cardinality(dropped) + Cardinality(rerouted)

(***************************************************************************)
(* What the deep-packet WAF flagged reaches neither the pool of a route,   *)
(* nor the cache, nor another service of the proxy (README.md:97); except  *)
(* with a honeypot, which nothing leads to: is_honeypot_reroute            *)
(* (proxy.py:352) is never read.                                           *)
(***************************************************************************)
FlaggedIsIsolated ==
  \A c \in Client :
    Flagged(c) /\ ~Rerouted(c)
      => pc[c] \notin {"forwarding", "body", "lookup", "intercepted", "subscribed"}

(***************************************************************************)
(* README.md:92: once stop() has closed the listener, it cuts off a handler*)
(* that was active at that moment only after drain_timeout has passed.  An *)
(* interrupt is another matter: it never gets to stop() (Interrupt).       *)
(***************************************************************************)
GracefulShutdown ==
  [][StopSteps /\ ~expired' =>
       \A c \in drained : pc'[c] = "cut" => pc[c] = "cut"]_vars

(***************************************************************************)
(* stop() returns and the process ends, whatever the clients do, and       *)
(* whatever else holds a handler up.                                       *)
(***************************************************************************)
StopEnds == proxy = "draining" ~> proxy = "stopped"

(***************************************************************************)
(* When the client has gone, its handler ends and its connection is closed,*)
(* whatever it was awaiting of the client and even in the tarpit, unless   *)
(* others hold it up for ever.  Only a subscriber of the SSE multiplexer   *)
(* sleeps on (sse.py:28-29), and what LeftOpen names is not closed.        *)
(***************************************************************************)
EndsWithClient ==
  \A c \in Client :
    []<>~AwaitsOthers(c) =>
      (gone[c] ~> (pc[c] = "subscribed" \/ (pc[c] \notin Running /\ (open[c] => LeftOpen(c)))))
=============================================================================
