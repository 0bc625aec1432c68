----------------------------- MODULE Forwarding -----------------------------
(***************************************************************************)
(* The core of EssaProxy: how a request that has passed the admission      *)
(* checks gets its backend, next to the three tasks that change what it    *)
(* finds there.                                                            *)
(*                                                                         *)
(*   - handle_client (proxy.py): routing, load balancing, the circuit      *)
(*     breaker with its silent retries, and the relay;                     *)
(*   - HealthChecker (health_check.py): rounds of concurrent checks;       *)
(*   - config_watcher (cli.py) and DockerServiceDiscovery (discovery.py),  *)
(*     both through reload_config (proxy.py).                              *)
(*                                                                         *)
(* asyncio runs these tasks on one thread: what stands between two awaits  *)
(* is one action.  A BackendServer object is a record of what never        *)
(* changes in it (the generation of the configuration that created it and  *)
(* its place there, url, weight, country); its attributes healthy and      *)
(* active_connections are variables indexed by the object.  A Python dict  *)
(* of routes is the sequence of its items in insertion order.              *)
(***************************************************************************)
EXTENDS LoadBalancer

CONSTANTS
  Client,         \* client connections; each has an address of its own
  CountryOf,      \* CountryOf[c]: the country GeoIP resolved for c
  Path,           \* request paths
  Url,            \* host:port of backends
  Unconnectable,  \* the urls open_connection raises another exception for
                  \* than the ones the retry loop and the checks catch
  Entry,          \* server entries of files and Docker: url, weight, country
  Prefix,         \* route prefixes
  Prefixes,       \* Prefixes[p]: the route prefixes that path p starts with
  Length,         \* Length[r]: the length of route prefix r
  Default,        \* the route prefix "/"
  Initial,        \* the configuration the proxy starts with
  Files,          \* the configurations the watched file may hold later
  Topologies,     \* the routes Docker may report
  MaxLoads        \* bound: how often reload_config runs

(* A listing is the sequence of (path, servers) items of a file or of a    *)
(* Docker answer; its servers are not objects yet.                         *)
Listings == {file.routes : file \in Files \cup {Initial}} \cup Topologies
Paths(routes) == {routes[i].path : i \in DOMAIN routes}

ASSUME ForwardingAssumption ==
  /\ IsFiniteSet(Client)
  /\ \A c \in Client : Hash[c] \in Nat
  /\ \A e \in Entry : e.url \in Url /\ e.weight \in Nat
  /\ Listings \subseteq Seq([path : Prefix, servers : Seq(Entry)])
  /\ \A listing \in Listings : \A i, j \in DOMAIN listing :
       listing[i].path = listing[j].path => i = j
  /\ \A file \in Files \cup {Initial} : file.max_retries \in Nat
  /\ Initial.algorithm \in Algorithms
  /\ MaxLoads \in Nat

-----------------------------------------------------------------------------
(* BackendServer(host, port, weight, country), created at `place' of the   *)
(* listing read by the g-th load.                                          *)
BackendServer(g, place, entry) ==
  [gen |-> g, place |-> place,
   url |-> entry.url, weight |-> entry.weight, country |-> entry.country]

(* load_from_file, and the loop over the containers: fresh objects.        *)
Build(g, listing) ==
  [i \in DOMAIN listing |->
    [path    |-> listing[i].path,
     servers |-> [j \in DOMAIN listing[i].servers |->
                    BackendServer(g, <<i, j>>, listing[i].servers[j])]]]

Listed(routes) ==
  UNION {{routes[i].servers[j] : j \in DOMAIN routes[i].servers} : i \in DOMAIN routes}

(* Every object that can come into being within the bound.                 *)
Server == UNION {Listed(Build(g, listing)) : g \in 0 .. MaxLoads, listing \in Listings}

(* The places of a url in the routes, in the order the loops visit them.   *)
Places(routes, url) ==
  UNION {{i} \X {j \in DOMAIN routes[i].servers : routes[i].servers[j].url = url}
           : i \in DOMAIN routes}
ObjectAt(routes, place) == routes[place[1]].servers[place[2]]
FirstListed(routes, url) == ObjectAt(routes, AtRank(Places(routes, url), 0))
LastListed(routes, url) ==
  ObjectAt(routes, AtRank(Places(routes, url), Cardinality(Places(routes, url)) - 1))

(* Mutation: no server keeps its object.                                   *)
MergeNothing(existing, routes) == routes

(* reload_config: a server whose url is known keeps its object; of several *)
(* objects with that url existing_backends holds the last.                 *)
Merge(existing, routes) ==
  [i \in DOMAIN routes |->
    [path    |-> routes[i].path,
     servers |-> [j \in DOMAIN routes[i].servers |->
                    LET server == routes[i].servers[j]
                    IN  IF Places(existing, server.url) # {}
                          THEN LastListed(existing, server.url)
                          ELSE server]]]

(* _get_all_backends: the first object of every url.                       *)
UniqueBackends(routes) ==
  {FirstListed(routes, b.url) : b \in Listed(routes)}

-----------------------------------------------------------------------------
VARIABLES
  up,                  \* environment: up[u], a server accepts connections at u
  healthy,             \* BackendServer.healthy
  active_connections,  \* BackendServer.active_connections
  config,              \* EssaProxy.config: [routes, algorithm, max_retries]
  checker_routes,      \* HealthChecker.config.routes
  generation,          \* how often reload_config has run
  load_balancers,      \* EssaProxy.load_balancers: prefix -> reference
  balancers,           \* the balancer objects by reference <<generation, prefix>>
  check,               \* state of the running _check_server of each object
  pc,                  \* where the handler of each connection stands
  selected_lb,         \* local of the handler: reference to its balancer
  attempts,            \* local of the handler: what is left of range(max_retries)
  backend              \* local of the handler: the object it counts itself in

balancing == <<config, checker_routes, generation, load_balancers>>
handlers  == <<pc, selected_lb, attempts, backend>>
vars == <<up, healthy, active_connections, balancing, balancers, check, handlers>>

Reference == (0 .. MaxLoads) \X Prefix

(* "relaying" includes the sending of the request; "raised" is a handler   *)
(* that an uncaught exception has ended.                                   *)
Holding  == {"connecting", "refused", "relaying"}
Answered == {"done", "not_found", "bad_gateway"}

Routes   == Seq([path : Prefix, servers : Seq(Server)])
Config   == [routes : Routes, algorithm : {file.algorithm : file \in Files \cup {Initial}},
             max_retries : Nat]
Balancer == [algorithm : Algorithms, backends : Seq(Server), current_index : Nat]

(* The route that a prefix names.                                          *)
ServersOf(routes, r) == routes[CHOOSE i \in DOMAIN routes : routes[i].path = r].servers

TypeOK ==
  /\ up \in [Url -> BOOLEAN]
  /\ healthy \in [Server -> BOOLEAN]
  /\ active_connections \in [Server -> Nat]
  /\ config \in Config
  /\ checker_routes \in Routes
  /\ generation \in 0 .. MaxLoads
  /\ DOMAIN load_balancers \subseteq Prefix
  /\ \A r \in DOMAIN load_balancers : load_balancers[r] = <<generation, r>>
  /\ DOMAIN balancers \subseteq Reference
  /\ \A ref \in DOMAIN balancers : ref[1] <= generation /\ balancers[ref] \in Balancer
  /\ \A r \in DOMAIN load_balancers : load_balancers[r] \in DOMAIN balancers
  /\ check \in [Server -> {"none", "running", "alive", "dead"}]
  /\ pc \in [Client -> {"idle", "raised"} \cup Holding \cup Answered]
  /\ attempts \in [Client -> Nat]
  /\ DOMAIN selected_lb = Client /\ DOMAIN backend = Client
  /\ \A c \in Client : pc[c] \in Holding \cup {"raised"} =>
       backend[c] \in Server /\ selected_lb[c] \in DOMAIN balancers

(* _init_load_balancers: a balancer for every route of the configuration.  *)
CreatedBy(new, g) ==
  [ref \in {g} \X Paths(new.routes) |->
     NewBalancer(new.algorithm, ServersOf(new.routes, ref[2]))]
ReferencesTo(new, g) == [r \in Paths(new.routes) |-> <<g, r>>]

Load(file, g) ==
  [routes |-> Build(g, file.routes), algorithm |-> file.algorithm,
   max_retries |-> file.max_retries]

Init ==
  /\ up = [u \in Url |-> u \notin Unconnectable]
  /\ healthy = [b \in Server |-> TRUE]
  /\ active_connections = [b \in Server |-> 0]
  /\ config = Load(Initial, 0)
  /\ checker_routes = config.routes
  /\ generation = 0
  /\ load_balancers = ReferencesTo(config, 0)
  /\ balancers = CreatedBy(config, 0)
  /\ check = [b \in Server |-> "none"]
  /\ pc = [c \in Client |-> "idle"]
  /\ selected_lb = [c \in Client |-> None]
  /\ attempts = [c \in Client |-> 0]
  /\ backend = [c \in Client |-> None]

-----------------------------------------------------------------------------
(* The handler returns, and its locals are gone.                           *)
Leave(c, outcome) ==
  /\ pc' = [pc EXCEPT ![c] = outcome]
  /\ selected_lb' = [selected_lb EXCEPT ![c] = None]
  /\ attempts' = [attempts EXCEPT ![c] = 0]
  /\ backend' = [backend EXCEPT ![c] = None]

(* One pass through the head of the retry loop: the balancer is asked for  *)
(* a server, which is counted before the connection is opened; with no     *)
(* attempt or no server left the client gets a 502.  `marks' and `counts'  *)
(* are the attributes at this point of the step.                           *)
TryBackend(c, ref, left, marks, counts) ==
  LET lb     == balancers[ref]
      server == IF left = 0 THEN None
                ELSE Selected(lb, marks, counts, c, CountryOf[c])
  IN  \/ /\ server = None
         /\ Leave(c, "bad_gateway")
         /\ active_connections' = counts
         /\ UNCHANGED balancers
      \/ /\ server # None
         /\ pc' = [pc EXCEPT ![c] = "connecting"]
         /\ selected_lb' = [selected_lb EXCEPT ![c] = ref]
         /\ attempts' = [attempts EXCEPT ![c] = left - 1]
         /\ backend' = [backend EXCEPT ![c] = server]
         /\ active_connections' = [counts EXCEPT ![server] = @ + 1]
         /\ balancers' = [balancers EXCEPT ![ref].current_index =
                               NextIndex(lb, marks, CountryOf[c])]

(* The first prefix in order of length that the path starts with, else "/".*)
RoutesTo(path, r) ==
  LET matching == DOMAIN load_balancers \cap Prefixes[path]
  IN  IF matching = {} THEN r = Default
      ELSE r \in matching /\ \A q \in matching : Length[q] <= Length[r]

(* A request reaches routing; a connection slot is used again after its    *)
(* last request was answered.                                              *)
Arrive(c, path) ==
  /\ pc[c] \in {"idle"} \cup Answered
  /\ \E r \in DOMAIN load_balancers :
       /\ RoutesTo(path, r)
       /\ TryBackend(c, load_balancers[r], config.max_retries, healthy, active_connections)
  /\ UNCHANGED <<up, healthy, balancing, check>>

RefuseUnrouted(c, path) ==
  /\ pc[c] \in {"idle"} \cup Answered
  /\ \A r \in DOMAIN load_balancers : ~RoutesTo(path, r)
  /\ Leave(c, "not_found")
  /\ UNCHANGED <<up, healthy, active_connections, balancing, balancers, check>>

(* What the network does with the connection the handler awaits: accepted, *)
(* refused (or timed out), or open_connection raises something else, which *)
(* ends the handler with the server still counted.                         *)
ConnectionAccepted(c) ==
  /\ pc[c] = "connecting" /\ up[backend[c].url]
  /\ pc' = [pc EXCEPT ![c] = "relaying"]
  /\ UNCHANGED <<up, healthy, active_connections, balancing, balancers, check,
                 selected_lb, attempts, backend>>

ConnectionRefused(c) ==
  /\ pc[c] = "connecting" /\ ~up[backend[c].url]
  /\ backend[c].url \notin Unconnectable
  /\ pc' = [pc EXCEPT ![c] = "refused"]
  /\ UNCHANGED <<up, healthy, active_connections, balancing, balancers, check,
                 selected_lb, attempts, backend>>

ConnectionRaises(c) ==
  /\ pc[c] = "connecting" /\ backend[c].url \in Unconnectable
  /\ pc' = [pc EXCEPT ![c] = "raised"]
  /\ UNCHANGED <<up, healthy, active_connections, balancing, balancers, check,
                 selected_lb, attempts, backend>>

(* Mutations of Retry: the count is not given back; the server is not      *)
(* marked; an attempt costs nothing; the balancer of the route is looked up*)
(* again for each attempt.                                                 *)
RetryCounted(c) ==
  /\ pc[c] = "refused"
  /\ healthy' = [healthy EXCEPT ![backend[c]] = FALSE]
  /\ TryBackend(c, selected_lb[c], attempts[c], healthy', active_connections)
  /\ UNCHANGED <<up, balancing, check>>

RetryUnmarked(c) ==
  /\ pc[c] = "refused"
  /\ TryBackend(c, selected_lb[c], attempts[c], healthy,
       [active_connections EXCEPT ![backend[c]] = @ - 1])
  /\ UNCHANGED <<up, healthy, balancing, check>>

RetryForFree(c) ==
  /\ pc[c] = "refused"
  /\ healthy' = [healthy EXCEPT ![backend[c]] = FALSE]
  /\ TryBackend(c, selected_lb[c], attempts[c] + 1, healthy',
       [active_connections EXCEPT ![backend[c]] = @ - 1])
  /\ UNCHANGED <<up, balancing, check>>

RetryRerouted(c) ==
  LET r   == selected_lb[c][2]
      ref == IF r \in DOMAIN load_balancers THEN load_balancers[r] ELSE selected_lb[c]
  IN  /\ pc[c] = "refused"
      /\ healthy' = [healthy EXCEPT ![backend[c]] = FALSE]
      /\ TryBackend(c, ref, attempts[c], healthy',
           [active_connections EXCEPT ![backend[c]] = @ - 1])
      /\ UNCHANGED <<up, balancing, check>>

(* The handler resumes with the exception: it gives the count back, marks  *)
(* the server dead and asks for the next one, all before its next await.   *)
Retry(c) ==
  /\ pc[c] = "refused"
  /\ healthy' = [healthy EXCEPT ![backend[c]] = FALSE]
  /\ TryBackend(c, selected_lb[c], attempts[c], healthy',
       [active_connections EXCEPT ![backend[c]] = @ - 1])
  /\ UNCHANGED <<up, balancing, check>>

(* Mutations of RelayEnd: the finally clause does not give the count back, *)
(* or an exception handler before it has done so already.                  *)
RelayEndCounted(c) ==
  /\ pc[c] = "relaying"
  /\ Leave(c, "done")
  /\ UNCHANGED <<up, healthy, active_connections, balancing, balancers, check>>

RelayEndTwice(c) ==
  /\ pc[c] = "relaying"
  /\ Leave(c, "done")
  /\ active_connections' = [active_connections EXCEPT ![backend[c]] = @ - 2]
  /\ UNCHANGED <<up, healthy, balancing, balancers, check>>

(* Either side closes or fails, and the finally clause runs.               *)
RelayEnd(c) ==
  /\ pc[c] = "relaying"
  /\ Leave(c, "done")
  /\ active_connections' = [active_connections EXCEPT ![backend[c]] = @ - 1]
  /\ UNCHANGED <<up, healthy, balancing, balancers, check>>

-----------------------------------------------------------------------------
(* A round: one concurrent check per url, awaited together.                *)
StartRound ==
  /\ \A b \in Server : check[b] = "none"
  /\ Listed(checker_routes) # {}
  /\ check' = [b \in Server |->
                 IF b \in UniqueBackends(checker_routes) THEN "running" ELSE "none"]
  /\ UNCHANGED <<up, healthy, active_connections, balancing, balancers, handlers>>

(* The network decides the check; gather swallows any other exception.     *)
Probe(b) ==
  /\ check[b] = "running"
  /\ check' = [check EXCEPT ![b] = IF b.url \in Unconnectable THEN "none"
                                   ELSE IF up[b.url] THEN "alive" ELSE "dead"]
  /\ UNCHANGED <<up, healthy, active_connections, balancing, balancers, handlers>>

(* Mutation: a check only ever takes servers out of service.               *)
FinishCheckDead(b) ==
  /\ check[b] \in {"alive", "dead"}
  /\ healthy' = [healthy EXCEPT ![b] = healthy[b] /\ check[b] = "alive"]
  /\ check' = [check EXCEPT ![b] = "none"]
  /\ UNCHANGED <<up, active_connections, balancing, balancers, handlers>>

(* The check resumes and writes its verdict.                               *)
FinishCheck(b) ==
  /\ check[b] \in {"alive", "dead"}
  /\ healthy' = [healthy EXCEPT ![b] = (check[b] = "alive")]
  /\ check' = [check EXCEPT ![b] = "none"]
  /\ UNCHANGED <<up, active_connections, balancing, balancers, handlers>>

-----------------------------------------------------------------------------
(* Mutation of ReloadConfig, for algorithms that are known: the health     *)
(* checker keeps the old configuration.                                    *)
ReloadUnchecked(new, existing) ==
  LET g      == generation + 1
      merged == [new EXCEPT !.routes = Merge(existing, @)]
      fresh  == CreatedBy(merged, g)
  IN  /\ generation < MaxLoads
      /\ generation' = g
      /\ config' = merged
      /\ new.algorithm \in Algorithms
      /\ load_balancers' = ReferencesTo(merged, g)
      /\ balancers' = [ref \in DOMAIN balancers \cup DOMAIN fresh |->
                         IF ref \in DOMAIN fresh THEN fresh[ref] ELSE balancers[ref]]
      /\ UNCHANGED <<up, healthy, active_connections, checker_routes, check, handlers>>

(* reload_config.  With an algorithm create_load_balancer does not know it *)
(* raises half-way: the configuration is the new one, load_balancers is    *)
(* empty and the health checker keeps the configuration it had.            *)
ReloadConfig(new, existing) ==
  LET g      == generation + 1
      merged == [new EXCEPT !.routes = Merge(existing, @)]
      fresh  == CreatedBy(merged, g)
  IN  /\ generation < MaxLoads
      /\ generation' = g
      /\ config' = merged
      /\ \/ /\ new.algorithm \in Algorithms
            /\ load_balancers' = ReferencesTo(merged, g)
            /\ balancers' = [ref \in DOMAIN balancers \cup DOMAIN fresh |->
                               IF ref \in DOMAIN fresh THEN fresh[ref] ELSE balancers[ref]]
            /\ checker_routes' = merged.routes
         \/ /\ new.algorithm \notin Algorithms
            /\ load_balancers' = [r \in {} |-> <<g, r>>]
            /\ UNCHANGED <<balancers, checker_routes>>
      /\ UNCHANGED <<up, healthy, active_connections, check, handlers>>

(* config_watcher: the file has changed and parses.                        *)
ReloadFile(file) == ReloadConfig(Load(file, generation + 1), config.routes)

(* _discovery_loop: the discovered routes replace those of the same path,  *)
(* further ones are appended (a filtered list: its k-th element has k - 1  *)
(* surviving ones before it).                                              *)
OverrideRoutes(old, discovered) ==
  LET fresh == {<<i, 0>> : i \in {n \in DOMAIN discovered :
                                    discovered[n].path \notin Paths(old)}}
  IN  [i \in 1 .. (Len(old) + Cardinality(fresh)) |->
         IF i > Len(old) THEN discovered[AtRank(fresh, i - Len(old) - 1)[1]]
         ELSE IF old[i].path \in Paths(discovered)
           THEN [path |-> old[i].path, servers |-> ServersOf(discovered, old[i].path)]
           ELSE old[i]]

(* _routes_changed: the lists are compared as bags of host:port:weight.    *)
SameServers(s, t) ==
  LET Occurrences(list, url, weight) ==
        Cardinality({j \in DOMAIN list : list[j].url = url /\ list[j].weight = weight})
  IN  \A b \in {s[j] : j \in DOMAIN s} \cup {t[j] : j \in DOMAIN t} :
        Occurrences(s, b.url, b.weight) = Occurrences(t, b.url, b.weight)

RoutesChanged(old, discovered) ==
  ~ \A i \in DOMAIN discovered :
      /\ discovered[i].path \in Paths(old)
      /\ SameServers(discovered[i].servers, ServersOf(old, discovered[i].path))

(* The configuration object is changed in place before reload_config looks *)
(* at it: what it takes for existing already holds the discovered objects. *)
Discover(listing) ==
  LET discovered == Build(generation + 1, listing)
      routes     == OverrideRoutes(config.routes, discovered)
  IN  /\ RoutesChanged(config.routes, discovered)
      /\ ReloadConfig([config EXCEPT !.routes = routes], routes)

-----------------------------------------------------------------------------
(* Environment: a server stops or starts accepting connections.            *)
Toggle(u) ==
  /\ u \notin Unconnectable
  /\ up' = [up EXCEPT ![u] = ~@]
  /\ UNCHANGED <<healthy, active_connections, balancing, balancers, check, handlers>>

Network(c) == ConnectionAccepted(c) \/ ConnectionRefused(c) \/ ConnectionRaises(c)
Handler(c) ==
  \/ \E path \in Path : Arrive(c, path) \/ RefuseUnrouted(c, path)
  \/ Network(c)
  \/ Retry(c)
  \/ RelayEnd(c)
Reload == (\E file \in Files : ReloadFile(file)) \/ (\E t \in Topologies : Discover(t))
HealthChecker == StartRound \/ \E b \in Server : Probe(b) \/ FinishCheck(b)

Next ==
  \/ \E c \in Client : Handler(c)
  \/ HealthChecker
  \/ Reload
  \/ \E u \in Url : Toggle(u)

(* The event loop runs every ready callback in turn, every connection      *)
(* attempt and every check ends by its timeout at the latest, and sleep    *)
(* returns.  Nothing makes clients come, relays end or servers recover.    *)
Fairness ==
  /\ \A c \in Client : WF_vars(Network(c)) /\ WF_vars(Retry(c))
  /\ WF_vars(StartRound)
  /\ \A b \in Server : WF_vars(Probe(b)) /\ WF_vars(FinishCheck(b))

Spec     == Init /\ [][Next]_vars
FairSpec == Spec /\ Fairness
-----------------------------------------------------------------------------
(***************************************************************************)
(* Every object counts the handlers that hold it, through retries, reloads *)
(* and stale balancers: one for each connection between `active_connections*)
(* += 1' and its `-= 1', and one for ever for a handler that was ended in  *)
(* between.  Least-connections balancing rests on it (load_balancer.py:67).*)
(***************************************************************************)
Holders(b) == {c \in Client : pc[c] \in Holding \cup {"raised"} /\ backend[c] = b}

ActiveConnectionsExact ==
  \A b \in Server : active_connections[b] = Cardinality(Holders(b))

(***************************************************************************)
(* What is exported as "Active connections per backend" (metrics.py:46) is *)
(* the number of connections that are open, or being opened, to that url,  *)
(* also of those that an earlier configuration routed.                     *)
(***************************************************************************)
GaugeIsTruthful ==
  \A b \in UniqueBackends(config.routes) :
    active_connections[b] =
      Cardinality({c \in Client : pc[c] \in Holding /\ backend[c].url = b.url})

(***************************************************************************)
(* The balancers, the health checker and the configuration that the other  *)
(* components read speak of the same servers after every reload: what a    *)
(* request can be routed to is listed, checked and exported.               *)
(***************************************************************************)
OneConfiguration ==
  /\ checker_routes = config.routes
  /\ DOMAIN load_balancers = Paths(config.routes)
  /\ \A r \in DOMAIN load_balancers :
       balancers[load_balancers[r]].backends = ServersOf(config.routes, r)

(***************************************************************************)
(* The same of every configuration whose algorithm is known, whatever      *)
(* reloads failed before it: a failed reload leaves nothing behind that a  *)
(* later one does not repair.                                              *)
(***************************************************************************)
OneKnownConfiguration == config.algorithm \in Algorithms => OneConfiguration

(***************************************************************************)
(* README.md:23: under least_connections a new connection goes to a server *)
(* whose url has no more open connections than that of any other healthy   *)
(* server of the route, counted as the network sees them.                  *)
(***************************************************************************)
OpenTo(u) == Cardinality({c \in Client : pc[c] \in Holding /\ backend[c].url = u})

LeastConnectionsServed ==
  [][\A c \in Client :
       pc[c] \notin Holding /\ pc'[c] = "connecting" =>
         LET lb == balancers[selected_lb'[c]]
         IN  lb.algorithm = "least_connections" =>
               \A j \in DOMAIN lb.backends :
                 healthy[lb.backends[j]] =>
                   OpenTo(backend'[c].url) <= OpenTo(lb.backends[j].url)]_vars

(***************************************************************************)
(* README.md:91, "silently connects to the next healthy server": a retry   *)
(* goes to a server of the same route that is marked healthy, never to the *)
(* one that has just refused, whichever of them came back meanwhile.       *)
(***************************************************************************)
RetriesElsewhere ==
  [][\A c \in Client :
       pc[c] = "refused" /\ pc'[c] = "connecting" =>
         /\ backend'[c] # backend[c]
         /\ healthy'[backend'[c]]
         /\ \E j \in DOMAIN balancers[selected_lb[c]].backends :
              backend'[c] = balancers[selected_lb[c]].backends[j]]_vars

(***************************************************************************)
(* README.md:91 "temporarily": a server that accepts connections for good  *)
(* and stays configured is healthy again in the end, whatever the circuit  *)
(* breaker and late verdicts of the checks have written in between.        *)
(***************************************************************************)
Recovery ==
  \A b \in Server :
    <>[](up[b.url] /\ b \in Listed(config.routes)) => <>[]healthy[b]

(***************************************************************************)
(* README.md:32: once a server is down for good, requests stop being sent  *)
(* to it.                                                                  *)
(***************************************************************************)
Quarantine ==
  \A u \in Url :
    <>[]~up[u] => <>[](\A c \in Client : pc[c] = "connecting" => backend[c].url # u)

(***************************************************************************)
(* Every request that reaches routing is connected or answered: the retry  *)
(* loop ends (proxy.py:552-585), also while servers come and go.           *)
(***************************************************************************)
Decided ==
  \A c \in Client :
    pc[c] = "connecting" ~> pc[c] \notin {"connecting", "refused"}
=============================================================================
