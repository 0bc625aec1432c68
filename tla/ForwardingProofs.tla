-------------------------- MODULE ForwardingProofs --------------------------
(***************************************************************************)
(* Proofs about Forwarding for any connections, servers, configurations,   *)
(* Docker answers and number of reloads.                                   *)
(*                                                                         *)
(* First what the proofs rest on: the objects, routings and balancers that *)
(* the operators build are of their types, and the counts that a handler   *)
(* gives back or takes are those of the objects' holders.  The invariant   *)
(* is TypeOK with ActiveConnectionsExact: the one is needed to know that a *)
(* handler holds an object of the proxy, the other to know that a count    *)
(* given back was at least one.  Last, the refinement of ForwardingService.*)
(***************************************************************************)
EXTENDS ForwardingRefinement, SilentRetry, LoadBalancerProofs

-----------------------------------------------------------------------------
(* A function on 1..n is a list.                                           *)
LEMMA FunctionIsSeq ==
  ASSUME NEW n \in Nat, NEW S, NEW f \in [1 .. n -> S]
  PROVE  f \in Seq(S)
OBVIOUS

(* What the objects and the routes built from a listing are.               *)
LEMMA BuildType ==
  ASSUME NEW g \in 0 .. MaxLoads, NEW listing \in Listings
  PROVE  Build(g, listing) \in Routes
<1>1. listing \in Seq([path : Prefix, servers : Seq(Entry)])
  BY ForwardingAssumption
<1>2. Listed(Build(g, listing)) \subseteq Server
  BY DEF Server
<1>3. DOMAIN listing = 1 .. Len(listing) /\ Len(listing) \in Nat
  BY <1>1, LenProperties
<1> DEFINE Servers(i) == [j \in DOMAIN listing[i].servers |->
                            BackendServer(g, <<i, j>>, listing[i].servers[j])]
<1>4. Build(g, listing) = [i \in 1 .. Len(listing) |->
                             [path |-> listing[i].path, servers |-> Servers(i)]]
  BY <1>3 DEF Build
<1>5. ASSUME NEW i \in 1 .. Len(listing)
      PROVE  listing[i].path \in Prefix /\ Servers(i) \in Seq(Server)
  <2>1. listing[i] \in [path : Prefix, servers : Seq(Entry)]
    BY <1>1, ElementOfSeq
  <2>2. DOMAIN listing[i].servers = 1 .. Len(listing[i].servers)
        /\ Len(listing[i].servers) \in Nat
    BY <2>1, LenProperties
  <2>3. ASSUME NEW j \in DOMAIN listing[i].servers
        PROVE  Servers(i)[j] \in Server
    <3>1. Build(g, listing)[i] = [path |-> listing[i].path, servers |-> Servers(i)]
      BY <1>4
    <3>2. Servers(i)[j] \in Listed(Build(g, listing))
      BY <1>4, <3>1 DEF Listed
    <3> QED
      BY <1>2, <3>2
  <2>4. Servers(i) \in [1 .. Len(listing[i].servers) -> Server]
    BY <2>2, <2>3
  <2>5. Servers(i) \in Seq(Server)
    <3> HIDE DEF Servers
    <3> QED BY <2>2, <2>4, FunctionIsSeq
  <2> QED
    BY <2>1, <2>5
<1>6. Build(g, listing) \in [1 .. Len(listing) -> [path : Prefix, servers : Seq(Server)]]
  <2> HIDE DEF Servers
  <2> QED BY <1>4, <1>5
<1> QED
  BY <1>3, <1>6, FunctionIsSeq DEF Routes

(* An object has the attributes of an entry of some listing.               *)
LEMMA ServerIsOfEntry ==
  ASSUME NEW b \in Server
  PROVE  \E e \in Entry : b.url = e.url /\ b.weight = e.weight /\ b.country = e.country
<1>1. PICK g \in 0 .. MaxLoads, listing \in Listings : b \in Listed(Build(g, listing))
  BY DEF Server
<1>2. listing \in Seq([path : Prefix, servers : Seq(Entry)])
  BY ForwardingAssumption
<1>3. DOMAIN Build(g, listing) = DOMAIN listing /\ DOMAIN listing = 1 .. Len(listing)
  BY <1>2, LenProperties DEF Build
<1>4. PICK i \in DOMAIN listing :
        \E j \in DOMAIN Build(g, listing)[i].servers : b = Build(g, listing)[i].servers[j]
  BY <1>1, <1>3 DEF Listed
<1>5. listing[i] \in [path : Prefix, servers : Seq(Entry)]
  BY <1>2, <1>3, ElementOfSeq
<1>6. DOMAIN Build(g, listing)[i].servers = DOMAIN listing[i].servers
  BY <1>3 DEF Build
<1> PICK j \in DOMAIN listing[i].servers : b = Build(g, listing)[i].servers[j]
  BY <1>4, <1>6
<1>7. listing[i].servers[j] \in Entry
  BY <1>5, LenProperties, ElementOfSeq
<1>8. b = BackendServer(g, <<i, j>>, listing[i].servers[j])
  BY <1>3 DEF Build
<1> QED
  BY <1>7, <1>8 DEF BackendServer

LEMMA ServerType ==
  ASSUME NEW b \in Server
  PROVE  b.url \in Url /\ b.weight \in Nat
BY ServerIsOfEntry, ForwardingAssumption

-----------------------------------------------------------------------------
(* The places of a url are finitely many, and each holds an object of it.  *)
LEMMA PlacesType ==
  ASSUME NEW routes \in Routes, NEW url
  PROVE  /\ IsFiniteSet(Places(routes, url))
         /\ Places(routes, url) \in SUBSET (Int \X Int)
         /\ \A p \in Places(routes, url) : /\ ObjectAt(routes, p) \in Server
                                           /\ ObjectAt(routes, p) \in Listed(routes)
                                           /\ ObjectAt(routes, p).url = url
<1> DEFINE Row(i) == {i} \X {j \in DOMAIN routes[i].servers : routes[i].servers[j].url = url}
           row == [i \in DOMAIN routes |-> Row(i)]
           rows == {Row(i) : i \in DOMAIN routes}
           places == Places(routes, url)
<1>1. DOMAIN routes = 1 .. Len(routes) /\ Len(routes) \in Nat
  BY LenProperties DEF Routes
<1>2. \A i \in DOMAIN routes : routes[i].servers \in Seq(Server)
  <2> TAKE i \in DOMAIN routes
  <2>1. routes[i] \in [path : Prefix, servers : Seq(Server)]
    BY <1>1, ElementOfSeq DEF Routes
  <2> QED
    BY <2>1
<1>3. \A i \in DOMAIN routes : IsFiniteSet(Row(i)) /\ Row(i) \in SUBSET (Int \X Int)
  <2> TAKE i \in DOMAIN routes
  <2> DEFINE js == {j \in DOMAIN routes[i].servers : routes[i].servers[j].url = url}
  <2>1. DOMAIN routes[i].servers = 1 .. Len(routes[i].servers) /\ Len(routes[i].servers) \in Nat
    BY <1>2, LenProperties
  <2>2. IsFiniteSet(1 .. Len(routes[i].servers)) /\ js \in SUBSET (1 .. Len(routes[i].servers))
    BY <2>1, FS_Interval
  <2>3. IsFiniteSet(js)
    <3> HIDE DEF js
    <3> QED BY <2>2, FS_Subset
  <2>4. IsFiniteSet({i})
    BY FS_Singleton
  <2>5. IsFiniteSet({i} \X js)
    <3> HIDE DEF js
    <3> QED BY <2>3, <2>4, FS_Product
  <2> QED
    BY <1>1, <2>2, <2>5
<1>4. IsFiniteSet(rows)
  <2>1. row \in Surjection(DOMAIN routes, rows)
    BY DEF Surjection
  <2>2. IsFiniteSet(DOMAIN routes)
    BY <1>1, FS_Interval
  <2> HIDE DEF row, rows
  <2> QED BY <2>1, <2>2, FS_Surjection
<1>5. IsFiniteSet(UNION rows)
  <2>1. \A R \in rows : IsFiniteSet(R)
    BY <1>3
  <2> HIDE DEF rows
  <2> QED BY <1>4, <2>1, FS_UNION
<1>6. places = UNION rows
  BY DEF Places
<1>7. IsFiniteSet(places) /\ places \in SUBSET (Int \X Int)
  BY <1>3, <1>5, <1>6
<1>8. ASSUME NEW p \in places
      PROVE  /\ ObjectAt(routes, p) \in Server /\ ObjectAt(routes, p) \in Listed(routes)
             /\ ObjectAt(routes, p).url = url
  <2>1. \A i \in DOMAIN routes : \A j \in DOMAIN routes[i].servers : routes[i].servers[j] \in Server
    BY <1>2, LenProperties, ElementOfSeq
  <2>2. PICK i \in DOMAIN routes : p \in Row(i)
    BY DEF Places
  <2>3. PICK j \in DOMAIN routes[i].servers : p = <<i, j>> /\ routes[i].servers[j].url = url
    BY <2>2
  <2>4. ObjectAt(routes, p) = routes[i].servers[j]
    BY <2>3 DEF ObjectAt
  <2> QED
    BY <2>1, <2>3, <2>4 DEF Listed
<1> QED
  BY <1>7, <1>8

(* A url that is listed has a first and a last place.                      *)
LEMMA ListedByUrl ==
  ASSUME NEW routes \in Routes, NEW url, Places(routes, url) # {}
  PROVE  /\ \E p \in Places(routes, url) : FirstListed(routes, url) = ObjectAt(routes, p)
         /\ \E p \in Places(routes, url) : LastListed(routes, url) = ObjectAt(routes, p)
<1> DEFINE places == Places(routes, url)
<1>1. IsFiniteSet(places) /\ places \in SUBSET (Int \X Int)
  BY PlacesType
<1>2. places # {}
  OBVIOUS
<1> HIDE DEF places
<1>3. Cardinality(places) \in Nat /\ Cardinality(places) # 0
  BY <1>1, <1>2, FS_EmptySet, FS_CardinalityType
<1>4. 0 \in 0 .. Cardinality(places) - 1 /\ Cardinality(places) - 1 \in 0 .. Cardinality(places) - 1
  BY <1>3
<1>5. AtRank(places, 0) \in places /\ AtRank(places, Cardinality(places) - 1) \in places
  BY <1>1, <1>4, AtRankIsElement
<1> QED
  BY <1>5 DEF FirstListed, LastListed, places

LEMMA LastListedType ==
  ASSUME NEW routes \in Routes, NEW url, Places(routes, url) # {}
  PROVE  LastListed(routes, url) \in Server /\ LastListed(routes, url).url = url
BY ListedByUrl, PlacesType

(* Merging two routings of objects gives a routing of objects.             *)
LEMMA MergeType ==
  ASSUME NEW existing \in Routes, NEW routes \in Routes
  PROVE  Merge(existing, routes) \in Routes
<1> DEFINE Kept(i) == [j \in DOMAIN routes[i].servers |->
                         LET server == routes[i].servers[j]
                         IN  IF Places(existing, server.url) # {}
                               THEN LastListed(existing, server.url) ELSE server]
<1>1. DOMAIN routes = 1 .. Len(routes) /\ Len(routes) \in Nat
  BY LenProperties DEF Routes
<1>2. Merge(existing, routes) =
        [i \in 1 .. Len(routes) |-> [path |-> routes[i].path, servers |-> Kept(i)]]
  BY <1>1 DEF Merge
<1>3. ASSUME NEW i \in 1 .. Len(routes)
      PROVE  routes[i].path \in Prefix /\ Kept(i) \in Seq(Server)
  <2>1. routes[i] \in [path : Prefix, servers : Seq(Server)]
    BY ElementOfSeq DEF Routes
  <2>2. DOMAIN routes[i].servers = 1 .. Len(routes[i].servers)
        /\ Len(routes[i].servers) \in Nat
    BY <2>1, LenProperties
  <2>3. \A j \in DOMAIN routes[i].servers : routes[i].servers[j] \in Server
    BY <2>1, <2>2, ElementOfSeq
  <2>4. Kept(i) \in [1 .. Len(routes[i].servers) -> Server]
    BY <2>2, <2>3, LastListedType
  <2>5. Kept(i) \in Seq(Server)
    <3> HIDE DEF Kept
    <3> QED BY <2>2, <2>4, FunctionIsSeq
  <2> QED
    BY <2>1, <2>5
<1>4. Merge(existing, routes) \in [1 .. Len(routes) -> [path : Prefix, servers : Seq(Server)]]
  <2> HIDE DEF Kept
  <2> QED BY <1>2, <1>3
<1> QED
  BY <1>1, <1>4, FunctionIsSeq DEF Routes

(* A route is found again by its path, whatever its servers are.           *)
LEMMA ServersOfIn ==
  ASSUME NEW L, NEW routes \in Seq([path : Prefix, servers : L]), NEW r \in Paths(routes)
  PROVE  r \in Prefix /\ ServersOf(routes, r) \in L
<1>1. DOMAIN routes = 1 .. Len(routes)
  BY LenProperties
<1>2. \A i \in DOMAIN routes : routes[i] \in [path : Prefix, servers : L]
  BY <1>1, ElementOfSeq
<1>3. \E i \in DOMAIN routes : routes[i].path = r
  BY DEF Paths
<1> QED
  BY <1>2, <1>3 DEF ServersOf

LEMMA ServersOfType ==
  ASSUME NEW routes \in Routes, NEW r \in Paths(routes)
  PROVE  r \in Prefix /\ ServersOf(routes, r) \in Seq(Server)
BY ServersOfIn DEF Routes

(* What Docker discovery overrides has the lists of before or discovered.  *)
LEMMA OverrideRoutesIn ==
  ASSUME NEW L, NEW old \in Seq([path : Prefix, servers : L]),
         NEW discovered \in Seq([path : Prefix, servers : L])
  PROVE  OverrideRoutes(old, discovered) \in Seq([path : Prefix, servers : L])
<1> DEFINE Route == [path : Prefix, servers : L]
           new == {n \in DOMAIN discovered : discovered[n].path \notin Paths(old)}
           fresh == {<<i, 0>> : i \in new}
           n == Len(old) + Cardinality(fresh)
           Item(i) == IF i > Len(old) THEN discovered[AtRank(fresh, i - Len(old) - 1)[1]]
                      ELSE IF old[i].path \in Paths(discovered)
                        THEN [path |-> old[i].path, servers |-> ServersOf(discovered, old[i].path)]
                        ELSE old[i]
<1>1. /\ DOMAIN old = 1 .. Len(old) /\ Len(old) \in Nat
      /\ DOMAIN discovered = 1 .. Len(discovered) /\ Len(discovered) \in Nat
  BY LenProperties
<1>2. IsFiniteSet(new) /\ new \in SUBSET Int
  <2>1. IsFiniteSet(1 .. Len(discovered)) /\ new \in SUBSET (1 .. Len(discovered))
    BY <1>1, FS_Interval
  <2>2. IsFiniteSet(new)
    <3> HIDE DEF new
    <3> QED BY <2>1, FS_Subset
  <2>3. new \in SUBSET Int
    BY <1>1
  <2> QED
    BY <2>2, <2>3
<1>3. IsFiniteSet(fresh)
  <2> DEFINE f == [i \in new |-> <<i, 0>>]
  <2>1. f \in Surjection(new, fresh)
    BY DEF Surjection
  <2> HIDE DEF f, fresh, new
  <2> QED BY <1>2, <2>1, FS_Surjection
<1>4. fresh \in SUBSET (Int \X Int) /\ \A p \in fresh : p[1] \in DOMAIN discovered
  BY <1>1
<1>5. Cardinality(fresh) \in Nat /\ n \in Nat
  <2> HIDE DEF fresh
  <2> QED BY <1>1, <1>3, FS_CardinalityType
<1>6. ASSUME NEW i \in 1 .. n
      PROVE  Item(i) \in Route
  <2>1. CASE i > Len(old)
    <3> DEFINE k == i - Len(old) - 1
    <3>1. k \in 0 .. Cardinality(fresh) - 1
      <4> HIDE DEF fresh
      <4> QED BY <1>1, <1>5, <2>1
    <3>2. AtRank(fresh, k) \in fresh
      <4> HIDE DEF fresh, k
      <4> QED BY <1>3, <1>4, <3>1, AtRankIsElement
    <3>3. AtRank(fresh, k)[1] \in 1 .. Len(discovered)
      <4> HIDE DEF fresh, k
      <4> QED BY <1>1, <1>4, <3>2
    <3>4. discovered[AtRank(fresh, k)[1]] \in Route
      <4> HIDE DEF fresh, k
      <4> QED BY <3>3, ElementOfSeq
    <3> QED
      BY <2>1, <3>4
  <2>2. CASE ~(i > Len(old))
    <3>1. i \in 1 .. Len(old)
      <4> HIDE DEF fresh
      <4> QED BY <1>1, <1>5, <2>2
    <3>2. old[i] \in Route
      BY <3>1, ElementOfSeq
    <3>3. old[i].path \in Paths(discovered) => ServersOf(discovered, old[i].path) \in L
      BY ServersOfIn
    <3> QED
      BY <2>2, <3>2, <3>3
  <2> QED
    BY <2>1, <2>2
<1>7. OverrideRoutes(old, discovered) = [i \in 1 .. n |-> Item(i)]
  BY DEF OverrideRoutes
<1>8. [i \in 1 .. n |-> Item(i)] \in [1 .. n -> Route]
  <2> HIDE DEF Item, n, Route
  <2> QED BY <1>6
<1>9. [i \in 1 .. n |-> Item(i)] \in Seq(Route)
  <2> DEFINE items == [i \in 1 .. n |-> Item(i)]
  <2> HIDE DEF Item, n, Route, items
  <2>1. items \in [1 .. n -> Route]
    BY <1>8 DEF items
  <2> QED
    BY <1>5, <2>1, FunctionIsSeq DEF items
<1> QED
  BY <1>7, <1>9

LEMMA OverrideRoutesType ==
  ASSUME NEW old \in Routes, NEW discovered \in Routes
  PROVE  OverrideRoutes(old, discovered) \in Routes
BY OverrideRoutesIn DEF Routes

-----------------------------------------------------------------------------
(* The parts of TypeOK by what they speak of.                              *)
EnvironmentOK == up \in [Url -> BOOLEAN] /\ healthy \in [Server -> BOOLEAN]

RoutingOK ==
  /\ config \in Config
  /\ checker_routes \in Routes
  /\ generation \in 0 .. MaxLoads
  /\ DOMAIN load_balancers \subseteq Prefix
  /\ \A r \in DOMAIN load_balancers : load_balancers[r] = <<generation, r>>
  /\ \A r \in DOMAIN load_balancers : load_balancers[r] \in DOMAIN balancers

BalancersOK ==
  /\ DOMAIN balancers \subseteq Reference
  /\ \A ref \in DOMAIN balancers : ref[1] <= generation /\ balancers[ref] \in Balancer

CheckOK == check \in [Server -> {"none", "running", "alive", "dead"}]

HandlersOK ==
  /\ active_connections \in [Server -> Nat]
  /\ pc \in [Client -> {"idle", "raised"} \cup Holding \cup Answered]
  /\ attempts \in [Client -> Nat]
  /\ DOMAIN selected_lb = Client /\ DOMAIN backend = Client
  /\ \A c \in Client : pc[c] \in Holding \cup {"raised"} =>
       backend[c] \in Server /\ selected_lb[c] \in DOMAIN balancers

LEMMA TypeOKParts ==
  /\ TypeOK <=> EnvironmentOK /\ RoutingOK /\ BalancersOK /\ CheckOK /\ HandlersOK
  /\ TypeOK' <=> EnvironmentOK' /\ RoutingOK' /\ BalancersOK' /\ CheckOK' /\ HandlersOK'
BY DEF TypeOK, EnvironmentOK, RoutingOK, BalancersOK, CheckOK, HandlersOK

Inv == TypeOK /\ ActiveConnectionsExact

(* The holders of an object are finitely many.                             *)
LEMMA HoldersFinite ==
  ASSUME NEW b
  PROVE  IsFiniteSet(Holders(b)) /\ Cardinality(Holders(b)) \in Nat
<1>1. Holders(b) \in SUBSET Client
  BY DEF Holders
<1>2. IsFiniteSet(Holders(b))
  BY <1>1, ForwardingAssumption, FS_Subset
<1> QED
  BY <1>2, FS_CardinalityType

(***************************************************************************)
(* A handler that gives its count back leaves every object counted by the  *)
(* other holders.                                                          *)
(***************************************************************************)
LEMMA GiveBack ==
  ASSUME Inv, NEW c \in Client, pc[c] \in Holding,
         NEW counts, counts = [active_connections EXCEPT ![backend[c]] = @ - 1]
  PROVE  /\ counts \in [Server -> Nat]
         /\ \A b \in Server : counts[b] = Cardinality(Holders(b) \ {c})
<1>1. active_connections \in [Server -> Nat] /\ backend[c] \in Server
  BY DEF Inv, TypeOK
<1>2. \A b \in Server : active_connections[b] = Cardinality(Holders(b))
  BY DEF Inv, ActiveConnectionsExact
<1>3. \A b \in Server : c \in Holders(b) <=> b = backend[c]
  BY DEF Holders
<1>4. \A b \in Server :
        Cardinality(Holders(b) \ {c}) =
          IF b = backend[c] THEN Cardinality(Holders(b)) - 1 ELSE Cardinality(Holders(b))
  BY <1>3, HoldersFinite, FS_RemoveElement
<1>5. \A b \in Server : Cardinality(Holders(b) \ {c}) \in Nat
  <2> TAKE b \in Server
  <2>1. IsFiniteSet(Holders(b) \ {c})
    BY HoldersFinite, FS_RemoveElement
  <2> QED
    BY <2>1, FS_CardinalityType
<1>6. \A b \in Server : counts[b] = Cardinality(Holders(b) \ {c})
  BY <1>1, <1>2, <1>4
<1>7. counts = [b \in Server |-> counts[b]]
  BY <1>1
<1>8. \A b \in Server : counts[b] \in Nat
  BY <1>5, <1>6
<1> QED
  BY <1>6, <1>7, <1>8

(* The arguments that the handlers give their balancers.                   *)
LEMMA ArgumentsOK ==
  ASSUME TypeOK, NEW c \in Client, NEW ref \in DOMAIN balancers, NEW counts \in [Server -> Nat]
  PROVE  Arguments(Server, balancers[ref], c, counts)
<1>1. balancers[ref].backends \in Seq(Server) /\ balancers[ref].current_index \in Nat
  BY DEF TypeOK, Balancer
<1>2. (\A b \in Server : b.weight \in Nat) /\ Hash[c] \in Nat
  BY ServerType, ForwardingAssumption
<1> QED BY <1>1, <1>2 DEF Arguments

(* What the balancer of a handler returns is an object of its own list.    *)
LEMMA SelectedIsServer ==
  ASSUME TypeOK, NEW c \in Client, NEW ref \in DOMAIN balancers,
         NEW marks, NEW counts \in [Server -> Nat],
         NEW server, server = Selected(balancers[ref], marks, counts, c, CountryOf[c]),
         server # None
  PROVE  /\ server \in Server
         /\ marks[server]
         /\ \E j \in DOMAIN balancers[ref].backends : server = balancers[ref].backends[j]
<1> DEFINE lb == balancers[ref]
           pool == HealthyServers(lb.backends, marks, CountryOf[c])
<1>1. lb.backends \in Seq(Server)
  BY DEF TypeOK, Balancer
<1>2. \E i \in pool : server = lb.backends[i]
  <2>1. Arguments(Server, lb, c, counts)
    BY ArgumentsOK
  <2>2. ServesPool(lb, marks, counts, c, CountryOf[c])
    <3> HIDE DEF lb
    <3> QED BY <2>1, SelectedIsHealthy
  <2> QED BY <2>2 DEF ServesPool
<1>3. pool \subseteq 1 .. Len(lb.backends) /\ \A i \in pool : marks[lb.backends[i]]
  BY <1>1, PoolIsFinite
<1>4. DOMAIN lb.backends = 1 .. Len(lb.backends)
  BY <1>1, LenProperties
<1>5. \A i \in pool : lb.backends[i] \in Server
  BY <1>1, <1>3, ElementOfSeq
<1> QED
  BY <1>2, <1>3, <1>4, <1>5

(***************************************************************************)
(* The head of the retry loop: whatever the balancer answers, the handler  *)
(* is counted in the object it now holds and in no other.                  *)
(***************************************************************************)
LEMMA TryBackendCounts ==
  ASSUME TypeOK, NEW c \in Client, NEW ref \in DOMAIN balancers, NEW left \in Nat,
         NEW marks, NEW counts \in [Server -> Nat],
         \A b \in Server : counts[b] = Cardinality(Holders(b) \ {c}),
         TryBackend(c, ref, left, marks, counts), UNCHANGED generation
  PROVE  HandlersOK' /\ BalancersOK' /\ ActiveConnectionsExact' /\
         DOMAIN balancers' = DOMAIN balancers
<1> DEFINE lb == balancers[ref]
           server == IF left = 0 THEN None ELSE Selected(lb, marks, counts, c, CountryOf[c])
<1> USE DEF Holding, Answered
<1>1. HandlersOK /\ BalancersOK
  BY TypeOKParts
<1>2. \A b \in Server : IsFiniteSet(Holders(b) \ {c}) /\ Cardinality(Holders(b) \ {c}) \in Nat
  <2> TAKE b \in Server
  <2>1. IsFiniteSet(Holders(b) \ {c})
    BY HoldersFinite, FS_RemoveElement
  <2> QED
    BY <2>1, FS_CardinalityType
<1>3. CASE server = None
  <2>1. /\ pc' = [pc EXCEPT ![c] = "bad_gateway"]
        /\ selected_lb' = [selected_lb EXCEPT ![c] = None]
        /\ attempts' = [attempts EXCEPT ![c] = 0]
        /\ backend' = [backend EXCEPT ![c] = None]
        /\ active_connections' = counts
        /\ balancers' = balancers
    BY <1>3 DEF TryBackend, Leave
  <2>2. \A b \in Server : Holders(b)' = Holders(b) \ {c}
    BY <1>1, <2>1 DEF Holders, HandlersOK
  <2>3. ActiveConnectionsExact'
    BY <2>1, <2>2 DEF ActiveConnectionsExact
  <2>4. HandlersOK'
    BY <1>1, <2>1 DEF HandlersOK
  <2>5. BalancersOK'
    BY <1>1, <2>1 DEF BalancersOK
  <2> QED
    BY <2>1, <2>3, <2>4, <2>5
<1>4. CASE server # None
  <2>1. /\ pc' = [pc EXCEPT ![c] = "connecting"]
        /\ selected_lb' = [selected_lb EXCEPT ![c] = ref]
        /\ attempts' = [attempts EXCEPT ![c] = left - 1]
        /\ backend' = [backend EXCEPT ![c] = server]
        /\ active_connections' = [counts EXCEPT ![server] = @ + 1]
        /\ balancers' = [balancers EXCEPT ![ref].current_index =
                            NextIndex(lb, marks, CountryOf[c])]
    BY <1>4 DEF TryBackend
  <2>2. left # 0 /\ server = Selected(lb, marks, counts, c, CountryOf[c])
    BY <1>4
  <2>3. server \in Server
    <3> HIDE DEF server
    <3> QED BY <1>4, <2>2, SelectedIsServer
  <2>4. NextIndex(lb, marks, CountryOf[c]) \in Nat
    <3>1. lb.backends \in Seq(Server) /\ lb.current_index \in Nat
      BY <1>1 DEF BalancersOK, Balancer
    <3>2. \A b \in Server : b.weight \in Nat
      BY ServerType
    <3> HIDE DEF lb
    <3> QED BY <3>1, <3>2, NextIndexType
  <2> HIDE DEF server, lb
  <2>5. \A b \in Server :
          Holders(b)' = IF b = server THEN (Holders(b) \ {c}) \cup {c} ELSE Holders(b) \ {c}
    BY <1>1, <2>1 DEF Holders, HandlersOK
  <2>6. \A b \in Server : Cardinality((Holders(b) \ {c}) \cup {c}) = Cardinality(Holders(b) \ {c}) + 1
    BY <1>2, FS_AddElement
  <2>7. ActiveConnectionsExact'
    BY <2>1, <2>3, <2>5, <2>6 DEF ActiveConnectionsExact
  <2>8. HandlersOK'
    <3>1. DOMAIN balancers' = DOMAIN balancers
      BY <2>1
    <3>2. left - 1 \in Nat
      BY <2>2
    <3> QED
      BY <1>1, <2>1, <2>3, <3>1, <3>2 DEF HandlersOK
  <2>9. BalancersOK'
    BY <1>1, <2>1, <2>4 DEF BalancersOK, Balancer
  <2> QED
    BY <2>1, <2>7, <2>8, <2>9
<1> QED
  BY <1>3, <1>4

-----------------------------------------------------------------------------
(* A configuration as a file holds it, and what reload_config makes of it. *)
LEMMA LoadType ==
  ASSUME NEW file \in Files \cup {Initial}, NEW g \in 0 .. MaxLoads
  PROVE  Load(file, g) \in Config
<1>1. file.routes \in Listings /\ file.max_retries \in Nat
  BY ForwardingAssumption DEF Listings
<1>2. Build(g, file.routes) \in Routes
  BY <1>1, BuildType
<1> QED
  BY <1>1, <1>2 DEF Load, Config

(* The balancers of a configuration with a known algorithm.                *)
LEMMA CreatedByType ==
  ASSUME NEW new \in Config, new.algorithm \in Algorithms, NEW g \in 0 .. MaxLoads
  PROVE  /\ DOMAIN CreatedBy(new, g) = {g} \X Paths(new.routes)
         /\ DOMAIN CreatedBy(new, g) \subseteq Reference
         /\ \A ref \in DOMAIN CreatedBy(new, g) :
              ref[1] = g /\ CreatedBy(new, g)[ref] \in Balancer
         /\ DOMAIN ReferencesTo(new, g) \subseteq Prefix
         /\ \A r \in DOMAIN ReferencesTo(new, g) :
              /\ ReferencesTo(new, g)[r] = <<g, r>>
              /\ ReferencesTo(new, g)[r] \in DOMAIN CreatedBy(new, g)
<1>1. new.routes \in Routes
  BY DEF Config
<1>2. \A r \in Paths(new.routes) : r \in Prefix /\ ServersOf(new.routes, r) \in Seq(Server)
  BY <1>1, ServersOfType
<1>3. \A ref \in {g} \X Paths(new.routes) :
        NewBalancer(new.algorithm, ServersOf(new.routes, ref[2])) \in Balancer
  BY <1>2 DEF NewBalancer, Balancer
<1> QED
  BY <1>2, <1>3 DEF CreatedBy, ReferencesTo, Reference

LEMMA InitInv == Init => Inv
<1> SUFFICES ASSUME Init PROVE Inv
  OBVIOUS
<1>1. 0 \in 0 .. MaxLoads
  BY ForwardingAssumption
<1>2. Load(Initial, 0) \in Config /\ Load(Initial, 0).algorithm \in Algorithms
  BY <1>1, LoadType, ForwardingAssumption DEF Load
<1>3. /\ config \in Config /\ config.algorithm \in Algorithms
      /\ checker_routes = config.routes /\ generation = 0
      /\ balancers = CreatedBy(config, 0) /\ load_balancers = ReferencesTo(config, 0)
  BY <1>2 DEF Init
<1>4. EnvironmentOK /\ CheckOK
  BY DEF Init, EnvironmentOK, CheckOK
<1>5. BalancersOK
  <2>1. /\ DOMAIN CreatedBy(config, 0) \subseteq Reference
        /\ \A ref \in DOMAIN CreatedBy(config, 0) :
             ref[1] = 0 /\ CreatedBy(config, 0)[ref] \in Balancer
    BY <1>1, <1>3, CreatedByType
  <2> QED
    BY <1>3, <2>1 DEF BalancersOK
<1>6. RoutingOK
  <2>1. /\ DOMAIN ReferencesTo(config, 0) \subseteq Prefix
        /\ \A r \in DOMAIN ReferencesTo(config, 0) :
             /\ ReferencesTo(config, 0)[r] = <<0, r>>
             /\ ReferencesTo(config, 0)[r] \in DOMAIN CreatedBy(config, 0)
    BY <1>1, <1>3, CreatedByType
  <2>2. config.routes \in Routes
    BY <1>3 DEF Config
  <2> QED
    BY <1>1, <1>3, <2>1, <2>2 DEF RoutingOK
<1>7. HandlersOK
  BY DEF Init, HandlersOK, Holding, Answered
<1>8. ActiveConnectionsExact
  <2>1. \A b : Holders(b) = {}
    BY DEF Init, Holders, Holding
  <2> QED
    BY <2>1, FS_EmptySet DEF Init, ActiveConnectionsExact
<1> QED
  BY <1>4, <1>5, <1>6, <1>7, <1>8, TypeOKParts DEF Inv

-----------------------------------------------------------------------------
(* The handler.                                                            *)
LEMMA ArriveInv ==
  ASSUME Inv, NEW c \in Client, NEW path \in Path, Arrive(c, path)
  PROVE  Inv'
<1>1. EnvironmentOK /\ RoutingOK /\ BalancersOK /\ CheckOK /\ HandlersOK
  BY TypeOKParts DEF Inv
<1> PICK r \in DOMAIN load_balancers :
      TryBackend(c, load_balancers[r], config.max_retries, healthy, active_connections)
  BY DEF Arrive
<1>2. load_balancers[r] \in DOMAIN balancers /\ config.max_retries \in Nat
  BY <1>1 DEF RoutingOK, Config
<1>3. active_connections \in [Server -> Nat]
  BY <1>1 DEF HandlersOK
<1>4. \A b \in Server : active_connections[b] = Cardinality(Holders(b) \ {c})
  <2>1. \A b \in Server : c \notin Holders(b)
    BY DEF Arrive, Holders, Holding, Answered
  <2>2. \A b \in Server : Holders(b) \ {c} = Holders(b)
    BY <2>1
  <2> QED
    BY <2>2 DEF Inv, ActiveConnectionsExact
<1>5. /\ up' = up /\ healthy' = healthy /\ config' = config /\ check' = check
      /\ checker_routes' = checker_routes /\ generation' = generation
      /\ load_balancers' = load_balancers
  BY DEF Arrive, balancing
<1>6. HandlersOK' /\ BalancersOK' /\ ActiveConnectionsExact' /\
      DOMAIN balancers' = DOMAIN balancers
  <2>1. TypeOK
    BY DEF Inv
  <2> QED
    BY <1>2, <1>3, <1>4, <1>5, <2>1, TryBackendCounts
<1>7. EnvironmentOK' /\ RoutingOK' /\ CheckOK'
  BY <1>1, <1>5, <1>6 DEF EnvironmentOK, RoutingOK, CheckOK
<1> QED
  BY <1>6, <1>7, TypeOKParts DEF Inv

LEMMA RetryInv ==
  ASSUME Inv, NEW c \in Client, Retry(c)
  PROVE  Inv'
<1> DEFINE counts == [active_connections EXCEPT ![backend[c]] = @ - 1]
<1>1. EnvironmentOK /\ RoutingOK /\ BalancersOK /\ CheckOK /\ HandlersOK
  BY TypeOKParts DEF Inv
<1>2. pc[c] \in Holding
  BY DEF Retry, Holding
<1>3. selected_lb[c] \in DOMAIN balancers /\ attempts[c] \in Nat
  BY <1>1, <1>2 DEF HandlersOK
<1>4. counts \in [Server -> Nat] /\ \A b \in Server : counts[b] = Cardinality(Holders(b) \ {c})
  <2>1. counts = [active_connections EXCEPT ![backend[c]] = @ - 1]
    OBVIOUS
  <2> HIDE DEF counts
  <2> QED BY <1>2, <2>1, GiveBack
<1>5. /\ TryBackend(c, selected_lb[c], attempts[c], healthy', counts)
      /\ healthy' = [healthy EXCEPT ![backend[c]] = FALSE]
      /\ up' = up /\ config' = config /\ check' = check
      /\ checker_routes' = checker_routes /\ generation' = generation
      /\ load_balancers' = load_balancers
  BY DEF Retry, balancing
<1>6. HandlersOK' /\ BalancersOK' /\ ActiveConnectionsExact' /\
      DOMAIN balancers' = DOMAIN balancers
  <2>1. TypeOK
    BY DEF Inv
  <2> HIDE DEF counts
  <2> QED
    BY <1>3, <1>4, <1>5, <2>1, TryBackendCounts
<1>7. EnvironmentOK' /\ RoutingOK' /\ CheckOK'
  BY <1>1, <1>5, <1>6 DEF EnvironmentOK, RoutingOK, CheckOK
<1> QED
  BY <1>6, <1>7, TypeOKParts DEF Inv

(* The network moves a handler without changing what it holds.             *)
LEMMA NetworkInv ==
  ASSUME Inv, NEW c \in Client, Network(c)
  PROVE  Inv'
<1> USE DEF Holding, Answered
<1>1. EnvironmentOK /\ RoutingOK /\ BalancersOK /\ CheckOK /\ HandlersOK
  BY TypeOKParts DEF Inv
<1>2. /\ pc[c] = "connecting"
      /\ \E s \in {"relaying", "refused", "raised"} : pc' = [pc EXCEPT ![c] = s]
      /\ UNCHANGED <<up, healthy, active_connections, balancing, balancers, check,
                     selected_lb, attempts, backend>>
  BY DEF Network, ConnectionAccepted, ConnectionRefused, ConnectionRaises
<1>3. EnvironmentOK' /\ RoutingOK' /\ BalancersOK' /\ CheckOK'
  BY <1>1, <1>2 DEF EnvironmentOK, RoutingOK, BalancersOK, CheckOK, balancing
<1>4. HandlersOK'
  BY <1>1, <1>2 DEF HandlersOK
<1>5. \A b \in Server : Holders(b)' = Holders(b)
  BY <1>1, <1>2 DEF HandlersOK, Holders
<1>6. ActiveConnectionsExact'
  BY <1>2, <1>5 DEF Inv, ActiveConnectionsExact
<1> QED
  BY <1>3, <1>4, <1>6, TypeOKParts DEF Inv

(* A handler that leaves with its count given back.                        *)
LEMMA RelayEndInv ==
  ASSUME Inv, NEW c \in Client, RelayEnd(c)
  PROVE  Inv'
<1> USE DEF Holding, Answered
<1>1. EnvironmentOK /\ RoutingOK /\ BalancersOK /\ CheckOK /\ HandlersOK
  BY TypeOKParts DEF Inv
<1>2. /\ pc[c] \in Holding
      /\ pc' = [pc EXCEPT ![c] = "done"]
      /\ selected_lb' = [selected_lb EXCEPT ![c] = None]
      /\ attempts' = [attempts EXCEPT ![c] = 0]
      /\ backend' = [backend EXCEPT ![c] = None]
      /\ active_connections' = [active_connections EXCEPT ![backend[c]] = @ - 1]
      /\ UNCHANGED <<up, healthy, balancing, balancers, check>>
  BY DEF RelayEnd, Leave
<1>3. EnvironmentOK' /\ RoutingOK' /\ BalancersOK' /\ CheckOK'
  BY <1>1, <1>2 DEF EnvironmentOK, RoutingOK, BalancersOK, CheckOK, balancing
<1>4. /\ active_connections' \in [Server -> Nat]
      /\ \A b \in Server : active_connections'[b] = Cardinality(Holders(b) \ {c})
  BY <1>2, GiveBack
<1>5. HandlersOK'
  BY <1>1, <1>2, <1>4 DEF HandlersOK
<1>6. \A b \in Server : Holders(b)' = Holders(b) \ {c}
  BY <1>1, <1>2 DEF HandlersOK, Holders
<1>7. ActiveConnectionsExact'
  BY <1>4, <1>6 DEF ActiveConnectionsExact
<1> QED
  BY <1>3, <1>5, <1>7, TypeOKParts DEF Inv

LEMMA RefuseUnroutedInv ==
  ASSUME Inv, NEW c \in Client, NEW path \in Path, RefuseUnrouted(c, path)
  PROVE  Inv'
<1> USE DEF Holding, Answered
<1>1. EnvironmentOK /\ RoutingOK /\ BalancersOK /\ CheckOK /\ HandlersOK
  BY TypeOKParts DEF Inv
<1>2. /\ pc[c] \in {"idle"} \cup Answered
      /\ pc' = [pc EXCEPT ![c] = "not_found"]
      /\ selected_lb' = [selected_lb EXCEPT ![c] = None]
      /\ attempts' = [attempts EXCEPT ![c] = 0]
      /\ backend' = [backend EXCEPT ![c] = None]
      /\ UNCHANGED <<up, healthy, active_connections, balancing, balancers, check>>
  BY DEF RefuseUnrouted, Leave
<1>3. EnvironmentOK' /\ RoutingOK' /\ BalancersOK' /\ CheckOK'
  BY <1>1, <1>2 DEF EnvironmentOK, RoutingOK, BalancersOK, CheckOK, balancing
<1>4. HandlersOK'
  BY <1>1, <1>2 DEF HandlersOK
<1>5. \A b \in Server : Holders(b)' = Holders(b)
  BY <1>1, <1>2 DEF HandlersOK, Holders
<1>6. ActiveConnectionsExact'
  BY <1>2, <1>5 DEF Inv, ActiveConnectionsExact
<1> QED
  BY <1>3, <1>4, <1>6, TypeOKParts DEF Inv

-----------------------------------------------------------------------------
(* The health checker and the environment touch no count.                  *)
LEMMA HealthCheckerInv ==
  ASSUME Inv, HealthChecker \/ \E u \in Url : Toggle(u)
  PROVE  Inv'
<1>1. EnvironmentOK /\ RoutingOK /\ BalancersOK /\ CheckOK /\ HandlersOK
  BY TypeOKParts DEF Inv
<1>2. UNCHANGED <<active_connections, balancing, balancers, handlers>>
  BY DEF HealthChecker, StartRound, Probe, FinishCheck, Toggle
<1>3. EnvironmentOK' /\ CheckOK'
  <2>1. CASE StartRound
    BY <1>1, <2>1 DEF StartRound, EnvironmentOK, CheckOK
  <2>2. CASE \E b \in Server : Probe(b)
    BY <1>1, <2>2 DEF Probe, EnvironmentOK, CheckOK
  <2>3. CASE \E b \in Server : FinishCheck(b)
    BY <1>1, <2>3 DEF FinishCheck, EnvironmentOK, CheckOK
  <2>4. CASE \E u \in Url : Toggle(u)
    BY <1>1, <2>4 DEF Toggle, EnvironmentOK, CheckOK
  <2> QED
    BY <2>1, <2>2, <2>3, <2>4 DEF HealthChecker
<1>4. RoutingOK' /\ BalancersOK' /\ HandlersOK'
  BY <1>1, <1>2 DEF RoutingOK, BalancersOK, HandlersOK, balancing, handlers
<1>5. ActiveConnectionsExact'
  BY <1>2 DEF Inv, ActiveConnectionsExact, Holders, handlers
<1> QED
  BY <1>3, <1>4, <1>5, TypeOKParts DEF Inv

(***************************************************************************)
(* A reload adds balancers under references that no handler can hold yet,  *)
(* and replaces none.                                                      *)
(***************************************************************************)
LEMMA ReloadConfigInv ==
  ASSUME Inv, NEW new \in Config, NEW existing \in Routes, ReloadConfig(new, existing)
  PROVE  Inv'
<1> DEFINE g      == generation + 1
           merged == [new EXCEPT !.routes = Merge(existing, @)]
           fresh  == CreatedBy(merged, g)
<1>1. EnvironmentOK /\ RoutingOK /\ BalancersOK /\ CheckOK /\ HandlersOK
  BY TypeOKParts DEF Inv
<1>2. /\ generation < MaxLoads /\ generation' = g /\ config' = merged
      /\ UNCHANGED <<up, healthy, active_connections, check, handlers>>
      /\ \/ /\ new.algorithm \in Algorithms
            /\ load_balancers' = ReferencesTo(merged, g)
            /\ balancers' = [ref \in DOMAIN balancers \cup DOMAIN fresh |->
                               IF ref \in DOMAIN fresh THEN fresh[ref] ELSE balancers[ref]]
            /\ checker_routes' = merged.routes
         \/ /\ new.algorithm \notin Algorithms
            /\ load_balancers' = [r \in {} |-> <<g, r>>]
            /\ UNCHANGED <<balancers, checker_routes>>
  BY DEF ReloadConfig
<1>3. g \in 0 .. MaxLoads /\ generation <= g
  BY <1>1, <1>2, ForwardingAssumption DEF RoutingOK
<1>4. merged \in Config /\ merged.routes \in Routes /\ merged.algorithm = new.algorithm
  <2>1. new.routes \in Routes
    BY DEF Config
  <2>2. Merge(existing, new.routes) \in Routes
    BY <2>1, MergeType
  <2> QED
    BY <2>2 DEF Config
<1> HIDE DEF merged, g
<1>5. EnvironmentOK' /\ CheckOK' /\ ActiveConnectionsExact'
  BY <1>1, <1>2 DEF EnvironmentOK, CheckOK, Inv, ActiveConnectionsExact, Holders, handlers
<1>6. CASE new.algorithm \notin Algorithms
  <2>1. /\ load_balancers' = [r \in {} |-> <<g, r>>]
        /\ UNCHANGED <<balancers, checker_routes>>
    BY <1>2, <1>6
  <2>2. RoutingOK'
    BY <1>1, <1>2, <1>3, <1>4, <2>1 DEF RoutingOK
  <2>3. BalancersOK'
    <3>1. \A ref \in DOMAIN balancers : ref[1] <= generation'
      <4>1. \A ref \in DOMAIN balancers : ref[1] <= generation /\ ref[1] \in Nat
        BY <1>1 DEF BalancersOK, Reference
      <4> QED
        BY <1>1, <1>2, <1>3, <4>1 DEF RoutingOK
    <3> QED
      BY <1>1, <2>1, <3>1 DEF BalancersOK
  <2>4. HandlersOK'
    BY <1>1, <1>2, <2>1 DEF HandlersOK, handlers
  <2> QED
    BY <1>5, <2>2, <2>3, <2>4, TypeOKParts DEF Inv
<1>7. CASE new.algorithm \in Algorithms
  <2>1. /\ DOMAIN fresh \subseteq Reference
        /\ \A ref \in DOMAIN fresh : ref[1] = g /\ fresh[ref] \in Balancer
    BY <1>3, <1>4, <1>7, CreatedByType
  <2>2. /\ DOMAIN ReferencesTo(merged, g) \subseteq Prefix
        /\ \A r \in DOMAIN ReferencesTo(merged, g) :
             /\ ReferencesTo(merged, g)[r] = <<g, r>>
             /\ ReferencesTo(merged, g)[r] \in DOMAIN fresh
    BY <1>3, <1>4, <1>7, CreatedByType
  <2> HIDE DEF fresh
  <2>3. /\ load_balancers' = ReferencesTo(merged, g)
        /\ balancers' = [ref \in DOMAIN balancers \cup DOMAIN fresh |->
                           IF ref \in DOMAIN fresh THEN fresh[ref] ELSE balancers[ref]]
        /\ checker_routes' = merged.routes
    BY <1>2, <1>7
  <2>4. DOMAIN balancers' = DOMAIN balancers \cup DOMAIN fresh
    BY <2>3
  <2>5. RoutingOK'
    BY <1>2, <1>3, <1>4, <2>2, <2>3, <2>4 DEF RoutingOK
  <2>6. BalancersOK'
    <3>1. \A ref \in DOMAIN balancers : ref[1] <= g
      <4>1. \A ref \in DOMAIN balancers : ref[1] <= generation /\ ref[1] \in Nat
        BY <1>1 DEF BalancersOK, Reference
      <4> QED
        BY <1>1, <1>3, <4>1 DEF RoutingOK
    <3>2. g <= g
      BY <1>3
    <3> QED
      BY <1>1, <1>2, <2>1, <2>3, <2>4, <3>1, <3>2 DEF BalancersOK
  <2>7. HandlersOK'
    BY <1>1, <1>2, <2>4 DEF HandlersOK, handlers
  <2> QED
    BY <1>5, <2>5, <2>6, <2>7, TypeOKParts DEF Inv
<1> QED
  BY <1>6, <1>7

LEMMA ReloadInv ==
  ASSUME Inv, Reload
  PROVE  Inv'
<1>1. config \in Config /\ config.routes \in Routes /\ generation \in Nat
  BY DEF Inv, TypeOK, Config
<1>2. ASSUME NEW new, NEW existing, ReloadConfig(new, existing)
      PROVE  generation + 1 \in 0 .. MaxLoads
  BY <1>1, <1>2, ForwardingAssumption DEF ReloadConfig
<1>3. ASSUME NEW file \in Files, ReloadFile(file)
      PROVE  Inv'
  <2>1. ReloadConfig(Load(file, generation + 1), config.routes)
    BY <1>3 DEF ReloadFile
  <2>2. Load(file, generation + 1) \in Config
    BY <1>2, <2>1, LoadType
  <2> QED
    BY <1>1, <2>1, <2>2, ReloadConfigInv
<1>4. ASSUME NEW listing \in Topologies, Discover(listing)
      PROVE  Inv'
  <2> DEFINE routes == OverrideRoutes(config.routes, Build(generation + 1, listing))
  <2>1. ReloadConfig([config EXCEPT !.routes = routes], routes)
    BY <1>4 DEF Discover
  <2>2. Build(generation + 1, listing) \in Routes
    BY <1>2, <2>1, BuildType DEF Listings
  <2>3. routes \in Routes
    BY <1>1, <2>2, OverrideRoutesType
  <2> HIDE DEF routes
  <2>4. [config EXCEPT !.routes = routes] \in Config
    BY <1>1, <2>3 DEF Config
  <2> QED
    BY <2>1, <2>3, <2>4, ReloadConfigInv
<1> QED
  BY <1>3, <1>4 DEF Reload

-----------------------------------------------------------------------------
LEMMA StutterInv ==
  ASSUME Inv, UNCHANGED vars
  PROVE  Inv'
BY DEF Inv, TypeOK, ActiveConnectionsExact, Holders, vars, balancing, handlers

(***************************************************************************)
(* The invariant is preserved by every step, hence holds for ever.         *)
(***************************************************************************)
THEOREM Invariance == Spec => []Inv
<1>1. Init => Inv
  BY InitInv
<1>2. Inv /\ [Next]_vars => Inv'
  <2> SUFFICES ASSUME Inv, [Next]_vars PROVE Inv'
    OBVIOUS
  <2>1. CASE \E c \in Client : Handler(c)
    BY <2>1, ArriveInv, RefuseUnroutedInv, NetworkInv, RetryInv, RelayEndInv DEF Handler
  <2>2. CASE HealthChecker \/ \E u \in Url : Toggle(u)
    BY <2>2, HealthCheckerInv
  <2>3. CASE Reload
    BY <2>3, ReloadInv
  <2>4. CASE UNCHANGED vars
    BY <2>4, StutterInv
  <2> QED
    BY <2>1, <2>2, <2>3, <2>4 DEF Next
<1> QED
  BY <1>1, <1>2, PTL DEF Spec

(***************************************************************************)
(* The attributes and locals of the forwarding core are of their types,    *)
(* for any configurations, Docker answers, connections and reloads.        *)
(***************************************************************************)
THEOREM TypeCorrect == Spec => []TypeOK
BY Invariance, PTL DEF Inv

(***************************************************************************)
(* active_connections (proxy.py:561, 569, 646) is at any time the number   *)
(* of handlers that hold the object: no retry, reload or health check      *)
(* loses or duplicates one.                                                *)
(***************************************************************************)
THEOREM ActiveConnectionsCorrect == Spec => []ActiveConnectionsExact
BY Invariance, PTL DEF Inv

-----------------------------------------------------------------------------
(* A handler's step leaves the lists of the balancers alone.               *)
LEMMA HandlerKeepsLists ==
  ASSUME Inv, NEW c \in Client, Handler(c)
  PROVE  /\ DOMAIN balancers' = DOMAIN balancers
         /\ \A ref \in DOMAIN balancers : balancers'[ref].backends = balancers[ref].backends
         /\ UNCHANGED balancing
<1>1. \A ref \in DOMAIN balancers : balancers[ref] \in Balancer
  BY DEF Inv, TypeOK
<1>2. CASE UNCHANGED <<balancers, balancing>>
  BY <1>2
<1>3. ASSUME NEW ref, NEW left, NEW marks, NEW counts, TryBackend(c, ref, left, marks, counts)
      PROVE  \/ UNCHANGED balancers
             \/ \E k : balancers' = [balancers EXCEPT ![ref].current_index = k]
  BY <1>3 DEF TryBackend
<1>4. ASSUME NEW ref, NEW k, balancers' = [balancers EXCEPT ![ref].current_index = k]
      PROVE  /\ DOMAIN balancers' = DOMAIN balancers
             /\ \A q \in DOMAIN balancers : balancers'[q].backends = balancers[q].backends
  BY <1>1, <1>4 DEF Balancer
<1>5. CASE Retry(c)
  BY <1>3, <1>4, <1>5 DEF Retry, balancing
<1>6. CASE \E path \in Path : Arrive(c, path)
  BY <1>3, <1>4, <1>6 DEF Arrive, balancing
<1> QED
  BY <1>2, <1>5, <1>6
  DEF Handler, Network, ConnectionAccepted, ConnectionRefused, ConnectionRaises,
      RelayEnd, RefuseUnrouted, balancing

(***************************************************************************)
(* Whatever reloads succeeded or failed, a configuration whose algorithm   *)
(* is known is installed completely: balancers, health checker and         *)
(* configuration list the same servers (proxy.py, reload_config).          *)
(***************************************************************************)
THEOREM ReloadsAreComplete == Spec => []OneKnownConfiguration
<1>1. Init => OneKnownConfiguration
  <2> SUFFICES ASSUME Init PROVE OneKnownConfiguration
    OBVIOUS
  <2>1. /\ checker_routes = config.routes /\ balancers = CreatedBy(config, 0)
        /\ load_balancers = ReferencesTo(config, 0)
    BY DEF Init
  <2> QED
    BY <2>1 DEF OneKnownConfiguration, OneConfiguration, CreatedBy, ReferencesTo, NewBalancer
<1>2. Inv /\ OneKnownConfiguration /\ [Next]_vars => OneKnownConfiguration'
  <2> SUFFICES ASSUME Inv, OneKnownConfiguration, [Next]_vars
               PROVE  OneKnownConfiguration'
    OBVIOUS
  <2>1. \A r \in DOMAIN load_balancers : load_balancers[r] \in DOMAIN balancers
    BY DEF Inv, TypeOK
  <2>2. CASE \E c \in Client : Handler(c)
    BY <2>1, <2>2, HandlerKeepsLists DEF OneKnownConfiguration, OneConfiguration, balancing
  <2>3. CASE Reload
    <3>1. PICK new, existing : ReloadConfig(new, existing)
      BY <2>3 DEF Reload, ReloadFile, Discover
    <3> DEFINE g      == generation + 1
               merged == [new EXCEPT !.routes = Merge(existing, @)]
               fresh  == CreatedBy(merged, g)
    <3>2. /\ config' = merged
          /\ \/ /\ new.algorithm \in Algorithms
                /\ load_balancers' = ReferencesTo(merged, g)
                /\ balancers' = [ref \in DOMAIN balancers \cup DOMAIN fresh |->
                                   IF ref \in DOMAIN fresh THEN fresh[ref] ELSE balancers[ref]]
                /\ checker_routes' = merged.routes
             \/ new.algorithm \notin Algorithms
      BY <3>1 DEF ReloadConfig
    <3>3. merged.algorithm = new.algorithm
      OBVIOUS
    <3> HIDE DEF merged, g
    <3>4. /\ DOMAIN fresh = {g} \X Paths(merged.routes)
          /\ \A r \in Paths(merged.routes) :
               fresh[<<g, r>>].backends = ServersOf(merged.routes, r)
      BY DEF CreatedBy, NewBalancer
    <3> HIDE DEF fresh
    <3> QED
      BY <3>2, <3>3, <3>4 DEF OneKnownConfiguration, OneConfiguration, ReferencesTo
  <2>4. CASE HealthChecker \/ (\E u \in Url : Toggle(u)) \/ UNCHANGED vars
    <3>1. UNCHANGED <<balancing, balancers>>
      BY <2>4 DEF HealthChecker, StartRound, Probe, FinishCheck, Toggle, vars
    <3> QED
      BY <3>1 DEF OneKnownConfiguration, OneConfiguration, balancing
  <2> QED
    BY <2>2, <2>3, <2>4 DEF Next
<1> QED
  BY <1>1, <1>2, Invariance, PTL DEF Spec

-----------------------------------------------------------------------------
(***************************************************************************)
(* A retry goes to a healthy server of the same route and never to the one *)
(* that has just refused (proxy.py:552-573), however the other tasks write *)
(* the health marks and whatever the configuration has become meanwhile.   *)
(***************************************************************************)
THEOREM RetriesGoElsewhere == Spec => RetriesElsewhere
<1> DEFINE Elsewhere(c) ==
             /\ backend'[c] # backend[c]
             /\ healthy'[backend'[c]]
             /\ \E j \in DOMAIN balancers[selected_lb[c]].backends :
                  backend'[c] = balancers[selected_lb[c]].backends[j]
           Retried(c) == pc[c] = "refused" /\ pc'[c] = "connecting" => Elsewhere(c)
<1>1. Inv /\ [Next]_vars => \A c \in Client : Retried(c)
  <2> SUFFICES ASSUME Inv, [Next]_vars, NEW c \in Client,
                      pc[c] = "refused", pc'[c] = "connecting"
               PROVE  Elsewhere(c)
    OBVIOUS
  <2>1. pc \in [Client -> {"idle", "raised"} \cup Holding \cup Answered]
    BY DEF Inv, TypeOK
  <2>2. Retry(c)
    <3>1. PICK d \in Client : Handler(d)
      BY DEF Next, HealthChecker, StartRound, Probe, FinishCheck, Toggle, Reload, ReloadFile,
             Discover, ReloadConfig, handlers, vars
    <3>2. \E s : pc' = [pc EXCEPT ![d] = s]
      BY <3>1 DEF Handler, Arrive, RefuseUnrouted, Network, ConnectionAccepted, ConnectionRefused,
                  ConnectionRaises, Retry, RelayEnd, TryBackend, Leave
    <3>3. d = c
      BY <2>1, <3>2
    <3> QED
      BY <2>1, <3>1, <3>3
      DEF Handler, Arrive, RefuseUnrouted, Network, ConnectionAccepted, ConnectionRefused,
          ConnectionRaises, RelayEnd, Leave, Answered
  <2> DEFINE counts == [active_connections EXCEPT ![backend[c]] = @ - 1]
             server == Selected(balancers[selected_lb[c]], healthy', counts, c, CountryOf[c])
  <2>3. backend[c] \in Server /\ selected_lb[c] \in DOMAIN balancers /\ pc[c] \in Holding
    BY DEF Inv, TypeOK, Holding
  <2>4. TryBackend(c, selected_lb[c], attempts[c], healthy', counts)
        /\ healthy' = [healthy EXCEPT ![backend[c]] = FALSE]
    BY <2>2 DEF Retry
  <2>5. backend'[c] = server /\ server # None
    BY <2>1, <2>4 DEF TryBackend, Leave, Inv, TypeOK
  <2>6. counts \in [Server -> Nat]
    BY <2>3, GiveBack
  <2>7. /\ server \in Server /\ healthy'[server]
        /\ \E j \in DOMAIN balancers[selected_lb[c]].backends :
             server = balancers[selected_lb[c]].backends[j]
    <3>1. TypeOK
      BY DEF Inv
    <3>2. server = Selected(balancers[selected_lb[c]], healthy', counts, c, CountryOf[c])
      OBVIOUS
    <3>3. selected_lb[c] \in DOMAIN balancers /\ server # None
      BY <2>3, <2>5
    <3> HIDE DEF counts, server
    <3> QED BY <2>6, <3>1, <3>2, <3>3, SelectedIsServer
  <2>8. ~healthy'[backend[c]]
    BY <2>3, <2>4 DEF Inv, TypeOK
  <2> QED
    BY <2>5, <2>7, <2>8
<1>2. Spec => [][\A c \in Client : Retried(c)]_vars
  BY <1>1, Invariance, PTL DEF Spec
<1> QED
  BY <1>2 DEF RetriesElsewhere

-----------------------------------------------------------------------------
(* The refinement of ForwardingService.  What has been connected or is     *)
(* being connected is on the list the handler took at the start.           *)
HoldsListed ==
  \A c \in Client :
    pc[c] \in Holding =>
      \E j \in DOMAIN balancers[selected_lb[c]].backends :
        backend[c] = balancers[selected_lb[c]].backends[j]

(* No step changes the list of a balancer that is there.                   *)
KeepsLists ==
  \A ref \in DOMAIN balancers :
    ref \in DOMAIN balancers' /\ balancers'[ref].backends = balancers[ref].backends

LEMMA ReloadKeepsLists ==
  ASSUME Inv, NEW new, NEW existing, ReloadConfig(new, existing)
  PROVE  KeepsLists
<1> DEFINE g     == generation + 1
           fresh == CreatedBy([new EXCEPT !.routes = Merge(existing, @)], g)
<1>1. \/ UNCHANGED balancers
      \/ balancers' = [ref \in DOMAIN balancers \cup DOMAIN fresh |->
                         IF ref \in DOMAIN fresh THEN fresh[ref] ELSE balancers[ref]]
  BY DEF ReloadConfig
<1>2. \A ref \in DOMAIN fresh : ref[1] = g
  BY DEF CreatedBy
<1>3. ASSUME NEW ref \in DOMAIN balancers PROVE ref \notin DOMAIN fresh
  <2>1. ref[1] <= generation /\ ref[1] \in Nat /\ generation \in Nat
    BY DEF Inv, TypeOK, Reference
  <2>2. ref[1] # g
    BY <2>1
  <2> QED BY <1>2, <2>2
<1> HIDE DEF fresh
<1> QED BY <1>1, <1>3 DEF KeepsLists

LEMMA StepKeepsLists ==
  ASSUME Inv, [Next]_vars
  PROVE  KeepsLists
<1>1. CASE \E c \in Client : Handler(c)
  BY <1>1, HandlerKeepsLists DEF KeepsLists
<1>2. CASE Reload
  BY <1>2, ReloadKeepsLists DEF Reload, ReloadFile, Discover
<1>3. CASE HealthChecker \/ (\E u \in Url : Toggle(u)) \/ UNCHANGED vars
  <2>1. UNCHANGED balancers
    BY <1>3 DEF HealthChecker, StartRound, Probe, FinishCheck, Toggle, vars
  <2> QED BY <2>1 DEF KeepsLists
<1> QED BY <1>1, <1>2, <1>3 DEF Next

(* A connection whose handler does not move.                               *)
Unmoved(c) ==
  pc'[c] = pc[c] /\ selected_lb'[c] = selected_lb[c] /\ backend'[c] = backend[c]

LEMMA UnmovedHolds ==
  ASSUME Inv, HoldsListed, KeepsLists, NEW c \in Client, Unmoved(c), pc'[c] \in Holding
  PROVE  \E j \in DOMAIN balancers'[selected_lb'[c]].backends :
           backend'[c] = balancers'[selected_lb'[c]].backends[j]
<1>1. selected_lb[c] \in DOMAIN balancers
  BY DEF Unmoved, Inv, TypeOK
<1> QED BY <1>1 DEF Unmoved, KeepsLists, HoldsListed

(* A handler that has got a server of its balancer.                        *)
Connecting(c, ref) ==
  /\ ref \in DOMAIN balancers
  /\ pc'[c] = "connecting" /\ selected_lb'[c] = ref
  /\ \E j \in DOMAIN balancers[ref].backends : backend'[c] = balancers[ref].backends[j]

LEMMA TryBackendMoves ==
  ASSUME Inv, NEW c \in Client, NEW ref \in DOMAIN balancers, NEW left, NEW marks,
         NEW counts \in [Server -> Nat], TryBackend(c, ref, left, marks, counts)
  PROVE  /\ \A d \in Client \ {c} : Unmoved(d)
         /\ pc'[c] = "bad_gateway" \/ Connecting(c, ref)
<1> DEFINE server == IF left = 0 THEN None
                     ELSE Selected(balancers[ref], marks, counts, c, CountryOf[c])
<1>1. TypeOK
  BY DEF Inv
<1>2. CASE server = None /\ Leave(c, "bad_gateway")
  BY <1>1, <1>2 DEF Leave, TypeOK, Unmoved
<1>3. CASE /\ server # None
           /\ pc' = [pc EXCEPT ![c] = "connecting"]
           /\ selected_lb' = [selected_lb EXCEPT ![c] = ref]
           /\ backend' = [backend EXCEPT ![c] = server]
  <2>1. server = Selected(balancers[ref], marks, counts, c, CountryOf[c])
    BY <1>3
  <2>2. \E j \in DOMAIN balancers[ref].backends : server = balancers[ref].backends[j]
    <3>1. server # None
      BY <1>3
    <3> HIDE DEF server
    <3> QED BY <1>1, <2>1, <3>1, SelectedIsServer
  <2> HIDE DEF server
  <2> QED BY <1>1, <1>3, <2>2 DEF TypeOK, Unmoved, Connecting
<1> QED BY <1>2, <1>3 DEF TryBackend

(* What a handler's step does to the list it goes by, case by case.        *)
LEMMA HandlerMoves ==
  ASSUME Inv, NEW c \in Client, Handler(c)
  PROVE  /\ \A d \in Client \ {c} : Unmoved(d)
         /\ up' = up
         /\ \/ /\ pc[c] \in {"idle"} \cup Answered
               /\ pc'[c] \in {"bad_gateway", "not_found"} \/ \E ref : Connecting(c, ref)
            \/ /\ pc[c] = "connecting" /\ pc'[c] \in {"relaying", "refused", "raised"}
               /\ selected_lb'[c] = selected_lb[c] /\ backend'[c] = backend[c]
               /\ pc'[c] = "relaying" => up[backend[c].url]
            \/ pc[c] = "refused" /\ pc'[c] = "bad_gateway"
            \/ pc[c] = "refused" /\ Connecting(c, selected_lb[c])
            \/ pc[c] = "relaying" /\ pc'[c] = "done"
<1>1. TypeOK
  BY DEF Inv
<1>2. CASE \E path \in Path : Arrive(c, path)
  <2>1. PICK r \in DOMAIN load_balancers :
          TryBackend(c, load_balancers[r], config.max_retries, healthy, active_connections)
    BY <1>2 DEF Arrive
  <2>2. load_balancers[r] \in DOMAIN balancers /\ active_connections \in [Server -> Nat]
    BY <1>1 DEF TypeOK
  <2>3. /\ \A d \in Client \ {c} : Unmoved(d)
        /\ pc'[c] = "bad_gateway" \/ Connecting(c, load_balancers[r])
    BY <2>1, <2>2, TryBackendMoves
  <2> QED BY <1>2, <2>3 DEF Arrive
<1>3. CASE \E path \in Path : RefuseUnrouted(c, path)
  BY <1>1, <1>3 DEF RefuseUnrouted, Leave, TypeOK, Unmoved
<1>4. CASE Network(c)
  BY <1>1, <1>4
     DEF Network, ConnectionAccepted, ConnectionRefused, ConnectionRaises, TypeOK, Unmoved
<1>5. CASE Retry(c)
  <2> DEFINE counts == [active_connections EXCEPT ![backend[c]] = @ - 1]
  <2>1. pc[c] \in Holding /\ selected_lb[c] \in DOMAIN balancers
    BY <1>1, <1>5 DEF Retry, Holding, TypeOK
  <2>2. counts \in [Server -> Nat]
    BY <2>1, GiveBack
  <2>3. TryBackend(c, selected_lb[c], attempts[c], healthy', counts)
    BY <1>5 DEF Retry
  <2> HIDE DEF counts
  <2>4. /\ \A d \in Client \ {c} : Unmoved(d)
        /\ pc'[c] = "bad_gateway" \/ Connecting(c, selected_lb[c])
    BY <2>1, <2>2, <2>3, TryBackendMoves
  <2> QED BY <1>5, <2>4 DEF Retry
<1>6. CASE RelayEnd(c)
  BY <1>1, <1>6 DEF RelayEnd, Leave, TypeOK, Unmoved
<1> QED BY <1>2, <1>3, <1>4, <1>5, <1>6 DEF Handler

(* All other steps move no handler.                                        *)
LEMMA OthersMoveNobody ==
  ASSUME HealthChecker \/ Reload \/ (\E u \in Url : Toggle(u)) \/ UNCHANGED vars
  PROVE  \A c \in Client : Unmoved(c)
BY DEF HealthChecker, StartRound, Probe, FinishCheck, Reload, ReloadFile, Discover, ReloadConfig,
       Toggle, vars, handlers, Unmoved

LEMMA HoldsListedStep ==
  ASSUME Inv, HoldsListed, [Next]_vars
  PROVE  HoldsListed'
<1>1. KeepsLists
  BY StepKeepsLists
<1>2. ASSUME NEW c \in Client, Unmoved(c), pc'[c] \in Holding
      PROVE  \E j \in DOMAIN balancers'[selected_lb'[c]].backends :
               backend'[c] = balancers'[selected_lb'[c]].backends[j]
  BY <1>1, <1>2, UnmovedHolds
<1>3. ASSUME NEW c \in Client, NEW ref, Connecting(c, ref)
      PROVE  \E j \in DOMAIN balancers'[selected_lb'[c]].backends :
               backend'[c] = balancers'[selected_lb'[c]].backends[j]
  BY <1>1, <1>3 DEF Connecting, KeepsLists
<1>4. ASSUME NEW d \in Client, Handler(d) PROVE HoldsListed'
  <2> SUFFICES ASSUME NEW c \in Client, pc'[c] \in Holding
               PROVE  \E j \in DOMAIN balancers'[selected_lb'[c]].backends :
                        backend'[c] = balancers'[selected_lb'[c]].backends[j]
    BY DEF HoldsListed
  <2>1. CASE c # d
    BY <1>2, <1>4, <2>1, HandlerMoves
  <2>2. CASE /\ c = d /\ pc[c] = "connecting"
             /\ selected_lb'[c] = selected_lb[c] /\ backend'[c] = backend[c]
    <3>1. pc[c] \in Holding /\ selected_lb[c] \in DOMAIN balancers
      BY <2>2 DEF Holding, Inv, TypeOK
    <3> QED BY <1>1, <2>2, <3>1 DEF HoldsListed, KeepsLists
  <2>3. CASE c = d /\ \E ref : Connecting(c, ref)
    BY <1>3, <2>3
  <2> QED BY <1>4, <2>1, <2>2, <2>3, HandlerMoves DEF Holding
<1>5. CASE HealthChecker \/ Reload \/ (\E u \in Url : Toggle(u)) \/ UNCHANGED vars
  BY <1>2, <1>5, OthersMoveNobody DEF HoldsListed
<1> QED BY <1>4, <1>5 DEF Next

-----------------------------------------------------------------------------
(* What the mapping makes of the places where a handler stands.            *)
LEMMA RequestOfIs ==
  ASSUME NEW c \in Client
  PROVE  /\ pc[c] \in {"idle", "done"} => RequestOf(c) = "none"
         /\ pc[c] \in {"connecting", "refused", "raised"} => RequestOf(c) = "pending"
         /\ pc[c] = "relaying" => RequestOf(c) = "served"
         /\ pc[c] \in {"not_found", "bad_gateway"} => RequestOf(c) = "refused"
BY DEF RequestOf

UrlsOf(ref) ==
  {balancers[ref].backends[j].url : j \in DOMAIN balancers[ref].backends}

LEMMA OfferedToIs ==
  ASSUME NEW c \in Client
  PROVE  OfferedTo(c) = IF RequestOf(c) = "pending" THEN UrlsOf(selected_lb[c]) ELSE {}
BY DEF OfferedTo, UrlsOf

Requested == [c \in Client |-> RequestOf(c)]
Offered   == [c \in Client |-> OfferedTo(c)]
Serving   == [c \in Client |-> ServerOf(c)]

(* A step of one connection is one of its entries in the mapped variables. *)
MapsTo(c, status, urls, u) ==
  /\ Requested' = [Requested EXCEPT ![c] = status]
  /\ Offered' = [Offered EXCEPT ![c] = urls]
  /\ Serving' = [Serving EXCEPT ![c] = u]

LEMMA UnmovedMaps ==
  ASSUME Inv, KeepsLists, NEW c \in Client, Unmoved(c)
  PROVE  /\ RequestOf(c)' = RequestOf(c)
         /\ OfferedTo(c)' = OfferedTo(c)
         /\ ServerOf(c)' = ServerOf(c)
<1>1. RequestOf(c)' = RequestOf(c)
  BY DEF Unmoved, RequestOf
<1>2. ServerOf(c)' = ServerOf(c)
  BY DEF Unmoved, ServerOf
<1>3. OfferedTo(c)' = OfferedTo(c)
  <2>1. CASE RequestOf(c) = "pending"
    <3>1. pc[c] \in Holding \cup {"raised"}
      BY <2>1, RequestOfIs DEF Inv, TypeOK, Holding, Answered
    <3>2. selected_lb[c] \in DOMAIN balancers
      BY <3>1 DEF Inv, TypeOK
    <3>3. balancers'[selected_lb'[c]].backends = balancers[selected_lb[c]].backends
      BY <3>2 DEF Unmoved, KeepsLists
    <3> QED BY <1>1, <2>1, <3>3 DEF OfferedTo
  <2>2. CASE RequestOf(c) # "pending"
    BY <1>1, <2>2 DEF OfferedTo
  <2> QED BY <2>1, <2>2
<1> QED BY <1>1, <1>2, <1>3

LEMMA OneMoves ==
  ASSUME Inv, KeepsLists, NEW c \in Client, \A d \in Client \ {c} : Unmoved(d)
  PROVE  MapsTo(c, RequestOf(c)', OfferedTo(c)', ServerOf(c)')
<1>1. \A d \in Client \ {c} : /\ RequestOf(d)' = RequestOf(d)
                              /\ OfferedTo(d)' = OfferedTo(d)
                              /\ ServerOf(d)' = ServerOf(d)
  BY UnmovedMaps
<1> QED BY <1>1 DEF MapsTo, Requested, Offered, Serving

LEMMA NobodyMoves ==
  ASSUME Inv, KeepsLists, \A d \in Client : Unmoved(d)
  PROVE  UNCHANGED <<Requested, Offered, Serving>>
BY UnmovedMaps DEF Requested, Offered, Serving

(* The urls that a balancer offers are urls.                               *)
LEMMA UrlsOfType ==
  ASSUME Inv, NEW ref \in DOMAIN balancers
  PROVE  UrlsOf(ref) \in SUBSET Url
<1>1. balancers[ref].backends \in Seq(Server)
  BY DEF Inv, TypeOK, Balancer
<1>2. \A j \in DOMAIN balancers[ref].backends : balancers[ref].backends[j] \in Server
  BY <1>1, LenProperties, ElementOfSeq
<1> QED BY <1>2, ServerType DEF UrlsOf

(* The steps of the service, in the mapped variables.                      *)
LEMMA AcceptsStep ==
  ASSUME NEW c \in Client, UNCHANGED up, NEW urls \in SUBSET Url,
         Requested[c] \in {"none", "refused"}, Serving[c] = None,
         MapsTo(c, "pending", urls, None)
  PROVE  Service!Next
<1>1. UNCHANGED Serving
  BY DEF MapsTo, Serving
<1>2. Service!Accept(c, urls)
  BY <1>1 DEF Service!Accept, MapsTo, Requested, Offered, Serving
<1> QED BY <1>2 DEF Service!Next

LEMMA ServesStep ==
  ASSUME NEW c \in Client, UNCHANGED up, NEW u \in Url,
         Requested[c] = "pending", u \in Offered[c], up[u],
         MapsTo(c, "served", {}, u)
  PROVE  Service!Next
<1>1. Service!Serve(c, u)
  BY DEF Service!Serve, MapsTo, Requested, Offered, Serving
<1> QED BY <1>1 DEF Service!Next, Service!Decide

LEMMA RefusesStep ==
  ASSUME NEW c \in Client, UNCHANGED up,
         Requested[c] \in {"none", "refused", "pending"}, Serving[c] = None,
         MapsTo(c, "refused", {}, None)
  PROVE  Service!Next
<1>1. UNCHANGED Serving
  BY DEF MapsTo, Serving
<1>2. Service!Refuse(c)
  BY <1>1 DEF Service!Refuse, MapsTo, Requested, Offered, Serving
<1> QED BY <1>2 DEF Service!Next

LEMMA FinishesStep ==
  ASSUME NEW c \in Client, UNCHANGED up, Requested[c] = "served", Offered[c] = {},
         MapsTo(c, "none", {}, None)
  PROVE  Service!Next
<1>1. UNCHANGED Offered
  BY DEF MapsTo, Offered
<1>2. Service!Finish(c)
  BY <1>1 DEF Service!Finish, MapsTo, Requested, Offered, Serving
<1> QED BY <1>2 DEF Service!Next

(* A handler's step is one step of the service, or none.                   *)
LEMMA HandlerRefines ==
  ASSUME Inv, HoldsListed, KeepsLists, NEW c \in Client, Handler(c)
  PROVE  [Service!Next]_(Service!vars)
<1>1. /\ MapsTo(c, RequestOf(c)', OfferedTo(c)', ServerOf(c)')
      /\ UNCHANGED up
  BY HandlerMoves, OneMoves
<1>2. /\ Requested[c] = RequestOf(c) /\ Offered[c] = OfferedTo(c)
      /\ Serving[c] = ServerOf(c)
  BY DEF Requested, Offered, Serving
<1>3. ASSUME NEW ref, Connecting(c, ref)
      PROVE  /\ RequestOf(c)' = "pending" /\ OfferedTo(c)' = UrlsOf(ref)
             /\ ServerOf(c)' = None /\ UrlsOf(ref) \in SUBSET Url
  <2>1. RequestOf(c)' = "pending" /\ ServerOf(c)' = None
    BY <1>3 DEF Connecting, RequestOf, ServerOf
  <2>2. UrlsOf(ref)' = UrlsOf(ref)
    BY <1>3 DEF Connecting, KeepsLists, UrlsOf
  <2>3. OfferedTo(c)' = UrlsOf(ref)
    BY <1>3, <2>1, <2>2 DEF Connecting, OfferedTo, UrlsOf
  <2> QED BY <1>3, <2>1, <2>3, UrlsOfType DEF Connecting
<1>4. ASSUME pc'[c] \in {"bad_gateway", "not_found"}
      PROVE  RequestOf(c)' = "refused" /\ OfferedTo(c)' = {} /\ ServerOf(c)' = None
  BY <1>4 DEF RequestOf, OfferedTo, ServerOf
<1>5. CASE pc[c] \in {"idle"} \cup Answered /\ pc'[c] \in {"bad_gateway", "not_found"}
  <2>1. Requested[c] \in {"none", "refused"} /\ Serving[c] = None
    BY <1>2, <1>5, RequestOfIs DEF Answered, ServerOf
  <2> QED BY <1>1, <1>4, <1>5, <2>1, RefusesStep
<1>6. CASE pc[c] \in {"idle"} \cup Answered /\ \E ref : Connecting(c, ref)
  <2>1. Requested[c] \in {"none", "refused"} /\ Serving[c] = None
    BY <1>2, <1>6, RequestOfIs DEF Answered, ServerOf
  <2> QED BY <1>1, <1>3, <1>6, <2>1, AcceptsStep
<1>7. CASE /\ pc[c] = "connecting" /\ pc'[c] = "relaying" /\ up[backend[c].url]
           /\ selected_lb'[c] = selected_lb[c] /\ backend'[c] = backend[c]
  <2>1. Requested[c] = "pending" /\ Offered[c] = UrlsOf(selected_lb[c])
    BY <1>2, <1>7, RequestOfIs, OfferedToIs
  <2>2. backend[c].url \in UrlsOf(selected_lb[c])
    BY <1>7 DEF HoldsListed, Holding, UrlsOf
  <2>3. backend[c].url \in Url
    BY <1>7, ServerType DEF Inv, TypeOK, Holding
  <2>4. RequestOf(c)' = "served" /\ OfferedTo(c)' = {} /\ ServerOf(c)' = backend[c].url
    BY <1>7 DEF RequestOf, OfferedTo, ServerOf
  <2> QED BY <1>1, <1>7, <2>1, <2>2, <2>3, <2>4, ServesStep
<1>8. CASE \/ pc[c] = "connecting" /\ pc'[c] \in {"refused", "raised"}
              /\ selected_lb'[c] = selected_lb[c] /\ backend'[c] = backend[c]
           \/ pc[c] = "refused" /\ Connecting(c, selected_lb[c])
  <2>1. RequestOf(c)' = RequestOf(c) /\ RequestOf(c) = "pending"
    BY <1>8 DEF RequestOf, Connecting
  <2>2. selected_lb[c] \in DOMAIN balancers /\ selected_lb'[c] = selected_lb[c]
    BY <1>8 DEF Connecting, Inv, TypeOK, Holding
  <2>3. OfferedTo(c)' = OfferedTo(c)
    BY <2>1, <2>2 DEF KeepsLists, OfferedTo
  <2>4. ServerOf(c)' = ServerOf(c)
    BY <1>8 DEF ServerOf, Connecting
  <2> QED
    BY <1>1, <1>2, <2>1, <2>3, <2>4 DEF MapsTo, Requested, Offered, Serving, Service!vars
<1>9. CASE pc[c] = "refused" /\ pc'[c] = "bad_gateway"
  <2>1. Requested[c] = "pending" /\ Serving[c] = None
    BY <1>2, <1>9, RequestOfIs DEF ServerOf
  <2> QED BY <1>1, <1>4, <1>9, <2>1, RefusesStep
<1>10. CASE pc[c] = "relaying" /\ pc'[c] = "done"
  <2>1. Requested[c] = "served" /\ Offered[c] = {}
    BY <1>2, <1>10, RequestOfIs, OfferedToIs
  <2>2. RequestOf(c)' = "none" /\ OfferedTo(c)' = {} /\ ServerOf(c)' = None
    BY <1>10 DEF RequestOf, OfferedTo, ServerOf
  <2> QED BY <1>1, <2>1, <2>2, FinishesStep
<1> QED BY <1>5, <1>6, <1>7, <1>8, <1>9, <1>10, HandlerMoves

(* Checks and reloads are invisible; servers come and go for both.         *)
LEMMA OthersRefine ==
  ASSUME Inv, KeepsLists,
         HealthChecker \/ Reload \/ (\E u \in Url : Toggle(u)) \/ UNCHANGED vars
  PROVE  [Service!Next]_(Service!vars)
<1>1. UNCHANGED <<Requested, Offered, Serving>>
  BY OthersMoveNobody, NobodyMoves
<1>2. CASE UNCHANGED up
  BY <1>1, <1>2 DEF Requested, Offered, Serving, Service!vars
<1>3. ASSUME NEW u \in Url, Toggle(u) PROVE Service!Next
  <2>1. Service!Toggle(u)
    BY <1>1, <1>3 DEF Toggle, Service!Toggle, Requested, Offered, Serving
  <2> QED BY <2>1 DEF Service!Next
<1> QED
  BY <1>2, <1>3 DEF HealthChecker, StartRound, Probe, FinishCheck, Reload, ReloadFile,
                    Discover, ReloadConfig, vars

(***************************************************************************)
(* Every behaviour of the forwarding core is one of the service, but for   *)
(* its fairness: a request is served only by a url of the list it was      *)
(* accepted with that takes connections, a request that is served stays    *)
(* where it is until the relay ends, and retries, checks and reloads       *)
(* change nothing that a client sees (proxy.py:552-652, 108-160).          *)
(***************************************************************************)
THEOREM ImplementsServiceSafety == Spec => Service!Safety
<1>1. Init => HoldsListed
  BY DEF Init, HoldsListed, Holding
<1>2. Init => Service!Init
  <2> SUFFICES ASSUME Init PROVE Service!Init
    OBVIOUS
  <2>1. ASSUME NEW c \in Client
        PROVE  RequestOf(c) = "none" /\ OfferedTo(c) = {} /\ ServerOf(c) = None
    BY DEF Init, RequestOf, OfferedTo, ServerOf
  <2> QED BY <2>1 DEF Init, Service!Init
<1>3. Inv /\ HoldsListed /\ [Next]_vars => HoldsListed' /\ [Service!Next]_(Service!vars)
  BY HoldsListedStep, StepKeepsLists, HandlerRefines, OthersRefine DEF Next
<1> QED
  BY <1>1, <1>2, <1>3, Invariance, PTL DEF Spec, Service!Safety

-----------------------------------------------------------------------------
(***************************************************************************)
(* The silent retries, for configurations whose routes have at most two    *)
(* servers, none of weight 0, and as many attempts.  With three servers    *)
(* and three attempts a server that refused can be marked healthy by a     *)
(* late verdict and take the attempt that the third was to get.            *)
(***************************************************************************)
PairsOfServers ==
  /\ None \notin Server
  /\ \A e \in Entry : e.weight > 0
  /\ \A listing \in Listings : \A i \in DOMAIN listing : Len(listing[i].servers) <= 2
  /\ \A file \in Files \cup {Initial} : file.max_retries >= 2

Short       == {list \in Seq(Server) : Len(list) <= 2}
ShortRoutes == Seq([path : Prefix, servers : Short])

ListsAreShort ==
  /\ config.routes \in ShortRoutes
  /\ config.max_retries >= 2
  /\ \A ref \in DOMAIN balancers : balancers[ref].backends \in Short

ListOf(c) == {balancers[selected_lb[c]].backends[j] :
                j \in DOMAIN balancers[selected_lb[c]].backends}

(* What an open request knows of its steady servers: the one that refused  *)
(* it is not among them, and when no attempt is left they are at most the  *)
(* one that is being tried.                                                *)
SteadyAt(c) ==
  /\ pc[c] = "bad_gateway" => steady[c] = {}
  /\ pc[c] \in Holding => steady[c] \subseteq ListOf(c)
  /\ pc[c] = "refused" => backend[c] \notin steady[c]
  /\ pc[c] \in {"connecting", "refused"} /\ attempts[c] = 0 => steady[c] \subseteq {backend[c]}

SteadyOK == \A c \in Client : SteadyAt(c)

(* Lists with the same positions have the same length.                     *)
LEMMA SameLength ==
  ASSUME NEW S, NEW T, NEW s \in Seq(S), NEW t \in Seq(T), DOMAIN s = DOMAIN t
  PROVE  Len(s) = Len(t)
<1>1. /\ DOMAIN s = 1 .. Len(s) /\ Len(s) \in Nat
      /\ DOMAIN t = 1 .. Len(t) /\ Len(t) \in Nat
  BY LenProperties
<1>2. ASSUME NEW m \in Nat, NEW n \in Nat, 1 .. m = 1 .. n
      PROVE  m = n
  <2>1. m \in 1 .. m \/ m = 0
    OBVIOUS
  <2>2. n \in 1 .. n \/ n = 0
    OBVIOUS
  <2>3. m <= n /\ n <= m
    BY <1>2, <2>1, <2>2
  <2> QED BY <2>3
<1> QED BY <1>1, <1>2

LEMMA ShortRouting ==
  ASSUME NEW routes \in Routes, \A i \in DOMAIN routes : Len(routes[i].servers) <= 2
  PROVE  routes \in ShortRoutes
<1>1. DOMAIN routes = 1 .. Len(routes) /\ Len(routes) \in Nat
  BY LenProperties DEF Routes
<1>2. ASSUME NEW i \in 1 .. Len(routes)
      PROVE  routes[i] \in [path : Prefix, servers : Short]
  <2>1. routes[i] \in [path : Prefix, servers : Seq(Server)]
    BY ElementOfSeq DEF Routes
  <2> QED BY <1>1, <2>1 DEF Short
<1>3. routes = [i \in 1 .. Len(routes) |-> routes[i]]
  BY <1>1 DEF Routes
<1>4. routes \in [1 .. Len(routes) -> [path : Prefix, servers : Short]]
  BY <1>2, <1>3
<1> QED BY <1>1, <1>4, FunctionIsSeq DEF ShortRoutes

LEMMA ShortRoutesAre ==
  ASSUME NEW routes \in ShortRoutes
  PROVE  /\ routes \in Routes
         /\ \A i \in DOMAIN routes : Len(routes[i].servers) <= 2
         /\ \A r \in Paths(routes) : ServersOf(routes, r) \in Short
<1>1. DOMAIN routes = 1 .. Len(routes) /\ Len(routes) \in Nat
  BY LenProperties DEF ShortRoutes
<1>2. \A i \in DOMAIN routes : routes[i] \in [path : Prefix, servers : Short]
  BY <1>1, ElementOfSeq DEF ShortRoutes
<1>3. routes = [i \in 1 .. Len(routes) |-> routes[i]]
  BY <1>1 DEF ShortRoutes
<1>4. routes \in [1 .. Len(routes) -> [path : Prefix, servers : Seq(Server)]]
  BY <1>1, <1>2, <1>3 DEF Short
<1>5. routes \in Routes
  BY <1>1, <1>4, FunctionIsSeq DEF Routes
<1>6. \A r \in Paths(routes) : ServersOf(routes, r) \in Short
  BY ServersOfIn DEF ShortRoutes
<1> QED BY <1>2, <1>5, <1>6 DEF Short

LEMMA BuildIsShort ==
  ASSUME PairsOfServers, NEW g \in 0 .. MaxLoads, NEW listing \in Listings
  PROVE  Build(g, listing) \in ShortRoutes
<1>1. Build(g, listing) \in Routes
  BY BuildType
<1>2. listing \in Seq([path : Prefix, servers : Seq(Entry)])
  BY ForwardingAssumption
<1>3. ASSUME NEW i \in DOMAIN Build(g, listing)
      PROVE  Len(Build(g, listing)[i].servers) <= 2
  <2>1. i \in DOMAIN listing /\ i \in 1 .. Len(listing) /\ i \in 1 .. Len(Build(g, listing))
    BY <1>1, <1>2, LenProperties DEF Build, Routes
  <2>2. listing[i] \in [path : Prefix, servers : Seq(Entry)]
    BY <1>2, <2>1, ElementOfSeq
  <2>3. Build(g, listing)[i] \in [path : Prefix, servers : Seq(Server)]
    BY <1>1, <2>1, ElementOfSeq DEF Routes
  <2>4. DOMAIN Build(g, listing)[i].servers = DOMAIN listing[i].servers
    BY <2>1 DEF Build
  <2>5. Len(Build(g, listing)[i].servers) = Len(listing[i].servers)
    BY <2>2, <2>3, <2>4, SameLength
  <2> QED BY <2>1, <2>5 DEF PairsOfServers
<1> QED BY <1>1, <1>3, ShortRouting

LEMMA MergeIsShort ==
  ASSUME NEW existing \in Routes, NEW routes \in ShortRoutes
  PROVE  Merge(existing, routes) \in ShortRoutes
<1>1. routes \in Routes /\ Merge(existing, routes) \in Routes
  BY ShortRoutesAre, MergeType
<1>2. ASSUME NEW i \in DOMAIN Merge(existing, routes)
      PROVE  Len(Merge(existing, routes)[i].servers) <= 2
  <2>1. i \in DOMAIN routes /\ i \in 1 .. Len(routes) /\ i \in 1 .. Len(Merge(existing, routes))
    BY <1>1, LenProperties DEF Merge, Routes
  <2>2. /\ routes[i] \in [path : Prefix, servers : Seq(Server)]
        /\ Merge(existing, routes)[i] \in [path : Prefix, servers : Seq(Server)]
    BY <1>1, <2>1, ElementOfSeq DEF Routes
  <2>3. DOMAIN Merge(existing, routes)[i].servers = DOMAIN routes[i].servers
    BY <2>1 DEF Merge
  <2>4. Len(Merge(existing, routes)[i].servers) = Len(routes[i].servers)
    BY <2>2, <2>3, SameLength
  <2> QED BY <2>1, <2>4, ShortRoutesAre
<1> QED BY <1>1, <1>2, ShortRouting

LEMMA CreatedIsShort ==
  ASSUME NEW new, new.routes \in ShortRoutes, NEW g
  PROVE  \A ref \in DOMAIN CreatedBy(new, g) : CreatedBy(new, g)[ref].backends \in Short
BY ShortRoutesAre DEF CreatedBy, NewBalancer

LEMMA InitIsShort ==
  ASSUME PairsOfServers, Init
  PROVE  ListsAreShort
<1>1. 0 \in 0 .. MaxLoads /\ Initial.routes \in Listings
  BY ForwardingAssumption DEF Listings
<1>2. config = Load(Initial, 0) /\ balancers = CreatedBy(config, 0)
  BY DEF Init
<1>3. config.routes \in ShortRoutes /\ config.max_retries >= 2
  BY <1>1, <1>2, BuildIsShort DEF Load, PairsOfServers
<1> QED BY <1>2, <1>3, CreatedIsShort DEF ListsAreShort

LEMMA ReloadIsShort ==
  ASSUME PairsOfServers, Inv, ListsAreShort, Reload
  PROVE  ListsAreShort'
<1>1. config.routes \in Routes /\ generation \in Nat /\ config \in Config
  BY DEF Inv, TypeOK, Config
<1>2. ASSUME NEW new \in Config, new.routes \in ShortRoutes, new.max_retries >= 2,
             NEW existing \in Routes, ReloadConfig(new, existing)
      PROVE  ListsAreShort'
  <2> DEFINE g      == generation + 1
             merged == [new EXCEPT !.routes = Merge(existing, @)]
             fresh  == CreatedBy(merged, g)
  <2>1. merged.routes = Merge(existing, new.routes) /\ merged.max_retries = new.max_retries
    BY DEF Config
  <2>2. merged.routes \in ShortRoutes /\ merged.max_retries >= 2
    BY <1>2, <2>1, MergeIsShort
  <2>3. /\ config' = merged
        /\ \/ balancers' = [ref \in DOMAIN balancers \cup DOMAIN fresh |->
                              IF ref \in DOMAIN fresh THEN fresh[ref] ELSE balancers[ref]]
           \/ UNCHANGED balancers
    BY <1>2 DEF ReloadConfig
  <2> HIDE DEF merged, g
  <2>4. \A ref \in DOMAIN fresh : fresh[ref].backends \in Short
    BY <2>2, CreatedIsShort
  <2> HIDE DEF fresh
  <2> QED BY <2>2, <2>3, <2>4 DEF ListsAreShort
<1>3. ASSUME NEW new, NEW existing, ReloadConfig(new, existing)
      PROVE  generation + 1 \in 0 .. MaxLoads
  BY <1>1, <1>3, ForwardingAssumption DEF ReloadConfig
<1>4. ASSUME NEW file \in Files, ReloadFile(file)
      PROVE  ListsAreShort'
  <2>1. ReloadConfig(Load(file, generation + 1), config.routes)
    BY <1>4 DEF ReloadFile
  <2>2. Load(file, generation + 1) \in Config /\ file.routes \in Listings
    BY <1>3, <2>1, LoadType DEF Listings
  <2>3. /\ Load(file, generation + 1).routes \in ShortRoutes
        /\ Load(file, generation + 1).max_retries >= 2
    BY <1>3, <2>1, <2>2, BuildIsShort DEF Load, PairsOfServers
  <2> QED BY <1>1, <1>2, <2>1, <2>2, <2>3
<1>5. ASSUME NEW listing \in Topologies, Discover(listing)
      PROVE  ListsAreShort'
  <2> DEFINE routes == OverrideRoutes(config.routes, Build(generation + 1, listing))
  <2>1. ReloadConfig([config EXCEPT !.routes = routes], routes)
    BY <1>5 DEF Discover
  <2>2. Build(generation + 1, listing) \in ShortRoutes
    BY <1>3, <2>1, BuildIsShort DEF Listings
  <2>3. routes \in ShortRoutes
    BY <2>2, OverrideRoutesIn DEF ListsAreShort, ShortRoutes
  <2> HIDE DEF routes
  <2>4. routes \in Routes
    BY <2>3, ShortRoutesAre
  <2>5. /\ [config EXCEPT !.routes = routes] \in Config
        /\ [config EXCEPT !.routes = routes].routes = routes
        /\ [config EXCEPT !.routes = routes].max_retries = config.max_retries
    BY <1>1, <2>4 DEF Config
  <2> QED BY <1>2, <2>1, <2>3, <2>4, <2>5 DEF ListsAreShort
<1> QED BY <1>4, <1>5 DEF Reload

LEMMA StepIsShort ==
  ASSUME PairsOfServers, Inv, ListsAreShort, [Next]_vars
  PROVE  ListsAreShort'
<1>1. CASE \E c \in Client : Handler(c)
  BY <1>1, HandlerKeepsLists DEF ListsAreShort, balancing
<1>2. CASE Reload
  BY <1>2, ReloadIsShort
<1>3. CASE HealthChecker \/ (\E u \in Url : Toggle(u)) \/ UNCHANGED vars
  <2>1. UNCHANGED <<balancing, balancers>>
    BY <1>3 DEF HealthChecker, StartRound, Probe, FinishCheck, Toggle, vars
  <2> QED BY <2>1 DEF ListsAreShort, balancing
<1> QED BY <1>1, <1>2, <1>3 DEF Next

(* With a server of some weight in its pool, a balancer returns one.       *)
LEMMA SelectedFromPool ==
  ASSUME TypeOK, NEW c \in Client, NEW ref \in DOMAIN balancers,
         NEW marks, NEW counts \in [Server -> Nat]
  PROVE  LET pool == HealthyServers(balancers[ref].backends, marks, CountryOf[c])
         IN  /\ \A k \in pool : balancers[ref].backends[k] \in Server
             /\ (\E k \in pool : balancers[ref].backends[k].weight # 0) =>
                  \E k \in pool : Selected(balancers[ref], marks, counts, c, CountryOf[c])
                                    = balancers[ref].backends[k]
<1> DEFINE lb   == balancers[ref]
           pool == HealthyServers(lb.backends, marks, CountryOf[c])
<1>1. lb.backends \in Seq(Server)
  BY DEF TypeOK, Balancer
<1>2. \A k \in pool : lb.backends[k] \in Server
  <2>1. pool \subseteq 1 .. Len(lb.backends)
    BY <1>1, PoolIsFinite
  <2> HIDE DEF pool
  <2> QED BY <1>1, <2>1, ElementOfSeq
<1>3. (\E k \in pool : lb.backends[k].weight # 0) =>
        \E k \in pool : Selected(lb, marks, counts, c, CountryOf[c]) = lb.backends[k]
  <2>1. Arguments(Server, lb, c, counts)
    BY ArgumentsOK
  <2>2. ServesPool(lb, marks, counts, c, CountryOf[c])
    <3> HIDE DEF lb
    <3> QED BY <2>1, SelectedIsHealthy
  <2> QED BY <2>2 DEF ServesPool
<1> QED BY <1>2, <1>3

(* With a healthy server of its list left, a balancer returns one.         *)
LEMMA SelectedWhenHealthy ==
  ASSUME PairsOfServers, TypeOK, NEW c \in Client, NEW ref \in DOMAIN balancers,
         NEW marks, NEW counts \in [Server -> Nat],
         NEW j \in DOMAIN balancers[ref].backends, marks[balancers[ref].backends[j]]
  PROVE  Selected(balancers[ref], marks, counts, c, CountryOf[c]) # None
<1> DEFINE list   == balancers[ref].backends
           pool   == HealthyServers(list, marks, CountryOf[c])
           server == Selected(balancers[ref], marks, counts, c, CountryOf[c])
<1>1. PICK i \in pool : TRUE
  BY DEF HealthyServers
<1>2. /\ \A k \in pool : list[k] \in Server
      /\ (\E k \in pool : list[k].weight # 0) => \E k \in pool : server = list[k]
  BY SelectedFromPool
<1>3. list[i].weight # 0
  <2>1. PICK e \in Entry : list[i].weight = e.weight
    BY <1>2, ServerIsOfEntry
  <2>2. e.weight \in Nat /\ e.weight > 0
    BY ForwardingAssumption DEF PairsOfServers
  <2> HIDE DEF list
  <2> QED BY <2>1, <2>2
<1> HIDE DEF list, pool, server
<1>4. \E k \in pool : server = list[k]
  BY <1>2, <1>3
<1>5. server # None
  BY <1>2, <1>4 DEF PairsOfServers
<1> QED BY <1>5 DEF server

(* A list of at most two has nothing besides two different elements.       *)
LEMMA ShortListIs ==
  ASSUME NEW list \in Short, NEW i \in DOMAIN list, NEW j \in DOMAIN list, NEW k \in DOMAIN list,
         list[i] # list[j], list[k] # list[j]
  PROVE  list[k] = list[i]
<1>1. DOMAIN list = 1 .. Len(list) /\ Len(list) \in Nat /\ Len(list) <= 2
  BY LenProperties DEF Short
<1>2. i \in {1, 2} /\ j \in {1, 2} /\ k \in {1, 2}
  BY <1>1
<1> QED BY <1>2

(* The attempts of a connection are those of its own handler.              *)
LEMMA AttemptsOfOthers ==
  ASSUME Inv, NEW c \in Client, NEW d \in Client \ {c}, Handler(c)
  PROVE  attempts'[d] = attempts[d]
<1>1. attempts' = attempts \/ \E n : attempts' = [attempts EXCEPT ![c] = n]
  <2>1. CASE Network(c)
    BY <2>1 DEF Network, ConnectionAccepted, ConnectionRefused, ConnectionRaises
  <2>2. CASE Retry(c) \/ \E path \in Path : Arrive(c, path)
    BY <2>2 DEF Retry, Arrive, TryBackend, Leave
  <2>3. CASE RelayEnd(c) \/ \E path \in Path : RefuseUnrouted(c, path)
    BY <2>3 DEF RelayEnd, RefuseUnrouted, Leave
  <2> QED BY <2>1, <2>2, <2>3 DEF Handler
<1> QED BY <1>1 DEF Inv, TypeOK

(* What the history of a connection becomes.                               *)
LEMMA SteadyNext ==
  ASSUME HistoryNext, NEW c \in Client
  PROVE  /\ \A b \in steady'[c] : up'[b.url] /\ healthy'[b]
         /\ pc[c] \in Holding => steady'[c] \subseteq steady[c]
         /\ pc[c] \notin Holding /\ pc'[c] # "connecting" => steady'[c] = {}
         /\ pc[c] \notin Holding /\ pc'[c] = "connecting" =>
              steady'[c] \subseteq {balancers[selected_lb'[c]].backends[j] :
                                      j \in DOMAIN balancers[selected_lb'[c]].backends}
BY DEF HistoryNext, Candidates

LEMMA UnmovedIsSteady ==
  ASSUME Inv, KeepsLists, HistoryNext, NEW c \in Client, SteadyAt(c),
         Unmoved(c), attempts'[c] = attempts[c]
  PROVE  SteadyAt(c)'
<1>1. CASE pc[c] \in Holding
  <2>1. selected_lb[c] \in DOMAIN balancers
    BY <1>1 DEF Inv, TypeOK
  <2>2. ListOf(c)' = ListOf(c)
    BY <2>1 DEF Unmoved, KeepsLists, ListOf
  <2>3. steady'[c] \subseteq steady[c]
    BY <1>1, SteadyNext
  <2> QED BY <1>1, <2>2, <2>3 DEF SteadyAt, Unmoved, Holding
<1>2. CASE pc[c] \notin Holding
  <2>1. pc'[c] # "connecting"
    BY <1>2 DEF Unmoved, Holding
  <2>2. steady'[c] = {}
    BY <1>2, <2>1, SteadyNext
  <2> QED BY <2>2 DEF SteadyAt
<1> QED BY <1>1, <1>2

LEMMA ArriveIsSteady ==
  ASSUME Inv, ListsAreShort, HistoryNext, NEW c \in Client, NEW path \in Path, Arrive(c, path)
  PROVE  SteadyAt(c)'
<1>1. pc[c] \notin Holding
  BY DEF Arrive, Holding, Answered
<1>2. PICK r \in DOMAIN load_balancers :
        TryBackend(c, load_balancers[r], config.max_retries, healthy, active_connections)
  BY DEF Arrive
<1>3. load_balancers[r] \in DOMAIN balancers /\ active_connections \in [Server -> Nat]
  BY DEF Inv, TypeOK
<1>4. CASE pc'[c] = "bad_gateway"
  <2>1. steady'[c] = {}
    BY <1>1, <1>4, SteadyNext
  <2> QED BY <2>1 DEF SteadyAt
<1>5. CASE Connecting(c, load_balancers[r])
  <2>1. steady'[c] \subseteq ListOf(c)'
    <3>1. balancers'[selected_lb'[c]].backends = balancers[selected_lb'[c]].backends
      BY <1>5, HandlerKeepsLists DEF Handler, Connecting
    <3> QED BY <1>1, <1>5, <3>1, SteadyNext DEF Connecting, ListOf
  <2>2. attempts'[c] # 0
    <3>1. attempts' = [attempts EXCEPT ![c] = config.max_retries - 1]
      BY <1>2, <1>5 DEF TryBackend, Leave, Connecting, Inv, TypeOK
    <3>2. config.max_retries \in Nat /\ config.max_retries >= 2
      BY DEF ListsAreShort, Inv, TypeOK, Config
    <3>3. attempts \in [Client -> Nat]
      BY DEF Inv, TypeOK
    <3> QED BY <3>1, <3>2, <3>3
  <2> QED BY <1>5, <2>1, <2>2 DEF SteadyAt, Connecting
<1> QED BY <1>2, <1>3, <1>4, <1>5, TryBackendMoves

LEMMA NetworkIsSteady ==
  ASSUME Inv, HistoryNext, NEW c \in Client, SteadyAt(c), Network(c)
  PROVE  SteadyAt(c)'
<1>1. /\ pc[c] = "connecting" /\ pc'[c] \in {"relaying", "refused", "raised"}
      /\ pc'[c] = "refused" => ~up[backend[c].url]
      /\ UNCHANGED <<up, balancers, selected_lb, attempts, backend>>
  BY DEF Network, ConnectionAccepted, ConnectionRefused, ConnectionRaises, Inv, TypeOK
<1>2. ListOf(c)' = ListOf(c)
  BY <1>1 DEF ListOf
<1>3. steady'[c] \subseteq steady[c] /\ \A b \in steady'[c] : up'[b.url]
  BY <1>1, SteadyNext DEF Holding
<1> QED BY <1>1, <1>2, <1>3 DEF SteadyAt, Holding

(* A retry goes to the other server, and is the last to be needed.         *)
LEMMA RetryIsSteady ==
  ASSUME PairsOfServers, Inv, HoldsListed, ListsAreShort, HistoryNext,
         NEW c \in Client, SteadyAt(c), Retry(c)
  PROVE  SteadyAt(c)'
<1> DEFINE counts == [active_connections EXCEPT ![backend[c]] = @ - 1]
           ref    == selected_lb[c]
           list   == balancers[ref].backends
           server == IF attempts[c] = 0 THEN None
                     ELSE Selected(balancers[ref], healthy', counts, c, CountryOf[c])
<1>1. /\ pc[c] = "refused" /\ pc[c] \in Holding
      /\ ref \in DOMAIN balancers /\ backend[c] \in Server /\ attempts[c] \in Nat
  BY DEF Retry, Holding, Inv, TypeOK
<1>2. counts \in [Server -> Nat]
  BY <1>1, GiveBack
<1>3. /\ TryBackend(c, ref, attempts[c], healthy', counts)
      /\ healthy' = [healthy EXCEPT ![backend[c]] = FALSE]
  BY DEF Retry
<1>4. ~healthy'[backend[c]]
  BY <1>1, <1>3 DEF Inv, TypeOK
<1>5. /\ steady'[c] \subseteq steady[c] /\ steady[c] \subseteq ListOf(c)
      /\ \A b \in steady'[c] : healthy'[b]
      /\ backend[c] \notin steady[c]
  BY <1>1, SteadyNext DEF SteadyAt
<1>6. ListOf(c) = {list[j] : j \in DOMAIN list}
  BY DEF ListOf
<1>7. CASE server = None
  <2>1. pc'[c] = "bad_gateway"
    BY <1>3, <1>7 DEF TryBackend, Leave, Inv, TypeOK
  <2>2. steady'[c] = {}
    <3>1. CASE attempts[c] = 0
      BY <1>1, <1>5, <3>1 DEF SteadyAt
    <3>2. CASE attempts[c] # 0
      <4>1. Selected(balancers[ref], healthy', counts, c, CountryOf[c]) = None
        BY <1>7, <3>2
      <4>2. TypeOK
        BY DEF Inv
      <4> HIDE DEF counts
      <4>3. \A j \in DOMAIN balancers[ref].backends : ~healthy'[balancers[ref].backends[j]]
        BY <1>1, <1>2, <4>1, <4>2, SelectedWhenHealthy
      <4> QED BY <1>5, <1>6, <4>3
    <3> QED BY <3>1, <3>2
  <2> QED BY <2>1, <2>2 DEF SteadyAt
<1>8. CASE server # None
  <2>1. /\ pc'[c] = "connecting" /\ selected_lb' = [selected_lb EXCEPT ![c] = ref]
        /\ backend'[c] = server /\ server # None
    BY <1>3, <1>8 DEF TryBackend, Inv, TypeOK
  <2>2. server = Selected(balancers[ref], healthy', counts, c, CountryOf[c])
    BY <1>8
  <2>3. healthy'[server] /\ \E j \in DOMAIN list : server = list[j]
    <3>1. TypeOK
      BY DEF Inv
    <3> HIDE DEF counts, server
    <3> QED BY <1>1, <1>2, <2>1, <2>2, <3>1, SelectedIsServer
  <2>4. ListOf(c)' = ListOf(c)
    <3>1. selected_lb'[c] = ref
      BY <2>1 DEF Inv, TypeOK
    <3>2. balancers'[ref].backends = balancers[ref].backends
      BY <1>1, HandlerKeepsLists DEF Handler
    <3> QED BY <3>1, <3>2 DEF ListOf
  <2> HIDE DEF server
  <2>5. steady'[c] \subseteq {server}
    <3> SUFFICES ASSUME NEW b \in steady'[c] PROVE b = server
      OBVIOUS
    <3>1. list \in Short
      BY <1>1 DEF ListsAreShort
    <3>2. PICK k \in DOMAIN list : b = list[k]
      BY <1>5, <1>6
    <3>3. PICK i \in DOMAIN list : server = list[i]
      BY <2>3
    <3>4. PICK j \in DOMAIN list : backend[c] = list[j]
      BY <1>1 DEF HoldsListed
    <3>5. list[i] # list[j] /\ list[k] # list[j]
      BY <1>4, <1>5, <2>3, <3>2, <3>3, <3>4
    <3> HIDE DEF list
    <3> QED BY <3>1, <3>2, <3>3, <3>5, ShortListIs
  <2> QED BY <1>5, <2>1, <2>4, <2>5 DEF SteadyAt
<1> QED BY <1>7, <1>8

LEMMA LeaveIsSteady ==
  ASSUME Inv, HistoryNext, NEW c \in Client,
         RelayEnd(c) \/ \E path \in Path : RefuseUnrouted(c, path)
  PROVE  SteadyAt(c)'
BY DEF RelayEnd, RefuseUnrouted, Leave, SteadyAt, Inv, TypeOK, Holding

LEMMA SteadyStep ==
  ASSUME PairsOfServers, Inv, HoldsListed, ListsAreShort, SteadyOK, HistoryNext
  PROVE  SteadyOK'
<1>1. KeepsLists
  BY StepKeepsLists DEF HistoryNext
<1>2. \A c \in Client : SteadyAt(c)
  BY DEF SteadyOK
<1>3. ASSUME NEW d \in Client, Handler(d), NEW c \in Client PROVE SteadyAt(c)'
  <2>1. CASE c # d
    <3>1. Unmoved(c) /\ attempts'[c] = attempts[c]
      BY <1>3, <2>1, HandlerMoves, AttemptsOfOthers
    <3> QED BY <1>1, <1>2, <3>1, UnmovedIsSteady
  <2>2. CASE c = d
    BY <1>2, <1>3, <2>2, ArriveIsSteady, NetworkIsSteady, RetryIsSteady, LeaveIsSteady DEF Handler
  <2> QED BY <2>1, <2>2
<1>4. ASSUME HealthChecker \/ Reload \/ (\E u \in Url : Toggle(u)), NEW c \in Client
      PROVE  SteadyAt(c)'
  <2>1. Unmoved(c) /\ attempts'[c] = attempts[c]
    BY <1>4 DEF HealthChecker, StartRound, Probe, FinishCheck, Reload, ReloadFile, Discover,
                ReloadConfig, Toggle, handlers, Unmoved
  <2> QED BY <1>1, <1>2, <2>1, UnmovedIsSteady
<1>5. Next
  BY DEF HistoryNext
<1> QED BY <1>3, <1>4, <1>5 DEF Next, SteadyOK

(***************************************************************************)
(* README.md:91, "The user never sees an error page": with at most two     *)
(* servers a route and an attempt for each (proxy.py:552-585), no request  *)
(* is answered with a 502 while a server of its route was up and marked    *)
(* healthy all the time, whatever the other handlers, the health checker,  *)
(* reloads and Docker discovery do in between.                             *)
(***************************************************************************)
THEOREM SilentRetriesWork == PairsOfServers => (HistorySpec => []NeverAnErrorPage)
<1> SUFFICES ASSUME PairsOfServers PROVE HistorySpec => []NeverAnErrorPage
  OBVIOUS
<1>1. HistoryInit => Init /\ HoldsListed /\ SteadyOK
  BY DEF HistoryInit, Init, HoldsListed, SteadyOK, SteadyAt, Holding
<1>2. Init => ListsAreShort
  BY InitIsShort
<1>3. [HistoryNext]_<<vars, steady>> => [Next]_vars
  BY DEF HistoryNext
<1>4. Inv /\ HoldsListed /\ [Next]_vars => HoldsListed'
  BY HoldsListedStep
<1>5. Inv /\ ListsAreShort /\ [Next]_vars => ListsAreShort'
  BY StepIsShort
<1>6. Inv /\ HoldsListed /\ ListsAreShort /\ SteadyOK /\ [HistoryNext]_<<vars, steady>> => SteadyOK'
  <2>1. SteadyOK /\ UNCHANGED <<vars, steady>> => SteadyOK'
    BY DEF SteadyOK, SteadyAt, ListOf, vars, handlers
  <2> QED BY <2>1, SteadyStep
<1>7. SteadyOK => NeverAnErrorPage
  BY DEF SteadyOK, SteadyAt, NeverAnErrorPage
<1> QED
  BY <1>1, <1>2, <1>3, <1>4, <1>5, <1>6, <1>7, Invariance, PTL DEF HistorySpec, Spec

-----------------------------------------------------------------------------
(***************************************************************************)
(* What is exported by url, and least-connections balancing as the network *)
(* sees it, for configurations that give every url one object as long as   *)
(* it is in use: no Docker discovery, a url at one place of the first      *)
(* configuration and of those that bring it in later, and no url ever      *)
(* taken out again if there is more than one reload.  Nor must a handler   *)
(* be ended by an exception while it is counted.                           *)
(***************************************************************************)
OneObjectPerUrl ==
  /\ Unconnectable = {} /\ Topologies = {}
  /\ \A url \in Url : \A p, q \in Places(Initial.routes, url) : p = q
  /\ \A file \in Files, url \in Url :
       Places(Initial.routes, url) = {} => \A p, q \in Places(file.routes, url) : p = q
  /\ \/ MaxLoads <= 1
     \/ \A file \in Files \cup {Initial}, later \in Files, url \in Url :
          Places(file.routes, url) # {} => Places(later.routes, url) # {}

InLists == UNION {{balancers[ref].backends[j] : j \in DOMAIN balancers[ref].backends}
                    : ref \in DOMAIN balancers}
InUse   == Listed(config.routes) \cup InLists

(* As long as a reload may follow, nothing is in use that the next one     *)
(* would not find in the configuration.                                    *)
NothingDropped ==
  /\ InLists \subseteq Listed(config.routes)
  /\ \E file \in Files \cup {Initial} :
       /\ generation = 0 => file = Initial
       /\ \A url \in Url : Places(config.routes, url) = Places(file.routes, url)

OneEach ==
  /\ \A a \in InUse, b \in InUse : a.url = b.url => a = b
  /\ generation < MaxLoads => NothingDropped

NobodyRaised == \A c \in Client : pc[c] # "raised"

(* What is listed is listed at a place of its url.                         *)
LEMMA ListedAt ==
  ASSUME NEW routes, NEW b \in Listed(routes)
  PROVE  \E p \in Places(routes, b.url) : b = ObjectAt(routes, p)
<1>1. PICK i \in DOMAIN routes : \E j \in DOMAIN routes[i].servers : b = routes[i].servers[j]
  BY DEF Listed
<1>2. PICK j \in DOMAIN routes[i].servers : b = routes[i].servers[j]
  BY <1>1
<1>3. <<i, j>> \in Places(routes, b.url)
  BY <1>2 DEF Places
<1>4. ObjectAt(routes, <<i, j>>) = b
  BY <1>2 DEF ObjectAt
<1> QED BY <1>3, <1>4

LEMMA ListedAreServers ==
  ASSUME NEW routes \in Routes
  PROVE  Listed(routes) \subseteq Server
BY ListedAt, PlacesType

LEMMA InUseAreServers ==
  ASSUME TypeOK
  PROVE  InUse \subseteq Server
<1>1. Listed(config.routes) \subseteq Server
  BY ListedAreServers DEF TypeOK, Config
<1>2. ASSUME NEW ref \in DOMAIN balancers, NEW j \in DOMAIN balancers[ref].backends
      PROVE  balancers[ref].backends[j] \in Server
  <2>1. balancers[ref].backends \in Seq(Server)
    BY DEF TypeOK, Balancer
  <2> QED BY <2>1, LenProperties, ElementOfSeq
<1> QED BY <1>1, <1>2 DEF InUse, InLists

(* Building and merging keep every url where the listing has it.           *)
LEMMA PlacesOfBuild ==
  ASSUME NEW g, NEW listing, NEW url
  PROVE  Places(Build(g, listing), url) = Places(listing, url)
<1> DEFINE built == Build(g, listing)
<1>1. DOMAIN built = DOMAIN listing
  BY DEF Build
<1>2. ASSUME NEW i \in DOMAIN listing
      PROVE  /\ DOMAIN built[i].servers = DOMAIN listing[i].servers
             /\ \A j \in DOMAIN listing[i].servers :
                  built[i].servers[j].url = listing[i].servers[j].url
  BY DEF Build, BackendServer
<1> HIDE DEF built
<1>3. Places(built, url) = Places(listing, url)
  BY <1>1, <1>2 DEF Places
<1> QED BY <1>3 DEF built

LEMMA PlacesOfMerge ==
  ASSUME NEW existing \in Routes, NEW routes, NEW url
  PROVE  /\ Places(Merge(existing, routes), url) = Places(routes, url)
         /\ \A p \in Places(routes, url) :
              ObjectAt(Merge(existing, routes), p) =
                IF Places(existing, url) # {} THEN LastListed(existing, url)
                ELSE ObjectAt(routes, p)
<1> DEFINE merged == Merge(existing, routes)
<1>1. DOMAIN merged = DOMAIN routes
  BY DEF Merge
<1>2. ASSUME NEW i \in DOMAIN routes
      PROVE  DOMAIN merged[i].servers = DOMAIN routes[i].servers
  BY DEF Merge
<1>3. ASSUME NEW i \in DOMAIN routes, NEW j \in DOMAIN routes[i].servers
      PROVE  merged[i].servers[j] =
               IF Places(existing, routes[i].servers[j].url) # {}
                 THEN LastListed(existing, routes[i].servers[j].url)
                 ELSE routes[i].servers[j]
  BY DEF Merge
<1>4. ASSUME NEW i \in DOMAIN routes, NEW j \in DOMAIN routes[i].servers
      PROVE  merged[i].servers[j].url = routes[i].servers[j].url
  BY <1>3, LastListedType
<1> HIDE DEF merged
<1>5. Places(merged, url) = Places(routes, url)
  BY <1>1, <1>2, <1>4 DEF Places
<1>6. ASSUME NEW p \in Places(routes, url)
      PROVE  ObjectAt(merged, p) = IF Places(existing, url) # {} THEN LastListed(existing, url)
                                   ELSE ObjectAt(routes, p)
  <2>1. PICK i \in DOMAIN routes :
          p \in {i} \X {j \in DOMAIN routes[i].servers : routes[i].servers[j].url = url}
    BY DEF Places
  <2>2. PICK j \in DOMAIN routes[i].servers : p = <<i, j>> /\ routes[i].servers[j].url = url
    BY <2>1
  <2> QED BY <1>3, <2>2 DEF ObjectAt
<1> QED BY <1>5, <1>6 DEF merged

(* The lists of the balancers of a configuration hold what it lists.       *)
LEMMA CreatedAreListed ==
  ASSUME NEW new, NEW g, NEW ref \in DOMAIN CreatedBy(new, g),
         NEW j \in DOMAIN CreatedBy(new, g)[ref].backends
  PROVE  CreatedBy(new, g)[ref].backends[j] \in Listed(new.routes)
<1>1. ref[2] \in Paths(new.routes)
  BY DEF CreatedBy
<1>2. CreatedBy(new, g)[ref].backends = ServersOf(new.routes, ref[2])
  BY DEF CreatedBy, NewBalancer
<1>3. \E i \in DOMAIN new.routes : ServersOf(new.routes, ref[2]) = new.routes[i].servers
  BY <1>1 DEF Paths, ServersOf
<1> QED BY <1>2, <1>3 DEF Listed

LEMMA InitOneEach ==
  ASSUME OneObjectPerUrl, Init
  PROVE  OneEach
<1>1. config.routes = Build(0, Initial.routes) /\ balancers = CreatedBy(config, 0)
  BY DEF Init, Load
<1>2. InLists \subseteq Listed(config.routes)
  BY <1>1, CreatedAreListed DEF InLists
<1>3. \A url : Places(config.routes, url) = Places(Initial.routes, url)
  BY <1>1, PlacesOfBuild
<1>4. ASSUME NEW a \in InUse, NEW b \in InUse, a.url = b.url
      PROVE  a = b
  <2>1. a \in Listed(config.routes) /\ b \in Listed(config.routes)
    BY <1>2 DEF InUse
  <2>2. PICK p \in Places(config.routes, a.url) : a = ObjectAt(config.routes, p)
    BY <2>1, ListedAt
  <2>3. PICK q \in Places(config.routes, b.url) : b = ObjectAt(config.routes, q)
    BY <2>1, ListedAt
  <2>4. a.url \in Url
    <3>1. TypeOK
      BY InitInv DEF Inv
    <3> QED BY <3>1, InUseAreServers, ServerType
  <2>5. p = q
    BY <1>3, <1>4, <2>2, <2>3, <2>4 DEF OneObjectPerUrl
  <2> QED BY <2>2, <2>3, <2>5
<1> QED BY <1>2, <1>3, <1>4 DEF OneEach, NothingDropped

(***************************************************************************)
(* A reload finds everything that is in use in the configuration, keeps it *)
(* where the new file has its url, and adds one object for each other url. *)
(***************************************************************************)
LEMMA ReloadOneEach ==
  ASSUME OneObjectPerUrl, Inv, OneEach, NEW file \in Files, ReloadFile(file)
  PROVE  OneEach'
<1> DEFINE g        == generation + 1
           existing == config.routes
           built    == Build(g, file.routes)
           routes   == Merge(existing, built)
           merged   == [Load(file, g) EXCEPT !.routes = Merge(existing, @)]
           fresh    == CreatedBy(merged, g)
           Found(url) == Places(existing, url) # {}
<1>1. /\ generation < MaxLoads /\ generation' = g /\ config' = merged
      /\ \/ balancers' = [ref \in DOMAIN balancers \cup DOMAIN fresh |->
                            IF ref \in DOMAIN fresh THEN fresh[ref] ELSE balancers[ref]]
         \/ UNCHANGED balancers
  BY DEF ReloadFile, ReloadConfig
<1>2. generation \in Nat /\ MaxLoads \in Nat /\ g \in 0 .. MaxLoads /\ g # 0
  BY <1>1, ForwardingAssumption DEF Inv, TypeOK
<1>3. existing \in Routes /\ built \in Routes /\ merged.routes = routes
  BY <1>2, BuildType DEF Inv, TypeOK, Config, Listings, Load
<1>4. routes \in Routes /\ config'.routes = routes
  BY <1>1, <1>3, MergeType
<1> HIDE DEF merged, g
<1>5. \A ref \in DOMAIN fresh : \A j \in DOMAIN fresh[ref].backends : fresh[ref].backends[j] \in Listed(routes)
  BY <1>3, CreatedAreListed
<1> HIDE DEF fresh, built, routes
<1>6. InLists' \subseteq InLists \cup Listed(routes)
  BY <1>1, <1>5 DEF InLists
<1>7. NothingDropped
  BY <1>1 DEF OneEach
<1>8. /\ InUse = Listed(existing) /\ InUse \subseteq Server
      /\ InUse' \subseteq Listed(existing) \cup Listed(routes)
  BY <1>4, <1>6, <1>7, InUseAreServers DEF NothingDropped, InUse, Inv
<1>9. ASSUME NEW url
      PROVE  /\ Places(routes, url) = Places(file.routes, url)
             /\ \A p \in Places(routes, url) :
                  ObjectAt(routes, p) = IF Found(url) THEN LastListed(existing, url)
                                        ELSE ObjectAt(built, p)
  <2>1. Places(built, url) = Places(file.routes, url)
    BY PlacesOfBuild DEF built
  <2>2. /\ Places(routes, url) = Places(built, url)
        /\ \A p \in Places(built, url) :
             ObjectAt(routes, p) = IF Found(url) THEN LastListed(existing, url)
                                   ELSE ObjectAt(built, p)
    BY <1>3, PlacesOfMerge DEF routes
  <2> QED BY <2>1, <2>2
<1>10. ASSUME NEW b \in Listed(existing)
       PROVE  Found(b.url) /\ b = LastListed(existing, b.url)
  <2>1. Found(b.url)
    BY ListedAt
  <2>2. LastListed(existing, b.url) \in Listed(existing) /\ LastListed(existing, b.url).url = b.url
    BY <1>3, <2>1, ListedByUrl, PlacesType
  <2> QED BY <1>8, <2>1, <2>2 DEF OneEach
<1>11. \A b \in Listed(existing) \cup Listed(routes) : b.url \in Url
  BY <1>3, <1>4, ListedAreServers, ServerType
<1>12. PICK last \in Files \cup {Initial} :
         /\ generation = 0 => last = Initial
         /\ \A url \in Url : Places(existing, url) = Places(last.routes, url)
  BY <1>7 DEF NothingDropped
<1>13. ASSUME NEW url \in Url, ~Found(url)
       PROVE  Places(Initial.routes, url) = {}
  <2>1. CASE last = Initial
    BY <1>12, <1>13, <2>1
  <2>2. CASE last # Initial
    <3>1. last \in Files /\ ~(MaxLoads <= 1)
      BY <1>1, <1>2, <1>12, <2>2
    <3> QED BY <1>12, <1>13, <3>1 DEF OneObjectPerUrl
  <2> QED BY <2>1, <2>2
<1>14. ASSUME NEW a \in InUse', NEW b \in InUse', a.url = b.url
       PROVE  a = b
  <2>1. ASSUME NEW x \in Listed(routes)
        PROVE  \E p \in Places(routes, x.url) : x = ObjectAt(routes, p)
    BY ListedAt
  <2>2. CASE Found(a.url)
    <3>1. \A x \in Listed(existing) \cup Listed(routes) :
            x.url = a.url => x = LastListed(existing, a.url)
      BY <1>9, <1>10, <2>1, <2>2
    <3> QED BY <1>8, <1>14, <3>1
  <2>3. CASE ~Found(a.url)
    <3>1. a \in Listed(routes) /\ b \in Listed(routes) /\ a.url \in Url
      BY <1>8, <1>10, <1>11, <1>14, <2>3
    <3>2. PICK p \in Places(routes, a.url) : a = ObjectAt(routes, p)
      BY <2>1, <3>1
    <3>3. PICK q \in Places(routes, a.url) : b = ObjectAt(routes, q)
      BY <1>14, <2>1, <3>1
    <3>4. p = q
      BY <1>9, <1>13, <2>3, <3>1, <3>2, <3>3 DEF OneObjectPerUrl
    <3> QED BY <3>2, <3>3, <3>4
  <2> QED BY <2>2, <2>3
<1>15. ASSUME generation' < MaxLoads
       PROVE  NothingDropped'
  <2>1. ~(MaxLoads <= 1)
    BY <1>1, <1>2, <1>15 DEF g
  <2>2. ASSUME NEW b \in Listed(existing)
        PROVE  b \in Listed(routes)
    <3>1. Found(b.url) /\ b = LastListed(existing, b.url) /\ b.url \in Url
      BY <1>10, <1>11
    <3>2. Places(file.routes, b.url) # {}
      BY <1>12, <2>1, <3>1 DEF OneObjectPerUrl
    <3>3. PICK p \in Places(routes, b.url) : TRUE
      BY <1>9, <3>2
    <3>4. ObjectAt(routes, p) = b
      BY <1>9, <3>1
    <3> QED BY <1>4, <3>4, PlacesType
  <2>3. InLists' \subseteq Listed(routes)
    BY <1>6, <1>7, <2>2 DEF NothingDropped
  <2> QED BY <1>1, <1>2, <1>4, <1>9, <2>3 DEF NothingDropped
<1> QED BY <1>14, <1>15 DEF OneEach

LEMMA StepOneEach ==
  ASSUME OneObjectPerUrl, Inv, OneEach, [Next]_vars
  PROVE  OneEach'
<1>1. CASE UNCHANGED balancing /\ InLists' = InLists
  BY <1>1 DEF OneEach, NothingDropped, InUse, balancing
<1>2. CASE \E c \in Client : Handler(c)
  <2>1. /\ UNCHANGED balancing /\ DOMAIN balancers' = DOMAIN balancers
        /\ \A ref \in DOMAIN balancers : balancers'[ref].backends = balancers[ref].backends
    BY <1>2, HandlerKeepsLists
  <2>2. InLists' = InLists
    BY <2>1 DEF InLists
  <2> QED BY <1>1, <2>1, <2>2
<1>3. CASE Reload
  BY <1>3, ReloadOneEach DEF Reload, OneObjectPerUrl
<1>4. CASE HealthChecker \/ (\E u \in Url : Toggle(u)) \/ UNCHANGED vars
  <2>1. UNCHANGED <<balancing, balancers>>
    BY <1>4 DEF HealthChecker, StartRound, Probe, FinishCheck, Toggle, vars
  <2> QED BY <1>1, <2>1 DEF InLists
<1> QED BY <1>2, <1>3, <1>4 DEF Next

LEMMA StepRaisesNone ==
  ASSUME OneObjectPerUrl, Inv, NobodyRaised, [Next]_vars
  PROVE  NobodyRaised'
<1>1. ASSUME NEW d \in Client, Handler(d), NEW c \in Client PROVE pc'[c] # "raised"
  <2>1. CASE c # d
    BY <1>1, <2>1, HandlerMoves DEF Unmoved, NobodyRaised
  <2>2. CASE c = d /\ Network(d)
    BY <2>2 DEF Network, ConnectionAccepted, ConnectionRefused, ConnectionRaises,
                OneObjectPerUrl, Inv, TypeOK
  <2>3. CASE c = d /\ ~Network(d)
    <3>1. pc[c] # "connecting"
      BY <1>1, <2>3 DEF Handler, Arrive, RefuseUnrouted, Retry, RelayEnd, Answered
    <3> QED BY <1>1, <2>3, <3>1, HandlerMoves DEF Connecting
  <2> QED BY <2>1, <2>2, <2>3
<1>2. CASE HealthChecker \/ Reload \/ (\E u \in Url : Toggle(u)) \/ UNCHANGED vars
  BY <1>2, OthersMoveNobody DEF Unmoved, NobodyRaised
<1> QED BY <1>1, <1>2 DEF Next, NobodyRaised

(* An object in use counts the connections of its url.                     *)
LEMMA CountsItsUrl ==
  ASSUME Inv, HoldsListed, OneEach, NobodyRaised, NEW b \in InUse
  PROVE  active_connections[b] = OpenTo(b.url)
<1>1. b \in Server
  BY InUseAreServers DEF Inv
<1>2. ASSUME NEW c \in Client, pc[c] \in Holding
      PROVE  backend[c] \in InUse
  <2>1. selected_lb[c] \in DOMAIN balancers
    BY <1>2 DEF Inv, TypeOK
  <2> QED BY <1>2, <2>1 DEF HoldsListed, InUse, InLists
<1>3. Holders(b) = {c \in Client : pc[c] \in Holding /\ backend[c].url = b.url}
  BY <1>2 DEF Holders, NobodyRaised, OneEach
<1> QED BY <1>1, <1>3 DEF OpenTo, Inv, ActiveConnectionsExact

(* What this section assumes of every state, and keeps.                    *)
Counted == Inv /\ HoldsListed /\ OneEach /\ NobodyRaised

LEMMA CountedAlways == OneObjectPerUrl => (Spec => []Counted)
<1> SUFFICES ASSUME OneObjectPerUrl PROVE Spec => []Counted
  OBVIOUS
<1>1. Init => HoldsListed /\ OneEach /\ NobodyRaised
  <2>1. Init => HoldsListed /\ NobodyRaised
    BY DEF Init, HoldsListed, NobodyRaised, Holding
  <2> QED BY <2>1, InitOneEach
<1>2. Inv /\ HoldsListed /\ [Next]_vars => HoldsListed'
  BY HoldsListedStep
<1>3. Inv /\ OneEach /\ [Next]_vars => OneEach'
  BY StepOneEach
<1>4. Inv /\ NobodyRaised /\ [Next]_vars => NobodyRaised'
  BY StepRaisesNone
<1> QED
  BY <1>1, <1>2, <1>3, <1>4, Invariance, PTL DEF Spec, Counted

(***************************************************************************)
(* The exported number of connections of a url (metrics.py:46) is that of  *)
(* the connections that are open to it, or being opened, also through      *)
(* balancers of earlier configurations, as long as reload_config finds the *)
(* object of every url that is in use (proxy.py:108-160).                  *)
(***************************************************************************)
THEOREM GaugeCorrect == OneObjectPerUrl => (Spec => []GaugeIsTruthful)
<1> SUFFICES ASSUME OneObjectPerUrl PROVE Spec => []GaugeIsTruthful
  OBVIOUS
<1>1. Counted => GaugeIsTruthful
  <2> SUFFICES ASSUME Counted, NEW b \in UniqueBackends(config.routes)
               PROVE  active_connections[b] = OpenTo(b.url)
    BY DEF GaugeIsTruthful, OpenTo
  <2>1. config.routes \in Routes
    BY DEF Counted, Inv, TypeOK, Config
  <2>2. PICK a \in Listed(config.routes) : b = FirstListed(config.routes, a.url)
    BY DEF UniqueBackends
  <2>3. Places(config.routes, a.url) # {}
    BY ListedAt
  <2>4. b \in InUse
    BY <2>1, <2>2, <2>3, ListedByUrl, PlacesType DEF InUse
  <2> QED BY <2>4, CountsItsUrl DEF Counted
<1> QED BY <1>1, CountedAlways, PTL

(* With one country for all, a caller may be sent to any healthy server.   *)
Marked(backends, marks) == {i \in DOMAIN backends : marks[backends[i]]}
OneCountry(backends)    == \A i, j \in DOMAIN backends : backends[i].country = backends[j].country

LEMMA PoolOfOneCountry ==
  ASSUME NEW backends, NEW marks, NEW country, OneCountry(backends)
  PROVE  HealthyServers(backends, marks, country) = Marked(backends, marks)
BY DEF HealthyServers, Marked, OneCountry

(* The selected server has, of the healthy ones, no more than the j-th.    *)
LeastSelected(lb, marks, active, ip, country, j) ==
  \E i \in Marked(lb.backends, marks) :
    /\ Selected(lb, marks, active, ip, country) = lb.backends[i]
    /\ NoBusier(active, lb.backends, i, j)

LEMMA LeastOfOneCountry ==
  ASSUME NEW T, NEW lb, NEW marks, NEW active, NEW ip, NEW country,
         Arguments(T, lb, ip, active), lb.algorithm = "least_connections",
         OneCountry(lb.backends), NEW j, j \in Marked(lb.backends, marks)
  PROVE  LeastSelected(lb, marks, active, ip, country, j)
<1>1. HealthyServers(lb.backends, marks, country) = Marked(lb.backends, marks)
  BY PoolOfOneCountry
<1>2. j \in HealthyServers(lb.backends, marks, country)
  BY <1>1
<1>3. ServesLeast(lb, marks, active, ip, country, j)
  BY <1>2, SelectedIsLeastLoaded
<1> QED BY <1>1, <1>3 DEF ServesLeast, LeastSelected

(***************************************************************************)
(* README.md:23, load_balancer.py:67: under least_connections a new        *)
(* connection goes to a healthy server of its route whose url has no more  *)
(* open connections than that of any other, counted as the network sees    *)
(* them and across reloads, when no server is reserved for a country.      *)
(***************************************************************************)
THEOREM LeastConnectionsCorrect ==
  OneObjectPerUrl /\ (\A e, f \in Entry : e.country = f.country) => (Spec => LeastConnectionsServed)
<1> SUFFICES ASSUME OneObjectPerUrl, \A e, f \in Entry : e.country = f.country
             PROVE  Spec => LeastConnectionsServed
  OBVIOUS
<1> DEFINE Least(c) ==
             LET lb == balancers[selected_lb'[c]]
             IN  lb.algorithm = "least_connections" =>
                   \A j \in DOMAIN lb.backends :
                     healthy[lb.backends[j]] =>
                       OpenTo(backend'[c].url) <= OpenTo(lb.backends[j].url)
           Served(c) == pc[c] \notin Holding /\ pc'[c] = "connecting" => Least(c)
<1>1. Counted /\ [Next]_vars => \A c \in Client : Served(c)
  <2> SUFFICES ASSUME Counted, [Next]_vars, NEW c \in Client,
                      pc[c] \notin Holding, pc'[c] = "connecting"
               PROVE  Least(c)
    OBVIOUS
  <2>1. Inv /\ TypeOK
    BY DEF Counted, Inv
  <2>2. \E path \in Path : Arrive(c, path)
    <3>1. PICK d \in Client : Handler(d)
      BY OthersMoveNobody DEF Next, Unmoved, Holding
    <3>2. d = c
      BY <2>1, <3>1, HandlerMoves DEF Unmoved, Holding
    <3> QED
      BY <2>1, <3>1, <3>2
      DEF Handler, RefuseUnrouted, Network, ConnectionAccepted, ConnectionRefused,
          ConnectionRaises, Retry, RelayEnd, Leave, Holding, TypeOK
  <2>3. PICK r \in DOMAIN load_balancers :
          TryBackend(c, load_balancers[r], config.max_retries, healthy, active_connections)
    BY <2>2 DEF Arrive
  <2> DEFINE ref    == load_balancers[r]
             lb     == balancers[ref]
             server == Selected(lb, healthy, active_connections, c, CountryOf[c])
  <2>4. /\ ref \in DOMAIN balancers /\ active_connections \in [Server -> Nat]
        /\ lb.backends \in Seq(Server)
    BY <2>1 DEF TypeOK, Balancer
  <2>5. selected_lb'[c] = ref /\ backend'[c] = server
    BY <2>1, <2>3 DEF TryBackend, Leave, TypeOK
  <2>6. ASSUME NEW i \in DOMAIN lb.backends
        PROVE  lb.backends[i] \in Server /\ lb.backends[i] \in InUse
    BY <2>4, LenProperties, ElementOfSeq DEF InUse, InLists
  <2>7. ASSUME lb.algorithm = "least_connections", NEW j \in Marked(lb.backends, healthy)
        PROVE  OpenTo(server.url) <= OpenTo(lb.backends[j].url)
    <3>1. j \in DOMAIN lb.backends
      BY DEF Marked
    <3>2. OneCountry(lb.backends)
      <4>1. ASSUME NEW i \in DOMAIN lb.backends, NEW k \in DOMAIN lb.backends
            PROVE  lb.backends[i].country = lb.backends[k].country
        BY <2>6, ServerIsOfEntry
      <4> QED BY <4>1 DEF OneCountry
    <3>3. PICK i \in Marked(lb.backends, healthy) :
            server = lb.backends[i] /\ NoBusier(active_connections, lb.backends, i, j)
      <4>1. LeastSelected(lb, healthy, active_connections, c, CountryOf[c], j)
        <5>1. Arguments(Server, lb, c, active_connections)
          BY <2>1, <2>4, ArgumentsOK
        <5> HIDE DEF lb
        <5> QED BY <2>7, <3>2, <5>1, LeastOfOneCountry
      <4> QED BY <4>1 DEF LeastSelected
    <3>4. i \in DOMAIN lb.backends
      BY DEF Marked
    <3>5. /\ active_connections[lb.backends[i]] = OpenTo(lb.backends[i].url)
          /\ active_connections[lb.backends[j]] = OpenTo(lb.backends[j].url)
      BY <2>6, <3>1, <3>4, CountsItsUrl DEF Counted
    <3> QED BY <3>3, <3>5 DEF NoBusier
  <2> QED BY <2>5, <2>7 DEF Marked
<1>2. Spec => [][\A c \in Client : Served(c)]_vars
  BY <1>1, CountedAlways, PTL DEF Spec
<1> QED
  BY <1>2 DEF LeastConnectionsServed
=============================================================================
