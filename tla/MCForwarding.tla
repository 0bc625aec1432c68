---------------------------- MODULE MCForwarding ----------------------------
(* Configurations, Docker answers and callers for the runs of Forwarding.  *)
EXTENDS Forwarding, TLC

Weighted(url, weight) == [url |-> url, weight |-> weight, country |-> None]
Plain(url) == Weighted(url, 1)
MCEntry == {Plain(url) : url \in Url}
Route(path, servers) == [path |-> path, servers |-> servers]
File(routes, algorithm, max_retries) ==
  [routes |-> routes, algorithm |-> algorithm, max_retries |-> max_retries]

(* No definition tells one connection from another: they share an address  *)
(* hash and a country.                                                     *)
ClientSymmetry == Permutations(Client)

MCHash      == [c \in Client |-> 0]
MCCountryOf == [c \in Client |-> "LOCAL"]
MCLength    == [r \in {"/", "/api"} |-> IF r = "/" THEN 1 ELSE 4]
MCPrefixes  == [p \in Path |-> IF p = "/api/users" THEN {"/", "/api"} ELSE {"/"}]
Nothing     == {}

(* Servers behind the one route "/".                                       *)
RoundRobinPair ==
  File(<<Route("/", <<Plain("u1"), Plain("u2")>>)>>, "round_robin", 2)

(* The same url behind two routes.                                         *)
SharedServer ==
  File(<<Route("/api", <<Plain("u1")>>), Route("/", <<Plain("u1")>>)>>, "round_robin", 2)

(* What the operator edits the file into: a route more, another algorithm  *)
(* and a server less; no default route; an algorithm that does not exist.  *)
Grown ==
  File(<<Route("/api", <<Plain("u1"), Plain("u2")>>), Route("/", <<Plain("u1")>>)>>,
       "least_connections", 2)
OnlyApi ==
  File(<<Route("/api", <<Plain("u2"), Plain("u1")>>)>>, "ip_hash", 2)
GeoLatency ==
  File(<<Route("/", <<Plain("u1"), Plain("u2")>>)>>, "geo_latency", 2)
Edits == {Grown, OnlyApi}
Mistaken == {GeoLatency, Grown}

(* Containers labelled for "/" and "/api".                                 *)
DockerTopologies ==
  {<<Route("/", <<Plain("u1")>>)>>,
   <<Route("/api", <<Plain("u2")>>), Route("/", <<Plain("u1"), Plain("u2")>>)>>}
=============================================================================
