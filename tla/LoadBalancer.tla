---------------------------- MODULE LoadBalancer ----------------------------
(***************************************************************************)
(* The balancers of essaproxy/load_balancer.py as operators.               *)
(*                                                                         *)
(* A BackendServer is a record whose fields `weight' and `country' never   *)
(* change after construction; its two mutable attributes are kept apart as *)
(* the functions `healthy' and `active' that the operators take.  A        *)
(* balancer is a record with the algorithm that create_load_balancer was   *)
(* given, the list of backends and, for the two round-robin classes,       *)
(* current_index.                                                          *)
(*                                                                         *)
(* A Python list filtered by a comprehension is the set of positions that  *)
(* survive; a repeated list (the weighted pool) is a set of slots          *)
(* <<position, copy>>.  Indexing the list with k is taking the slot that   *)
(* has exactly k slots before it (AtRank).                                 *)
(***************************************************************************)
EXTENDS Integers, Sequences, FiniteSets

CONSTANTS
  None,     \* Python's None: no server, and the country of an untagged server
  Hash      \* Hash[ip]: the md5 digest of a client address read as a number

Algorithms == {"round_robin", "weighted_round_robin", "least_connections", "ip_hash"}

NewBalancer(algorithm, backends) ==
  [algorithm |-> algorithm, backends |-> backends, current_index |-> 0]

-----------------------------------------------------------------------------
(* Variants of HealthyServers with a mistake, for mutation runs: the health*)
(* is not looked at; tagged servers of other countries are not held back.  *)
AllServers(backends, healthy, country) == DOMAIN backends
AnyHealthyServers(backends, healthy, country) ==
  {i \in DOMAIN backends : healthy[backends[i]]}

(* get_healthy_servers: the healthy servers of the caller's country, else  *)
(* the healthy untagged ones, else all the healthy ones.                   *)
HealthyServers(backends, healthy, country) ==
  LET up          == {i \in DOMAIN backends : healthy[backends[i]]}
      geo_matched == {i \in up : backends[i].country = country}
      neutral     == {i \in up : backends[i].country = None}
  IN  IF geo_matched # {} THEN geo_matched
      ELSE IF neutral # {} THEN neutral
      ELSE up

(* How often a server stands in the list that current_index runs over.     *)
Copies(algorithm, server) ==
  IF algorithm = "weighted_round_robin" THEN server.weight ELSE 1

(* The list that is indexed: the pool itself, or expanded_pool.            *)
Slots(lb, pool) ==
  UNION {{i} \X (1 .. Copies(lb.algorithm, lb.backends[i])) : i \in pool}

Before(s, t) == s[1] < t[1] \/ (s[1] = t[1] /\ s[2] < t[2])
Rank(S, s)   == Cardinality({t \in S : Before(t, s)})
AtRank(S, k) == CHOOSE s \in S : Rank(S, s) = k

(* min() over active_connections: the first of the least loaded.           *)
LeastLoaded(backends, pool, active) ==
  AtRank({<<active[backends[i]], i>> : i \in pool}, 0)[2]

-----------------------------------------------------------------------------
(* The slot that the two round-robin classes and IPHashBalancer index.     *)
IndexedSlot(lb, slots, ip) ==
  AtRank(slots, (IF lb.algorithm = "ip_hash" THEN Hash[ip] ELSE lb.current_index)
                  % Cardinality(slots))

(* get_server: the selected server, or None.                               *)
Selected(lb, healthy, active, ip, country) ==
  LET pool  == HealthyServers(lb.backends, healthy, country)
      slots == Slots(lb, pool)
  IN  IF slots = {} THEN None
      ELSE IF lb.algorithm = "least_connections"
        THEN lb.backends[LeastLoaded(lb.backends, pool, active)]
        ELSE lb.backends[IndexedSlot(lb, slots, ip)[1]]

(* A mutation: the index wraps at the number of servers instead of the     *)
(* length of expanded_pool.                                                *)
ServerIndex(lb, healthy, country) ==
  LET pool == HealthyServers(lb.backends, healthy, country)
  IN  IF pool = {} THEN lb.current_index
      ELSE (lb.current_index + 1) % Cardinality(pool)

(* get_server: current_index after the call.                               *)
NextIndex(lb, healthy, country) ==
  LET slots == Slots(lb, HealthyServers(lb.backends, healthy, country))
  IN  IF slots # {} /\ lb.algorithm \in {"round_robin", "weighted_round_robin"}
        THEN (lb.current_index + 1) % Cardinality(slots)
        ELSE lb.current_index
=============================================================================
