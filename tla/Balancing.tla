------------------------------ MODULE Balancing ------------------------------
(***************************************************************************)
(* One balancer serving a stream of get_server calls while the health of   *)
(* its servers changes under it: the fairness and stickiness that          *)
(* README.md promises of the algorithms.                                   *)
(***************************************************************************)
EXTENDS LoadBalancer

CONSTANTS
  Routings,     \* the routes to look at: [algorithm, backends, callers], the
                \* list of BackendServer records and the addresses that call
  Ip,           \* the client addresses
  CountryOf,    \* CountryOf[ip]: what the GeoIP resolver answers for ip
  MaxCalls      \* bound: calls of get_server between two health changes

Server  == UNION {{r.backends[i] : i \in DOMAIN r.backends} : r \in Routings}
Country == {CountryOf[ip] : ip \in Ip}

(* The backends of a route are a list of objects, no two the same.         *)
ASSUME BalancingAssumption ==
  /\ MaxCalls \in Nat
  /\ \A r \in Routings :
       /\ r.algorithm \in Algorithms /\ r.callers \subseteq Ip
       /\ r.backends \in Seq(Server)
       /\ \A i, j \in DOMAIN r.backends : r.backends[i] = r.backends[j] => i = j
  /\ None \notin Server /\ \A s \in Server : s.weight \in Nat

VARIABLES
  lb,        \* the balancer of the route
  callers,   \* the addresses that call it
  healthy,   \* the `healthy' attribute of each server
  picks,     \* history: how often each server was returned, and
  calls      \* the number of calls, since the last health change

vars == <<lb, callers, healthy, picks, calls>>

NoPicks == [s \in Server |-> 0]

Init ==
  /\ \E r \in Routings : lb = NewBalancer(r.algorithm, r.backends) /\ callers = r.callers
  /\ healthy = [s \in Server |-> TRUE]
  /\ picks = NoPicks
  /\ calls = 0

(* One call of get_server.  The connections are not part of this module:   *)
(* the servers are equally loaded for the least-connections algorithm.     *)
NoLoad == [s \in Server |-> 0]

GetServer(ip) ==
  LET server == Selected(lb, healthy, NoLoad, ip, CountryOf[ip])
  IN  /\ calls < MaxCalls
      /\ calls' = calls + 1
      /\ lb' = [lb EXCEPT !.current_index = NextIndex(lb, healthy, CountryOf[ip])]
      /\ picks' = IF server = None THEN picks ELSE [picks EXCEPT ![server] = @ + 1]
      /\ UNCHANGED <<callers, healthy>>

(* The circuit breaker or the health checker changes one server.           *)
ChangeHealth(s) ==
  /\ \E i \in DOMAIN lb.backends : lb.backends[i] = s
  /\ healthy' = [healthy EXCEPT ![s] = ~@]
  /\ picks' = NoPicks
  /\ calls' = 0
  /\ UNCHANGED <<lb, callers>>

Next ==
  \/ \E ip \in callers : GetServer(ip)
  \/ \E s \in Server : ChangeHealth(s)

Spec == Init /\ [][Next]_vars

-----------------------------------------------------------------------------
Pool(c) == {lb.backends[i] : i \in HealthyServers(lb.backends, healthy, c)}

(***************************************************************************)
(* Even distribution (README.md:21-22, the round-robin classes).  While the*)
(* callers share one pool and it does not change, its servers are served in*)
(* whole rounds, from wherever callers with other pools or servers that    *)
(* have left it made current_index stand: after any number of calls there  *)
(* is a k such that every server got its weight k times in full and is at  *)
(* most one round ahead.                                                   *)
(***************************************************************************)
EvenDistribution ==
  /\ lb.algorithm \in {"round_robin", "weighted_round_robin"}
  /\ \A ip, other \in callers : Pool(CountryOf[ip]) = Pool(CountryOf[other])
  => \A ip \in callers : \E k \in 0 .. MaxCalls : \A s \in Pool(CountryOf[ip]) :
       picks[s] \in (k * Copies(lb.algorithm, s)) .. ((k + 1) * Copies(lb.algorithm, s))

-----------------------------------------------------------------------------
(* The same call written on lists, as load_balancer.py writes it, to check *)
(* the rank definitions against.                                           *)
ListOfHealthy(c) ==
  LET up          == SelectSeq(lb.backends, LAMBDA s : healthy[s])
      geo_matched == SelectSeq(up, LAMBDA s : s.country = c)
      neutral     == SelectSeq(up, LAMBDA s : s.country = None)
  IN  IF geo_matched # <<>> THEN geo_matched
      ELSE IF neutral # <<>> THEN neutral
      ELSE up

Expanded(list) ==
  LET RepeatOnto[n \in 0 .. Len(list)] ==
        IF n = 0 THEN <<>>
        ELSE RepeatOnto[n - 1] \o
               [k \in 1 .. Copies(lb.algorithm, list[n]) |-> list[n]]
  IN  RepeatOnto[Len(list)]

(***************************************************************************)
(* The server and the next index that the slots and ranks give are those   *)
(* of the list arithmetic of RoundRobinBalancer.get_server,                *)
(* WeightedRoundRobinBalancer.get_server and IPHashBalancer.get_server.    *)
(***************************************************************************)
SelectsLikeTheList ==
  \A ip \in callers :
    LET list   == Expanded(ListOfHealthy(CountryOf[ip]))
        index  == IF lb.algorithm = "ip_hash" THEN Hash[ip] ELSE lb.current_index
        server == Selected(lb, healthy, NoLoad, ip, CountryOf[ip])
    IN  IF list = <<>>
          THEN server = None
          ELSE /\ server = list[(index % Len(list)) + 1]
               /\ lb.algorithm # "ip_hash" =>
                    NextIndex(lb, healthy, CountryOf[ip]) = (index + 1) % Len(list)
=============================================================================
