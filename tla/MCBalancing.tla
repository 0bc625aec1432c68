----------------------------- MODULE MCBalancing -----------------------------
(* Pools and callers for the model checking of Balancing.                  *)
EXTENDS Balancing

Entry(name, weight, country) == [name |-> name, weight |-> weight, country |-> country]

(* Three untagged servers with weights 1, 2 and 0.                         *)
WeightedPool == <<Entry("b1", 1, None), Entry("b2", 2, None), Entry("b3", 0, None)>>

(* Three untagged servers of equal weight.                                 *)
PlainPool == <<Entry("b1", 1, None), Entry("b2", 1, None), Entry("b3", 1, None)>>

(* The pools of config.json: a tagged server and two untagged ones.        *)
TaggedPool == <<Entry("us1", 1, "US"), Entry("b2", 1, None), Entry("b3", 2, None)>>

Routing(algorithm, backends, addresses) ==
  [algorithm |-> algorithm, backends |-> backends, callers |-> addresses]

(* "us" is in the country of the tagged server, "near" and "far" in none.  *)
MCCountryOf == [ip \in Ip |-> IF ip = "us" THEN "US" ELSE "LOCAL"]
MCHash == [ip \in Ip |-> IF ip = "us" THEN 5 ELSE 10]

MCRoutings ==
  {Routing("round_robin", PlainPool, {"near", "far"}),
   Routing("round_robin", TaggedPool, {"us", "near"}),
   Routing("weighted_round_robin", WeightedPool, {"near"}),
   Routing("weighted_round_robin", TaggedPool, {"us", "near"}),
   Routing("ip_hash", TaggedPool, {"us", "near"})}
=============================================================================
