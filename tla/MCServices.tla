----------------------------- MODULE MCServices -----------------------------
(* The instance of each service for the model checking of Services.        *)
EXTENDS Services, TLC

(* Two calls of the limiter at a time on the one node, one on the other.   *)
MCHandler == {<<"n1", 1>>, <<"n1", 2>>, <<"n2", 1>>}

(* In halves of a token: two tokens, and less than one; the address is of  *)
(* a country that has a rate of its own.                                   *)
MCSettings == {[capacity |-> 4, rate |-> 1], [capacity |-> 1, rate |-> 1]}
MCGeoLimits == "EU" :> [rate |-> 3]
MCCountryCode == [ip \in Address |-> "EU"]

(* Two clients of the hub are at one node, of which one sends two messages *)
(* and the other one, and breaks off; a client of the other node listens.  *)
MCNodeOf == [c \in Peer |-> IF c = "c3" THEN "n2" ELSE "n1"]
MCSends == [c \in Peer |-> CASE c = "c1" -> 2 [] c = "c2" -> 1 [] c = "c3" -> 0]

(* Connections of one address to two nodes, and commands to the first.     *)
MCVisitor == {<<"n1", "a", 1>>, <<"n1", "a", 2>>, <<"n2", "a", 1>>}
MCCommand == {<<"n1", "block", "a">>, <<"n1", "unblock", "a">>}
MCLocated == [ip \in Ip |-> "EU"]
MCFiles == {<<>>, <<"a">>}
=============================================================================
