-------------------------- MODULE ConnectionsProofs --------------------------
(***************************************************************************)
(* Proofs about Connections for any number of connections, any requests,   *)
(* deployments and ways to stop.                                           *)
(*                                                                         *)
(* Two invariants.  ConnInv does not depend on which names of the code     *)
(* exist.  TaskInv assumes that time.time() does: without it a handler     *)
(* leaves its task behind (run unresolved_time).                           *)
(***************************************************************************)
EXTENDS Connections, FiniteSetTheorems, TLAPS

-----------------------------------------------------------------------------
(* The first inspection whose condition holds, and what it stands for.     *)
LEMMA DecisionIsFirst ==
  ASSUME NEW c \in Client
  PROVE  \E i \in 1 .. 10 :
           /\ Decision(c) = Inspections(c)[i]
           /\ Inspections(c)[i][1]
           /\ \A j \in 1 .. i - 1 : ~Inspections(c)[j][1]
<1> DEFINE steps == Inspections(c)
           Holds(i) == steps[i][1]
<1>1. DOMAIN steps = 1 .. 10
  BY DEF Inspections
<1>2. steps[10][1]
  BY DEF Inspections
<1> HIDE DEF steps
<1> DEFINE True == {i \in Nat : i \in 1 .. 10 /\ Holds(i)}
<1>3. 10 \in True
  BY <1>2
<1>4. PICK i \in True : \A j \in True : ~(<<j, i>> \in OpToRel(<, Nat))
  <2>1. IsWellFoundedOn(OpToRel(<, Nat), Nat)
    BY NatLessThanWellFounded
  <2>2. True \subseteq Nat
    OBVIOUS
  <2> HIDE DEF True
  <2> QED BY <1>3, <2>1, <2>2, WFMin
<1>5. i \in 1 .. 10 /\ Holds(i) /\ \A j \in 1 .. i - 1 : ~Holds(j)
  <2>1. ASSUME NEW j \in 1 .. i - 1, Holds(j) PROVE FALSE
    <3>1. j \in True
      BY <2>1
    <3>2. <<j, i>> \in OpToRel(<, Nat)
      BY <3>1 DEF OpToRel
    <3> QED BY <1>4, <3>1, <3>2
  <2> QED BY <2>1
<1> DEFINE First(k) == Holds(k) /\ \A j \in 1 .. k - 1 : ~Holds(j)
<1>6. \A k \in 1 .. 10 : First(k) => k = i
  <2> SUFFICES ASSUME NEW k \in 1 .. 10, First(k) PROVE k = i
    OBVIOUS
  <2>1. ~(i < k)
    BY <1>5
  <2>2. ~(k < i)
    BY <1>5
  <2> QED BY <2>1, <2>2, <1>5
<1>7. (CHOOSE k \in 1 .. 10 : First(k)) = i
  BY <1>5, <1>6
<1>8. Decision(c) = steps[i]
  <2>1. Decision(c) = steps[CHOOSE k \in DOMAIN steps : First(k)]
    BY DEF Decision, steps
  <2> QED BY <1>1, <1>7, <2>1
<1> QED
  BY <1>5, <1>8 DEF steps

(* What the inspections decide: their stages and reasons; a request that   *)
(* the WAF flagged and no honeypot takes goes no further, for that reason; *)
(* who goes further has no reason against him.                             *)
LEMMA DecisionType ==
  ASSUME NEW c \in Client
  PROVE  /\ Decision(c)[2] \in {"trapped", "answering", "intercepted", "subscribed",
                                "body", "lookup", "forwarding"}
         /\ Decision(c)[3] \in {"", "waf", "wasm", "unauthorized"}
         /\ (Flagged(c) /\ ~Rerouted(c)) <=> (Decision(c)[3] = "waf")
         /\ Decision(c)[2] \notin {"trapped", "answering"} => Decision(c)[3] = ""
<1>1. PICK i \in 1 .. 10 : /\ Decision(c) = Inspections(c)[i]
                           /\ Inspections(c)[i][1]
                           /\ \A j \in 1 .. i - 1 : ~Inspections(c)[j][1]
  BY DecisionIsFirst
<1>2. /\ Inspections(c)[1][2] = "trapped" /\ Inspections(c)[1][3] = "waf"
      /\ Inspections(c)[2][2] = "answering" /\ Inspections(c)[2][3] = "waf"
  BY DEF Inspections
<1>3. /\ Inspections(c)[1][1] => Flagged(c) /\ ~Rerouted(c)
      /\ Inspections(c)[2][1] <=> (Flagged(c) /\ ~Rerouted(c))
  BY Zenon DEF Inspections
<1>4. CASE i \in {1, 2}
  <2>1. Flagged(c) /\ ~Rerouted(c)
    BY <1>1, <1>3, <1>4
  <2>2. Decision(c)[2] \in {"trapped", "answering"} /\ Decision(c)[3] = "waf"
    BY <1>1, <1>2, <1>4
  <2> QED BY <2>1, <2>2
<1>5. CASE i \in 3 .. 10
  <2>1. ~Inspections(c)[2][1]
    BY <1>1, <1>5
  <2>2. ~(Flagged(c) /\ ~Rerouted(c))
    BY <1>3, <2>1
  <2> DEFINE Further(k) ==
        /\ Inspections(c)[k][2] \in {"answering", "intercepted", "subscribed",
                                     "body", "lookup", "forwarding"}
        /\ Inspections(c)[k][3] \in {"", "wasm", "unauthorized"}
        /\ Inspections(c)[k][2] # "answering" => Inspections(c)[k][3] = ""
  <2>3. /\ Further(3) /\ Further(4) /\ Further(5) /\ Further(6)
        /\ Further(7) /\ Further(8) /\ Further(9) /\ Further(10)
    BY DEF Inspections
  <2>4. Further(i)
    <3> HIDE DEF Further
    <3> QED BY <1>5, <2>3
  <2>5. /\ Decision(c)[2] \in {"answering", "intercepted", "subscribed",
                               "body", "lookup", "forwarding"}
        /\ Decision(c)[3] \in {"", "wasm", "unauthorized"}
        /\ Decision(c)[2] # "answering" => Decision(c)[3] = ""
    BY <1>1, <2>4
  <2>6. Decision(c)[3] # "waf"
    BY <2>5
  <2> QED BY <2>2, <2>5, <2>6
<1>6. i \in {1, 2} \/ i \in 3 .. 10
  OBVIOUS
<1> QED BY <1>4, <1>5, <1>6

-----------------------------------------------------------------------------
(* Nothing has turned a connection away before its handler answers it.     *)
Uninspected == {"none", "accepted", "resolving", "limiting", "faulting", "reading",
                "plugins"}
Undecided   == {"none", "accepted", "resolving", "limiting", "faulting", "reading",
                "plugins", "body"}

(* What holds of each connection: a reason only once it is turned away;    *)
(* what is flagged is isolated, and no GraphQL query; a task is in         *)
(* active_tasks, and waited for, only once it has begun; when gather has   *)
(* returned, its handler is over.                                          *)
ConnOK(c) ==
  /\ pc[c] \in Undecided => refusal[c] = ""
  /\ Flagged(c) /\ ~Rerouted(c)
       => /\ pc[c] \notin {"forwarding", "body", "lookup", "intercepted", "subscribed"}
          /\ refusal[c] # "graphql"
  /\ c \in active_tasks \cup drained => pc[c] \notin {"none", "accepted"}
  /\ proxy = "stopping" /\ ~expired /\ c \in drained
       => pc[c] \notin Running \cup {"accepted"}

(* The connections that count as dropped, and the requests that a honeypot *)
(* was meant to take and that the WAF has seen: counted lies between them. *)
Drops    == {"blocklist", "waf", "unauthorized"}
Dropped  == {c \in Client : refusal[c] \in Drops}
SeenOnly == {c \in Client : Rerouted(c) /\ pc[c] \notin Uninspected}
CountInv ==
  metrics.waf_blocks_total \in Cardinality(Dropped) .. Cardinality(Dropped) + Cardinality(SeenOnly)

ConnInv ==
  /\ TypeOK
  /\ \A c \in Client : ConnOK(c)
  /\ CountInv

LEMMA SetsFinite ==
  /\ IsFiniteSet(Dropped) /\ Cardinality(Dropped) \in Nat
  /\ IsFiniteSet(SeenOnly) /\ Cardinality(SeenOnly) \in Nat
<1>1. Dropped \subseteq Client /\ SeenOnly \subseteq Client
  BY DEF Dropped, SeenOnly
<1>2. IsFiniteSet(Dropped) /\ IsFiniteSet(SeenOnly)
  BY <1>1, FS_Subset, ConnectionsAssumption
<1> QED BY <1>2, FS_CardinalityType

LEMMA InitConnInv == Init => ConnInv
<1> SUFFICES ASSUME Init PROVE ConnInv
  OBVIOUS
<1>1. TypeOK
  BY DEF Init, TypeOK
<1>2. ASSUME NEW c \in Client PROVE ConnOK(c)
  BY DEF Init, ConnOK
<1>3. Dropped = {} /\ SeenOnly = {}
  BY DEF Init, Dropped, Drops, SeenOnly, Uninspected
<1>4. CountInv
  <2>1. Cardinality(Dropped) = 0 /\ Cardinality(SeenOnly) = 0
    BY <1>3, FS_EmptySet
  <2>2. metrics.waf_blocks_total = 0
    BY DEF Init
  <2> QED BY <2>1, <2>2 DEF CountInv
<1> QED BY <1>1, <1>2, <1>4 DEF ConnInv

(* A step of one handler: the others, and the proxy, stay as they are, and *)
(* a request is not inspected again.                                       *)
OnlyHandler(c) ==
  /\ UNCHANGED <<features, proxy, expired, drained>>
  /\ active_tasks' \ {c} = active_tasks \ {c}
  /\ \A d \in Client \ {c} :
       pc'[d] = pc[d] /\ refusal'[d] = refusal[d] /\ request'[d] = request[d]
  /\ pc[c] \notin Uninspected => pc'[c] \notin Uninspected /\ request'[c] = request[c]

(* The step counts the connection if it is the one that drops it; or it    *)
(* counts it n times more than that.                                       *)
CountsOnce(c) ==
  \/ /\ refusal'[c] \in Drops <=> refusal[c] \in Drops
     /\ metrics'.waf_blocks_total = metrics.waf_blocks_total
  \/ /\ refusal[c] \notin Drops /\ refusal'[c] \in Drops
     /\ metrics'.waf_blocks_total = metrics.waf_blocks_total + 1
Counts(c, n) ==
  \/ /\ refusal'[c] \in Drops <=> refusal[c] \in Drops
     /\ metrics'.waf_blocks_total = metrics.waf_blocks_total + n
  \/ /\ refusal[c] \notin Drops /\ refusal'[c] \in Drops
     /\ metrics'.waf_blocks_total = metrics.waf_blocks_total + 1 + n

(* The inspections have seen a request that a honeypot was meant to take.  *)
SeesReroute(c) ==
  /\ Rerouted(c)' /\ pc[c] \in Uninspected /\ pc'[c] \notin Uninspected
  /\ Counts(c, 1)

LEMMA CountKept ==
  ASSUME ConnInv, NEW c \in Client, OnlyHandler(c), CountsOnce(c) \/ SeesReroute(c)
  PROVE  CountInv'
<1>1. /\ IsFiniteSet(Dropped) /\ Cardinality(Dropped) \in Nat
      /\ Cardinality(SeenOnly) \in Nat /\ IsFiniteSet(SeenOnly)
      /\ Cardinality(SeenOnly') \in Nat /\ IsFiniteSet(SeenOnly')
  <2>1. SeenOnly' \subseteq Client
    BY DEF SeenOnly
  <2>2. IsFiniteSet(SeenOnly')
    BY <2>1, FS_Subset, ConnectionsAssumption
  <2> QED BY <2>2, FS_CardinalityType, SetsFinite
<1>2. SeenOnly \subseteq SeenOnly'
  BY DEF SeenOnly, OnlyHandler, Rerouted, Flagged
<1>3. PICK n \in {0, 1} : /\ Counts(c, n)
                           /\ Cardinality(SeenOnly) + n <= Cardinality(SeenOnly')
  <2>1. CASE CountsOnce(c)
    <3>1. Cardinality(SeenOnly) <= Cardinality(SeenOnly')
      BY <1>1, <1>2, FS_Subset
    <3>2. Counts(c, 0)
      <4>1. metrics.waf_blocks_total \in Nat
        BY DEF ConnInv, TypeOK
      <4> QED BY <2>1, <4>1 DEF CountsOnce, Counts
    <3> QED BY <1>1, <3>1, <3>2
  <2>2. CASE SeesReroute(c)
    <3>1. c \notin SeenOnly /\ SeenOnly \cup {c} \subseteq SeenOnly'
      BY <1>2, <2>2 DEF SeesReroute, SeenOnly
    <3>2. Cardinality(SeenOnly \cup {c}) = Cardinality(SeenOnly) + 1
      BY <1>1, <3>1, FS_AddElement
    <3>3. Cardinality(SeenOnly \cup {c}) <= Cardinality(SeenOnly')
      BY <1>1, <3>1, FS_Subset
    <3> QED BY <2>2, <3>2, <3>3 DEF SeesReroute
  <2> QED BY <2>1, <2>2
<1>4. metrics.waf_blocks_total
        \in Cardinality(Dropped) .. Cardinality(Dropped) + Cardinality(SeenOnly)
  BY DEF ConnInv, CountInv
<1>5. CASE /\ refusal'[c] \in Drops <=> refusal[c] \in Drops
           /\ metrics'.waf_blocks_total = metrics.waf_blocks_total + n
  <2>1. Dropped' = Dropped
    BY <1>5 DEF OnlyHandler, Dropped
  <2> QED BY <1>1, <1>3, <1>4, <1>5, <2>1 DEF CountInv
<1>6. CASE /\ refusal[c] \notin Drops /\ refusal'[c] \in Drops
           /\ metrics'.waf_blocks_total = metrics.waf_blocks_total + 1 + n
  <2>1. Dropped' = Dropped \cup {c} /\ c \notin Dropped
    BY <1>6 DEF OnlyHandler, Dropped
  <2>2. Cardinality(Dropped') = Cardinality(Dropped) + 1
    BY <1>1, <2>1, FS_AddElement
  <2> QED BY <1>1, <1>3, <1>4, <1>6, <2>2 DEF CountInv
<1> QED BY <1>3, <1>5, <1>6 DEF Counts

LEMMA HandlerStep ==
  ASSUME ConnInv, NEW c \in Client, TypeOK', OnlyHandler(c), ConnOK(c)',
         CountsOnce(c) \/ SeesReroute(c)
  PROVE  ConnInv'
<1>1. ASSUME NEW d \in Client \ {c} PROVE ConnOK(d)'
  BY DEF OnlyHandler, ConnInv, ConnOK, Flagged, Rerouted
<1>2. CountInv'
  BY CountKept
<1> QED BY <1>1, <1>2 DEF ConnInv

(* What a running handler may move on to.                                  *)
LEMMA MovesOn ==
  ASSUME ConnInv, NEW c \in Client, pc[c] \in Running \cup {"accepted"},
         UNCHANGED <<features, request, proxy, expired, drained>>,
         pc'[c] \notin {"none", "accepted"}, pc'[c] \in Undecided => refusal'[c] = "",
         \/ pc'[c] \notin {"forwarding", "body", "lookup", "intercepted", "subscribed"}
            /\ refusal'[c] # "graphql"
         \/ ~(Flagged(c) /\ ~Rerouted(c))
  PROVE  ConnOK(c)'
<1>1. ~(proxy = "stopping" /\ ~expired /\ c \in drained)
  BY DEF ConnInv, ConnOK
<1> QED BY <1>1 DEF ConnOK, Flagged, Rerouted

(* What a counter is after an addition.                                    *)
LEMMA CountedType ==
  ASSUME TypeOK, NEW n \in Nat,
         NEW counter \in {"requests_total", "waf_blocks_total", "rate_limit_blocks_total",
                          "cache_hits_total"},
         Counted(counter, n)
  PROVE  /\ metrics' \in [requests_total : Nat, waf_blocks_total : Nat,
                          rate_limit_blocks_total : Nat, cache_hits_total : Nat]
         /\ counter # "waf_blocks_total"
              => metrics'.waf_blocks_total = metrics.waf_blocks_total
         /\ counter = "waf_blocks_total"
              => metrics'.waf_blocks_total = metrics.waf_blocks_total + n
<1>1. metrics' = [metrics EXCEPT ![counter] = metrics[counter] + n]
  BY DEF Counted
<1>2. metrics \in [requests_total : Nat, waf_blocks_total : Nat,
                   rate_limit_blocks_total : Nat, cache_hits_total : Nat]
  BY DEF TypeOK
<1>3. CASE counter = "requests_total"
  BY <1>1, <1>2, <1>3
<1>4. CASE counter = "waf_blocks_total"
  BY <1>1, <1>2, <1>4
<1>5. CASE counter = "rate_limit_blocks_total"
  BY <1>1, <1>2, <1>5
<1>6. CASE counter = "cache_hits_total"
  BY <1>1, <1>2, <1>6
<1> QED BY <1>3, <1>4, <1>5, <1>6

(* The steps of a handler, and of its client.                              *)
LEMMA AcceptInv ==
  ASSUME ConnInv, NEW c \in Client, Accept(c)
  PROVE  ConnInv'
<1> USE DEF Accept, shutdown
<1>1. TypeOK'
  <2>1. PICK r \in Requests[c] : request' = [request EXCEPT ![c] = r]
    OBVIOUS
  <2>2. r \in SUBSET Traits
    BY ConnectionsAssumption
  <2> QED BY <2>1, <2>2 DEF ConnInv, TypeOK
<1>2. OnlyHandler(c)
  BY DEF ConnInv, TypeOK, OnlyHandler, Uninspected
<1>3. ConnOK(c)'
  BY DEF ConnInv, TypeOK, ConnOK, Undecided, Flagged, Rerouted, Running
<1>4. CountsOnce(c)
  BY DEF ConnInv, ConnOK, Undecided, TypeOK, CountsOnce, Drops
<1> QED BY <1>1, <1>2, <1>3, <1>4, HandlerStep

LEMMA BeginInv ==
  ASSUME ConnInv, NEW c \in Client, Begin(c)
  PROVE  ConnInv'
<1> USE DEF Begin, shutdown, Close
<1>1. TypeOK'
  <2>1. /\ pc' \in [Client -> {"none", "accepted", "trapped"} \cup Running \cup Over]
        /\ refusal' \in [Client -> {"", "standby", "blocklist", "limit", "fault", "plugin",
                                    "waf", "wasm", "unauthorized", "graphql"}]
    BY DEF ConnInv, TypeOK, Running, Over
  <2>2. active_tasks' \subseteq active_tasks \cup {c}
    OBVIOUS
  <2>3. open' = open \/ open' = [open EXCEPT ![c] = FALSE]
    OBVIOUS
  <2> QED BY <2>1, <2>2, <2>3 DEF ConnInv, TypeOK
<1>2. OnlyHandler(c)
  BY DEF ConnInv, TypeOK, OnlyHandler, Uninspected
<1>3. ConnOK(c)'
  <2>1. pc[c] \in Running \cup {"accepted"} /\ UNCHANGED <<features, request, proxy, expired, drained>>
    BY DEF Running
  <2>2. pc'[c] \in {"ended", "raised", "answering", "resolving"}
    BY DEF ConnInv, TypeOK
  <2>3. pc'[c] = "resolving" => refusal'[c] = ""
    BY DEF ConnInv, TypeOK
  <2>4. pc'[c] \in Undecided => refusal'[c] = ""
    BY <2>2, <2>3 DEF Undecided
  <2>5. refusal'[c] # "graphql"
    BY DEF ConnInv, TypeOK, ConnOK, Undecided
  <2> QED BY <2>1, <2>2, <2>4, <2>5, MovesOn
<1>4. CountsOnce(c)
  BY DEF ConnInv, ConnOK, Undecided, TypeOK, CountsOnce, Drops
<1> QED BY <1>1, <1>2, <1>3, <1>4, HandlerStep

LEMMA ResolveInv ==
  ASSUME ConnInv, NEW c \in Client, Resolve(c)
  PROVE  ConnInv'
<1>1. CASE /\ "blocklisted" \in request[c] /\ Counted("waf_blocks_total", 1)
           /\ refusal' = [refusal EXCEPT ![c] = "blocklist"] /\ Close(c)
  <2>1. /\ metrics' \in [requests_total : Nat, waf_blocks_total : Nat,
                         rate_limit_blocks_total : Nat, cache_hits_total : Nat]
        /\ metrics'.waf_blocks_total = metrics.waf_blocks_total + 1
    BY <1>1, CountedType DEF ConnInv
  <2>2. TypeOK'
    BY <1>1, <2>1 DEF Resolve, Close, shutdown, ConnInv, TypeOK, Over
  <2>3. OnlyHandler(c) /\ ConnOK(c)' /\ CountsOnce(c)
    BY <1>1, <2>1 DEF Resolve, Close, shutdown, ConnInv, TypeOK, OnlyHandler, Uninspected, ConnOK,
                      Undecided, Running, CountsOnce, Drops
  <2> QED BY <2>2, <2>3, HandlerStep
<1>2. CASE /\ Counted("requests_total", 1) /\ UNCHANGED refusal
           /\ GoTo(c, "limiting") \/ Raise(c)
  <2>1. /\ metrics' \in [requests_total : Nat, waf_blocks_total : Nat,
                         rate_limit_blocks_total : Nat, cache_hits_total : Nat]
        /\ metrics'.waf_blocks_total = metrics.waf_blocks_total
    BY <1>2, CountedType DEF ConnInv
  <2>2. TypeOK'
    BY <1>2, <2>1 DEF Resolve, GoTo, Raise, shutdown, ConnInv, TypeOK, Running, Over
  <2>3. OnlyHandler(c) /\ CountsOnce(c)
    BY <1>2, <2>1 DEF Resolve, GoTo, Raise, shutdown, ConnInv, TypeOK, OnlyHandler, Uninspected, CountsOnce
  <2>4. ConnOK(c)'
    BY <1>2 DEF Resolve, GoTo, Raise, shutdown, ConnInv, TypeOK, ConnOK, Undecided, Flagged,
                Rerouted, Running
  <2> QED BY <2>2, <2>3, <2>4, HandlerStep
<1> QED BY <1>1, <1>2 DEF Resolve

LEMMA LimitInv ==
  ASSUME ConnInv, NEW c \in Client, Limit(c)
  PROVE  ConnInv'
<1>1. CASE /\ GoTo(c, "faulting") \/ Raise(c)
           /\ UNCHANGED <<refusal, metrics>>
  <2>1. TypeOK'
    BY <1>1 DEF Limit, GoTo, Raise, shutdown, ConnInv, TypeOK, Running, Over
  <2>2. OnlyHandler(c) /\ ConnOK(c)' /\ CountsOnce(c)
    BY <1>1 DEF Limit, GoTo, Raise, shutdown, ConnInv, TypeOK, OnlyHandler, Uninspected, ConnOK,
                Undecided, Flagged, Rerouted, Running, CountsOnce
  <2> QED BY <2>1, <2>2, HandlerStep
<1>2. CASE /\ Counted("rate_limit_blocks_total", 1)
           /\ refusal' = [refusal EXCEPT ![c] = "limit"]
           /\ HandOver(c) \/ GoTo(c, "answering")
  <2>1. /\ metrics' \in [requests_total : Nat, waf_blocks_total : Nat,
                         rate_limit_blocks_total : Nat, cache_hits_total : Nat]
        /\ metrics'.waf_blocks_total = metrics.waf_blocks_total
    BY <1>2, CountedType DEF ConnInv
  <2>2. TypeOK'
    BY <1>2, <2>1 DEF Limit, GoTo, HandOver, shutdown, ConnInv, TypeOK, Running
  <2>3. OnlyHandler(c)
    BY <1>2 DEF Limit, GoTo, HandOver, shutdown, ConnInv, TypeOK, OnlyHandler, Uninspected
  <2>4. ConnOK(c)'
    BY <1>2 DEF Limit, GoTo, HandOver, shutdown, ConnInv, TypeOK, ConnOK, Undecided, Running
  <2>5. CountsOnce(c)
    BY <1>2, <2>1 DEF Limit, ConnInv, TypeOK, ConnOK, Undecided, CountsOnce, Drops
  <2> QED BY <2>2, <2>3, <2>4, <2>5, HandlerStep
<1> QED BY <1>1, <1>2 DEF Limit

LEMMA FaultInv ==
  ASSUME ConnInv, NEW c \in Client, Fault(c)
  PROVE  ConnInv'
<1> USE DEF Fault, shutdown, GoTo, Close, Refuse
<1>1. TypeOK'
  BY DEF ConnInv, TypeOK, Running, Over
<1>2. OnlyHandler(c)
  BY DEF ConnInv, TypeOK, OnlyHandler, Uninspected
<1>3. ConnOK(c)'
  <2>1. pc[c] \in Running \cup {"accepted"} /\ UNCHANGED <<features, request, proxy, expired, drained>>
    BY DEF Running
  <2>2. pc'[c] \in {"reading", "ended", "answering"}
    BY DEF ConnInv, TypeOK
  <2>3. pc'[c] \in Undecided => refusal'[c] = ""
    BY DEF ConnInv, TypeOK, ConnOK, Undecided
  <2>4. refusal'[c] # "graphql"
    BY DEF ConnInv, TypeOK, ConnOK, Undecided
  <2> QED BY <2>1, <2>2, <2>3, <2>4, MovesOn
<1>4. CountsOnce(c)
  BY DEF ConnInv, ConnOK, Undecided, TypeOK, CountsOnce, Drops
<1> QED BY <1>1, <1>2, <1>3, <1>4, HandlerStep

LEMMA ReadHeadInv ==
  ASSUME ConnInv, NEW c \in Client, ReadHead(c)
  PROVE  ConnInv'
<1> USE DEF ReadHead, shutdown, GoTo, Close
<1>1. TypeOK'
  BY DEF ConnInv, TypeOK, Running, Over
<1>2. OnlyHandler(c)
  BY DEF ConnInv, TypeOK, OnlyHandler, Uninspected
<1>3. ConnOK(c)'
  <2>1. pc[c] \in Running \cup {"accepted"} /\ UNCHANGED <<features, request, proxy, expired, drained>>
    BY DEF Running
  <2>2. pc'[c] \in {"plugins", "ended"}
    BY DEF ConnInv, TypeOK
  <2>3. pc'[c] \in Undecided => refusal'[c] = ""
    BY DEF ConnInv, TypeOK, ConnOK, Undecided
  <2>4. refusal'[c] # "graphql"
    BY DEF ConnInv, TypeOK, ConnOK, Undecided
  <2> QED BY <2>1, <2>2, <2>3, <2>4, MovesOn
<1>4. CountsOnce(c)
  BY DEF ConnInv, ConnOK, Undecided, TypeOK, CountsOnce, Drops
<1> QED BY <1>1, <1>2, <1>3, <1>4, HandlerStep

LEMMA InspectInv ==
  ASSUME ConnInv, NEW c \in Client, Inspect(c)
  PROVE  ConnInv'
<1>1. CASE /\ refusal' = [refusal EXCEPT ![c] = "plugin"] /\ UNCHANGED metrics
           /\ Close(c) \/ GoTo(c, "answering")
  <2>1. TypeOK'
    BY <1>1 DEF Inspect, GoTo, Close, shutdown, ConnInv, TypeOK, Running, Over
  <2>2. OnlyHandler(c)
    BY <1>1 DEF Inspect, GoTo, Close, shutdown, ConnInv, TypeOK, OnlyHandler, Uninspected
  <2>3. pc[c] = "plugins" /\ pc'[c] \in {"ended", "answering"} /\ refusal'[c] = "plugin"
    BY <1>1 DEF Inspect, GoTo, Close, ConnInv, TypeOK
  <2>4. UNCHANGED <<features, request, proxy, expired, drained>>
    BY DEF Inspect, shutdown
  <2>5. ConnOK(c)'
    BY <2>3, <2>4, MovesOn DEF Running, Undecided
  <2>6. CountsOnce(c)
    <3>1. refusal[c] = ""
      BY <2>3 DEF ConnInv, ConnOK, Undecided
    <3> QED BY <1>1, <2>3, <3>1 DEF CountsOnce, Drops
  <2> QED BY <2>1, <2>2, <2>5, <2>6, HandlerStep
<1>2. CASE /\ Counted("waf_blocks_total", WafHits(c))
           /\ refusal' = [refusal EXCEPT ![c] = Decision(c)[3]]
           /\ IF Decision(c)[2] = "trapped" THEN HandOver(c) ELSE GoTo(c, Decision(c)[2])
  <2> DEFINE stage == Decision(c)[2]
             reason == Decision(c)[3]
  <2>1. /\ stage \in {"trapped", "answering", "intercepted", "subscribed",
                      "body", "lookup", "forwarding"}
        /\ reason \in {"", "waf", "wasm", "unauthorized"}
        /\ (Flagged(c) /\ ~Rerouted(c)) <=> (reason = "waf")
        /\ stage \notin {"trapped", "answering"} => reason = ""
    BY DecisionType
  <2>2. WafHits(c) \in Nat
    BY DEF WafHits
  <2>3. /\ metrics' \in [requests_total : Nat, waf_blocks_total : Nat,
                         rate_limit_blocks_total : Nat, cache_hits_total : Nat]
        /\ metrics'.waf_blocks_total = metrics.waf_blocks_total + WafHits(c)
    BY <1>2, <2>2, CountedType DEF ConnInv
  <2>4. WafHits(c) = (IF reason \in Drops THEN 1 ELSE 0) + (IF Rerouted(c) THEN 1 ELSE 0)
    <3>1. Flagged(c) <=> (reason = "waf" \/ Rerouted(c))
      BY <2>1 DEF Rerouted
    <3>2. Rerouted(c) => reason # "waf"
      BY <2>1
    <3> HIDE DEF reason
    <3>3. WafHits(c) = (IF Flagged(c) THEN 1 ELSE 0) + (IF reason = "unauthorized" THEN 1 ELSE 0)
      BY DEF WafHits, reason
    <3>4. CASE reason = "waf"
      BY <3>1, <3>2, <3>3, <3>4 DEF Drops
    <3>5. CASE reason = "unauthorized"
      BY <3>1, <3>3, <3>5 DEF Drops
    <3>6. CASE reason \in {"", "wasm"}
      <4>1. reason # "waf" /\ reason # "unauthorized" /\ reason \notin Drops
        BY <3>6 DEF Drops
      <4> QED BY <3>1, <3>3, <4>1
    <3> QED BY <2>1, <3>4, <3>5, <3>6
  <2> HIDE DEF stage, reason
  <2>5. refusal'[c] = reason /\ pc'[c] = stage
    BY <1>2 DEF GoTo, HandOver, ConnInv, TypeOK, stage, reason
  <2>6. TypeOK'
    <3>1. /\ pc' = [pc EXCEPT ![c] = stage] /\ refusal' = [refusal EXCEPT ![c] = reason]
          /\ active_tasks' \in {active_tasks, active_tasks \ {c}} /\ UNCHANGED open
      BY <1>2 DEF GoTo, HandOver, stage, reason
    <3>2. UNCHANGED <<features, proxy, expired, drained, request, gone>>
      BY DEF Inspect, shutdown
    <3>3. stage \in {"trapped"} \cup Running /\ reason \in {"", "waf", "wasm", "unauthorized"}
      BY <2>1 DEF Running
    <3> QED BY <2>3, <3>1, <3>2, <3>3 DEF ConnInv, TypeOK
  <2>7. OnlyHandler(c)
    BY <1>2 DEF Inspect, GoTo, HandOver, shutdown, ConnInv, TypeOK, OnlyHandler, Uninspected
  <2>8. ConnOK(c)'
    <3>1. ~(Flagged(c) /\ ~Rerouted(c))' \/ stage \in {"trapped", "answering"}
      BY <2>1 DEF Inspect, Flagged, Rerouted
    <3>2. stage \in Undecided => reason = ""
      BY <2>1 DEF Undecided
    <3>3. stage \notin {"none", "accepted"}
      BY <2>1
    <3>4. ~(proxy = "stopping" /\ ~expired /\ c \in drained)'
      BY DEF Inspect, shutdown, ConnInv, ConnOK, Running
    <3>5. reason # "graphql"
      BY <2>1
    <3>6. refusal'[c] # "graphql"
      BY <2>5, <3>5
    <3>7. pc'[c] \in Undecided => refusal'[c] = ""
      BY <2>5, <3>2
    <3>8. (Flagged(c) /\ ~Rerouted(c))'
            => pc'[c] \notin {"forwarding", "body", "lookup", "intercepted", "subscribed"}
      BY <2>5, <3>1
    <3> QED BY <2>5, <3>3, <3>4, <3>6, <3>7, <3>8 DEF ConnOK
  <2>9. CountsOnce(c) \/ SeesReroute(c)
    <3>1. refusal[c] \notin Drops /\ pc[c] \in Uninspected
      BY DEF ConnInv, ConnOK, Inspect, Undecided, Uninspected, Drops
    <3>2. metrics.waf_blocks_total \in Nat
      BY DEF ConnInv, TypeOK
    <3>3. CASE ~Rerouted(c)
      BY <2>3, <2>4, <2>5, <3>1, <3>2, <3>3 DEF CountsOnce
    <3>4. CASE Rerouted(c)
      <4>1. Counts(c, 1)
        BY <2>3, <2>4, <2>5, <3>1, <3>2, <3>4 DEF Counts
      <4>2. Rerouted(c)' /\ pc'[c] \notin Uninspected
        BY <2>1, <2>5, <3>4 DEF Inspect, Rerouted, Flagged, Uninspected
      <4> QED BY <3>1, <4>1, <4>2 DEF SeesReroute
    <3> QED BY <3>3, <3>4
  <2> QED BY <2>6, <2>7, <2>8, <2>9, HandlerStep
<1> QED BY <1>1, <1>2 DEF Inspect, Refuse

LEMMA AfterChecksType ==
  ASSUME NEW c \in Client
  PROVE  AfterChecks(c) \in {"lookup", "forwarding"}
BY DEF AfterChecks

LEMMA CheckBodyInv ==
  ASSUME ConnInv, NEW c \in Client, CheckBody(c)
  PROVE  ConnInv'
<1> USE DEF CheckBody, shutdown, GoTo, Refuse
<1>1. /\ pc[c] = "body" /\ refusal[c] = "" /\ ~(Flagged(c) /\ ~Rerouted(c))
      /\ UNCHANGED <<features, request, proxy, expired, drained, metrics, active_tasks>>
  BY DEF ConnInv, ConnOK, Undecided
<1>2. PICK stage \in {"answering", "lookup", "forwarding"}, reason \in {"", "graphql"} :
        pc' = [pc EXCEPT ![c] = stage] /\ refusal' = [refusal EXCEPT ![c] = reason]
  <2>1. refusal = [refusal EXCEPT ![c] = ""]
    BY <1>1 DEF ConnInv, TypeOK
  <2> QED BY <2>1, AfterChecksType
<1>3. pc'[c] = stage /\ refusal'[c] = reason
  BY <1>2 DEF ConnInv, TypeOK
<1>4. TypeOK'
  BY <1>2 DEF ConnInv, TypeOK, Running
<1>5. OnlyHandler(c)
  BY <1>1, <1>2, <1>3 DEF ConnInv, TypeOK, OnlyHandler, Uninspected
<1>6. ConnOK(c)'
  BY <1>1, <1>3, MovesOn DEF Undecided, Running
<1>7. CountsOnce(c)
  BY <1>1, <1>3 DEF CountsOnce, Drops
<1> QED BY <1>4, <1>5, <1>6, <1>7, HandlerStep

LEMMA LookupInv ==
  ASSUME ConnInv, NEW c \in Client, Lookup(c)
  PROVE  ConnInv'
<1>1. /\ metrics' \in [requests_total : Nat, waf_blocks_total : Nat,
                       rate_limit_blocks_total : Nat, cache_hits_total : Nat]
      /\ metrics'.waf_blocks_total = metrics.waf_blocks_total
  <2>1. CASE Counted("cache_hits_total", 1)
    BY <2>1, CountedType DEF ConnInv
  <2>2. CASE UNCHANGED metrics
    BY <2>2 DEF ConnInv, TypeOK
  <2> QED BY <2>1, <2>2 DEF Lookup
<1>2. TypeOK'
  BY <1>1 DEF Lookup, GoTo, Raise, shutdown, ConnInv, TypeOK, Running, Over
<1>3. OnlyHandler(c)
  BY DEF Lookup, GoTo, Raise, shutdown, ConnInv, TypeOK, OnlyHandler, Uninspected
<1>4. CountsOnce(c)
  BY <1>1 DEF Lookup, CountsOnce
<1>5. ConnOK(c)'
  <2>1. pc[c] \in Running \cup {"accepted"} /\ ~(Flagged(c) /\ ~Rerouted(c))
    BY DEF Lookup, ConnInv, ConnOK, Running
  <2>2. UNCHANGED <<features, request, proxy, expired, drained>>
    BY DEF Lookup, shutdown
  <2>3. pc'[c] \in {"answering", "forwarding", "raised"}
    BY DEF Lookup, GoTo, Raise, ConnInv, TypeOK
  <2> QED BY <2>1, <2>2, <2>3, MovesOn DEF Undecided
<1> QED BY <1>2, <1>3, <1>4, <1>5, HandlerStep

LEMMA AnswerInv ==
  ASSUME ConnInv, NEW c \in Client, Answer(c)
  PROVE  ConnInv'
<1>1. /\ pc[c] = "answering"
      /\ UNCHANGED <<features, shutdown, request, gone, metrics>>
  BY DEF Answer
<1>2. CASE /\ pc' = [pc EXCEPT ![c] = AfterChecks(c)] /\ refusal[c] = "graphql"
           /\ refusal' = [refusal EXCEPT ![c] = ""]
           /\ open' = [open EXCEPT ![c] = FALSE] /\ UNCHANGED active_tasks
  <2>1. pc'[c] \in {"lookup", "forwarding"} /\ refusal'[c] = ""
    BY <1>2, AfterChecksType DEF ConnInv, TypeOK
  <2>2. ~(Flagged(c) /\ ~Rerouted(c))
    BY <1>2 DEF ConnInv, ConnOK
  <2>3. TypeOK'
    BY <1>1, <1>2, AfterChecksType DEF ConnInv, TypeOK, shutdown, Running
  <2>4. OnlyHandler(c)
    BY <1>1, <1>2, <2>1 DEF ConnInv, TypeOK, shutdown, OnlyHandler, Uninspected
  <2>5. ConnOK(c)'
    BY <1>1, <2>1, <2>2, MovesOn DEF shutdown, Undecided, Running
  <2>6. CountsOnce(c)
    BY <1>1, <1>2, <2>1 DEF CountsOnce, Drops
  <2> QED BY <2>3, <2>4, <2>5, <2>6, HandlerStep
<1>3. CASE /\ Close(c) \/ ( /\ pc' = [pc EXCEPT ![c] = "raised"]
                           /\ active_tasks' = active_tasks \ {c}
                           /\ open' = [open EXCEPT ![c] = FALSE])
           /\ UNCHANGED refusal
  <2>1. /\ pc' \in {[pc EXCEPT ![c] = "ended"], [pc EXCEPT ![c] = "raised"]}
        /\ active_tasks' = active_tasks \ {c} /\ open' = [open EXCEPT ![c] = FALSE]
    BY <1>3 DEF Close
  <2>2. pc'[c] \in {"ended", "raised"} /\ c \notin active_tasks'
    BY <2>1 DEF ConnInv, TypeOK
  <2>3. TypeOK'
    BY <1>1, <1>3, <2>1 DEF ConnInv, TypeOK, shutdown, Over
  <2>4. OnlyHandler(c)
    BY <1>1, <1>3, <2>1, <2>2 DEF ConnInv, TypeOK, shutdown, OnlyHandler, Uninspected
  <2>5. ConnOK(c)'
    BY <1>1, <1>3, <2>2
       DEF ConnInv, ConnOK, shutdown, Undecided, Running, Flagged, Rerouted
  <2>6. CountsOnce(c)
    BY <1>1, <1>3 DEF CountsOnce
  <2> QED BY <2>3, <2>4, <2>5, <2>6, HandlerStep
<1> QED BY <1>2, <1>3 DEF Answer

LEMMA FinishInv ==
  ASSUME ConnInv, NEW c \in Client, Finish(c)
  PROVE  ConnInv'
<1> USE DEF Finish, shutdown
<1>1. /\ pc' \in {[pc EXCEPT ![c] = "ended"], [pc EXCEPT ![c] = "raised"]}
      /\ active_tasks' = active_tasks \ {c} /\ open' \in {open, [open EXCEPT ![c] = FALSE]}
  BY DEF Close, Raise
<1>2. pc'[c] \in {"ended", "raised"} /\ c \notin active_tasks'
  BY <1>1 DEF ConnInv, TypeOK
<1>3. TypeOK'
  BY <1>1 DEF ConnInv, TypeOK, Over
<1>4. OnlyHandler(c)
  BY <1>1, <1>2 DEF ConnInv, TypeOK, OnlyHandler, Uninspected
<1>5. ConnOK(c)'
  BY <1>2 DEF ConnInv, ConnOK, Undecided, Running, Flagged, Rerouted
<1>6. CountsOnce(c)
  BY DEF CountsOnce
<1> QED BY <1>3, <1>4, <1>5, <1>6, HandlerStep

LEMMA ReleaseInv ==
  ASSUME ConnInv, NEW c \in Client, Release(c)
  PROVE  ConnInv'
<1> USE DEF Release, shutdown
<1>1. TypeOK'
  BY DEF ConnInv, TypeOK, Running, Over
<1>2. OnlyHandler(c)
  BY DEF ConnInv, TypeOK, OnlyHandler, Uninspected
<1>3. ConnOK(c)'
  BY DEF ConnInv, TypeOK, ConnOK, Undecided, Flagged, Rerouted, Running
<1>4. CountsOnce(c)
  BY DEF ConnInv, ConnOK, Undecided, TypeOK, CountsOnce, Drops
<1> QED BY <1>1, <1>2, <1>3, <1>4, HandlerStep

LEMMA DisconnectInv ==
  ASSUME ConnInv, NEW c \in Client, Disconnect(c)
  PROVE  ConnInv'
<1> USE DEF Disconnect, shutdown
<1>1. TypeOK'
  BY DEF ConnInv, TypeOK, Running, Over
<1>2. OnlyHandler(c)
  BY DEF ConnInv, TypeOK, OnlyHandler, Uninspected
<1>3. ConnOK(c)'
  BY DEF ConnInv, TypeOK, ConnOK, Undecided, Flagged, Rerouted, Running
<1>4. CountsOnce(c)
  BY DEF ConnInv, ConnOK, Undecided, TypeOK, CountsOnce, Drops
<1> QED BY <1>1, <1>2, <1>3, <1>4, HandlerStep

-----------------------------------------------------------------------------
(* The steps that are not of one handler turn nobody away.                 *)
LEMMA CountStays ==
  ASSUME ConnInv, UNCHANGED <<features, request, refusal, metrics>>,
         \A c \in Client : pc'[c] \in {"cut", pc[c]}
  PROVE  CountInv'
<1>1. SeenOnly \subseteq SeenOnly' /\ SeenOnly' \subseteq Client
  BY DEF SeenOnly, Uninspected, Rerouted, Flagged
<1>2. IsFiniteSet(SeenOnly')
  BY <1>1, FS_Subset, ConnectionsAssumption
<1>3. Cardinality(SeenOnly') \in Nat /\ Cardinality(SeenOnly) <= Cardinality(SeenOnly')
  BY <1>1, <1>2, FS_Subset, FS_CardinalityType
<1>4. Dropped' = Dropped
  BY DEF Dropped
<1> QED BY <1>3, <1>4, SetsFinite DEF ConnInv, CountInv

LEMMA CutAllInv ==
  ASSUME ConnInv, CutAll, UNCHANGED <<features, expired, drained, request, gone, refusal, metrics>>
  PROVE  ConnInv'
<1>1. TypeOK'
  BY DEF CutAll, ConnInv, TypeOK, Over
<1>2. ASSUME NEW c \in Client PROVE ConnOK(c)'
  <2>1. pc'[c] \in {"cut", pc[c]}
    BY DEF CutAll
  <2>2. "cut" \notin Undecided /\ "cut" \notin Running
    BY DEF Undecided, Running
  <2> QED BY <2>1, <2>2 DEF CutAll, ConnInv, ConnOK, Flagged, Rerouted
<1>3. CountInv'
  BY CountStays DEF CutAll
<1> QED BY <1>1, <1>2, <1>3 DEF ConnInv

LEMMA StopInv ==
  ASSUME ConnInv, Stop
  PROVE  ConnInv'
<1>1. TypeOK'
  BY DEF Stop, ConnInv, TypeOK
<1>2. ASSUME NEW c \in Client PROVE ConnOK(c)'
  BY DEF Stop, ConnInv, ConnOK, Flagged, Rerouted
<1>3. CountInv'
  BY CountStays DEF Stop
<1> QED BY <1>1, <1>2, <1>3 DEF ConnInv

LEMMA DrainInv ==
  ASSUME ConnInv, Drain
  PROVE  ConnInv'
<1>1. TypeOK'
  BY DEF Drain, ConnInv, TypeOK
<1>2. ASSUME NEW c \in Client PROVE ConnOK(c)'
  BY DEF Drain, ConnInv, ConnOK, Flagged, Rerouted
<1>3. CountInv'
  BY CountStays DEF Drain
<1> QED BY <1>1, <1>2, <1>3 DEF ConnInv

LEMMA DrainTimeoutInv ==
  ASSUME ConnInv, DrainTimeout
  PROVE  ConnInv'
<1> DEFINE late == {c \in drained : pc[c] \in Running}
<1>1. /\ proxy' = "stopping" /\ expired' = TRUE
      /\ pc' = [c \in Client |-> IF c \in late THEN "cut" ELSE pc[c]]
      /\ active_tasks' = active_tasks \ late
      /\ UNCHANGED <<features, drained, request, gone, refusal, metrics>>
  BY DEF DrainTimeout
<1>2. open' \in [Client -> BOOLEAN]
  BY DEF DrainTimeout
<1>3. TypeOK'
  BY <1>1, <1>2 DEF ConnInv, TypeOK, Over
<1>4. ASSUME NEW c \in Client PROVE ConnOK(c)'
  <2>1. pc'[c] \in {"cut", pc[c]}
    BY <1>1
  <2>2. "cut" \notin Undecided
    BY DEF Undecided
  <2> QED BY <1>1, <2>1, <2>2 DEF ConnInv, ConnOK, Flagged, Rerouted
<1>5. CountInv'
  BY <1>1, CountStays
<1> QED BY <1>3, <1>4, <1>5 DEF ConnInv

(***************************************************************************)
(* The invariant of the connections, whichever names the code has.         *)
(***************************************************************************)
THEOREM ConnectionsInvariance == Spec => []ConnInv
<1>1. Init => ConnInv
  BY InitConnInv
<1>2. ASSUME ConnInv, [Next]_vars PROVE ConnInv'
  <2>1. ASSUME NEW c \in Client,
               Accept(c) \/ Step(c) \/ Disconnect(c)
        PROVE  ConnInv'
    BY <1>2, <2>1, AcceptInv, BeginInv, ResolveInv, LimitInv, FaultInv, ReadHeadInv, InspectInv,
       CheckBodyInv, LookupInv, AnswerInv, FinishInv, ReleaseInv, DisconnectInv DEF Step
  <2>2. CASE Interrupt
    BY <1>2, <2>2, CutAllInv DEF Interrupt
  <2>3. CASE Exit
    BY <1>2, <2>3, CutAllInv DEF Exit
  <2>4. CASE UNCHANGED vars
    <3>1. ASSUME NEW c \in Client PROVE ConnOK(c)'
      BY <1>2, <2>4 DEF vars, shutdown, ConnInv, ConnOK, Flagged, Rerouted
    <3>2. TypeOK' /\ CountInv'
      BY <1>2, <2>4, CountStays DEF vars, shutdown, ConnInv, TypeOK
    <3> QED BY <3>1, <3>2 DEF ConnInv
  <2> QED BY <1>2, <2>1, <2>2, <2>3, <2>4, StopInv, DrainInv, DrainTimeoutInv DEF Next, StopSteps
<1> QED BY <1>1, <1>2, PTL DEF Spec

(***************************************************************************)
(* The handlers, the shutdown and the counters are type correct: no        *)
(* counter goes below 0, no stage or reason is one the code does not have. *)
(***************************************************************************)
THEOREM ConnectionsTyped == Spec => []TypeOK
<1>1. ConnInv => TypeOK
  BY DEF ConnInv
<1> QED BY <1>1, ConnectionsInvariance, PTL

(***************************************************************************)
(* No request that the WAF flagged gets past the inspections, whatever     *)
(* plugins, services and other checks there are (proxy.py, handle_client). *)
(***************************************************************************)
THEOREM FlaggedStaysOut == Spec => []FlaggedIsIsolated
<1>1. ConnInv => FlaggedIsIsolated
  BY DEF ConnInv, ConnOK, FlaggedIsIsolated
<1> QED BY <1>1, ConnectionsInvariance, PTL

(***************************************************************************)
(* In every deployment essaproxy_waf_blocks_total is at least the number   *)
(* of connections that the blocklist, the WAF and the JWT check have       *)
(* dropped, and at most that of the requests a honeypot was meant for more *)
(* (proxy.py:265, 347, 439).                                               *)
(***************************************************************************)
THEOREM WafCounterBounded == Spec => []DropsAreCounted
<1>1. ConnInv => DropsAreCounted
  <2> SUFFICES ASSUME ConnInv PROVE DropsAreCounted
    OBVIOUS
  <2> DEFINE rerouted == {c \in Client : Rerouted(c)}
  <2>1. Dropped = {c \in Client : refusal[c] \in {"blocklist", "waf", "unauthorized"}}
    BY DEF Dropped, Drops
  <2>2. SeenOnly \subseteq rerouted /\ rerouted \subseteq Client
    BY DEF SeenOnly
  <2>3. IsFiniteSet(rerouted)
    BY <2>2, FS_Subset, ConnectionsAssumption
  <2>4. Cardinality(rerouted) \in Nat /\ Cardinality(SeenOnly) <= Cardinality(rerouted)
    BY <2>2, <2>3, FS_Subset, FS_CardinalityType
  <2>5. metrics.waf_blocks_total
          \in Cardinality(Dropped) .. Cardinality(Dropped) + Cardinality(rerouted)
    BY <2>4, SetsFinite DEF ConnInv, CountInv
  <2> QED BY <2>1, <2>5 DEF DropsAreCounted
<1> QED BY <1>1, ConnectionsInvariance, PTL

(***************************************************************************)
(* EssaProxy.stop cuts off a handler it waits for only after drain_timeout.*)
(***************************************************************************)
THEOREM DrainIsGraceful == Spec => GracefulShutdown
<1>1. ASSUME ConnInv, StopSteps, ~expired', NEW c \in drained, pc'[c] = "cut"
      PROVE  pc[c] = "cut"
  <2>1. c \in Client
    BY <1>1 DEF ConnInv, TypeOK
  <2>2. CASE Drain
    BY <1>1, <2>2 DEF Drain
  <2>3. CASE DrainTimeout
    BY <1>1, <2>3 DEF DrainTimeout
  <2>4. CASE Exit
    <3>1. pc[c] \notin Running \cup {"accepted"}
      BY <1>1, <2>1, <2>4 DEF Exit, ConnInv, ConnOK
    <3> QED BY <1>1, <2>1, <2>4, <3>1 DEF Exit, CutAll
  <2> QED BY <1>1, <2>2, <2>3, <2>4 DEF StopSteps
<1>2. ConnInv => [StopSteps /\ ~expired' =>
                    \A c \in drained : pc'[c] = "cut" => pc[c] = "cut"]_vars
  BY <1>1
<1> QED BY <1>2, ConnectionsInvariance, PTL DEF GracefulShutdown

-----------------------------------------------------------------------------
(* A handler is in active_tasks while it runs, and no connection stays     *)
(* open behind it, except a cancelled one while the process is there, and  *)
(* what LeftOpen names.                                                    *)
TaskOK(c) ==
  /\ c \in active_tasks <=> pc[c] \in Running
  /\ Resolved = Names /\ pc[c] \in {"ended", "raised"} /\ open[c] => LeftOpen(c)
  /\ pc[c] \in Over /\ proxy = "stopped" => ~open[c]
TaskInv == \A c \in Client : TaskOK(c)

(* A handler ends, and closes its connection unless a name was missing, or *)
(* one of the two exceptions of LeftOpen ends it.                          *)
Ends(c) ==
  /\ pc'[c] \in {"ended", "raised"} /\ c \notin active_tasks'
  /\ Resolved = Names /\ open'[c] => LeftOpen(c)'

LEMMA HandlerTask ==
  ASSUME TypeOK, TaskInv, "time" \in Resolved, NEW c \in Client,
         Accept(c) \/ Step(c) \/ Disconnect(c), proxy # "stopped"
  PROVE  TaskInv'
<1> USE DEF shutdown
<1>1. ASSUME NEW d \in Client \ {c} PROVE TaskOK(d)'
  <2>1. /\ (d \in active_tasks') <=> (d \in active_tasks)
        /\ pc'[d] = pc[d] /\ open'[d] = open[d] /\ request'[d] = request[d]
        /\ UNCHANGED proxy
    <3>1. CASE Disconnect(c) \/ Release(c)
      BY <3>1 DEF TypeOK, Disconnect, Release
    <3>1a. CASE Accept(c)
      <4>1. PICK r \in Requests[c] : request' = [request EXCEPT ![c] = r]
        BY <3>1a DEF Accept
      <4> QED BY <3>1a, <4>1 DEF TypeOK, Accept
    <3>2. CASE Begin(c)
      BY <3>2 DEF TypeOK, Begin, Close
    <3>5. CASE Resolve(c)
      BY <3>5 DEF TypeOK, Resolve, GoTo, Close, Raise
    <3>6. CASE Limit(c)
      BY <3>6 DEF TypeOK, Limit, GoTo, Raise, HandOver
    <3>3. CASE Fault(c) \/ ReadHead(c) \/ Inspect(c) \/ CheckBody(c)
      BY <3>3 DEF TypeOK, Fault, ReadHead, Inspect, CheckBody, GoTo, Close, HandOver, Refuse
    <3>4. CASE Lookup(c) \/ Answer(c) \/ Finish(c)
      BY <3>4 DEF TypeOK, Lookup, Answer, Finish, GoTo, Close, Raise
    <3> QED BY <3>1, <3>2, <3>3, <3>4, <3>5, <3>6, <3>1a DEF Step
  <2> QED BY <2>1 DEF TaskInv, TaskOK, LeftOpen
<1>2. TaskOK(c)'
  <2>1. CASE Accept(c) \/ Disconnect(c) \/ Release(c)
    <3>1. /\ UNCHANGED <<active_tasks, proxy>>
          /\ \/ pc[c] = "none" /\ pc'[c] = "accepted"
             \/ /\ pc'[c] = pc[c] /\ request'[c] = request[c]
                /\ open'[c] => open[c]
      BY <2>1 DEF Accept, Disconnect, Release, TypeOK
    <3> QED BY <3>1 DEF TaskInv, TaskOK, Running, Over, LeftOpen
  <2>2. CASE Begin(c)
    <3>1. /\ UNCHANGED proxy
          /\ Ends(c) \/ (pc'[c] \in {"answering", "resolving"} /\ c \in active_tasks')
      BY <2>2 DEF Begin, Close, Ends, TypeOK
    <3> QED BY <3>1 DEF Ends, TaskOK, Running, Over
  <2>3. CASE Step(c) /\ ~Begin(c) /\ ~Release(c)
    <3>1. pc[c] \in Running /\ c \in active_tasks
      BY <2>3
         DEF Step, Resolve, Limit, Fault, ReadHead, Inspect, CheckBody, Lookup, Answer, Finish,
             Running, TaskInv, TaskOK
    <3>2. UNCHANGED proxy
      BY <2>3 DEF Step, Resolve, Limit, Fault, ReadHead, Inspect, CheckBody, Lookup, Answer, Finish
    <3>3. \/ Ends(c)
          \/ pc'[c] = "trapped" /\ c \notin active_tasks'
          \/ pc'[c] \in Running /\ UNCHANGED active_tasks
      <4>1. Close(c) => Ends(c)
        BY DEF Close, Ends, TypeOK
      <4>2. Names # Resolved /\ Raise(c) => Ends(c)
        BY DEF Raise, Ends, TypeOK
      <4>2a. ASSUME Raise(c), UNCHANGED request,
                    "unconnectable" \in request[c] \/ "garbled" \in request[c]
             PROVE  Ends(c)
        BY <4>2a DEF Raise, Ends, TypeOK, LeftOpen
      <4>3. HandOver(c) => pc'[c] = "trapped" /\ c \notin active_tasks'
        BY DEF HandOver, TypeOK
      <4>4. \A stage \in Running : GoTo(c, stage) => pc'[c] \in Running /\ UNCHANGED active_tasks
        BY DEF GoTo, TypeOK
      <4>5. CASE Resolve(c)
        BY <4>1, <4>2, <4>4, <4>5 DEF Resolve, Running, Names
      <4>6. CASE Limit(c)
        BY <4>2, <4>3, <4>4, <4>6 DEF Limit, Running, Names
      <4>7. CASE Fault(c)
        BY <4>1, <4>4, <4>7 DEF Fault, Refuse, Running
      <4>8. CASE ReadHead(c)
        BY <4>1, <4>4, <4>8 DEF ReadHead, Running
      <4>9. CASE Inspect(c)
        <5>1. Decision(c)[2] \in {"trapped"} \cup Running
          BY DecisionType DEF Running
        <5>2. "answering" \in Running
          BY DEF Running
        <5> QED BY <4>1, <4>3, <4>4, <4>9, <5>1, <5>2 DEF Inspect, Refuse
      <4>10. CASE CheckBody(c)
        BY <4>4, <4>10, AfterChecksType DEF CheckBody, Refuse, Running
      <4>11. CASE Lookup(c)
        BY <4>4, <4>11, <4>2a DEF Lookup, Running
      <4>12. CASE Answer(c)
        <5>1. ASSUME pc' = [pc EXCEPT ![c] = "raised"], active_tasks' = active_tasks \ {c},
                     open' = [open EXCEPT ![c] = FALSE]
              PROVE  Ends(c)
          BY <5>1 DEF Ends, TypeOK
        <5>2. ASSUME pc' = [pc EXCEPT ![c] = AfterChecks(c)], UNCHANGED active_tasks
              PROVE  pc'[c] \in Running /\ UNCHANGED active_tasks
          BY <5>2, AfterChecksType DEF TypeOK, Running
        <5> QED BY <4>1, <4>12, <5>1, <5>2 DEF Answer
      <4>13. CASE Finish(c)
        BY <4>1, <4>13, <4>2a DEF Finish
      <4> QED BY <2>3, <4>5, <4>6, <4>7, <4>8, <4>9, <4>10, <4>11, <4>12, <4>13 DEF Step
    <3>4. "trapped" \notin Running /\ {"ended", "raised"} \cap Running = {}
      BY DEF Running
    <3> QED BY <3>1, <3>2, <3>3, <3>4 DEF Ends, TaskOK, Over
  <2> QED BY <2>1, <2>2, <2>3 DEF Step
<1> QED BY <1>1, <1>2 DEF TaskInv

LEMMA ProxyTask ==
  ASSUME TypeOK, TaskInv, Interrupt \/ Stop \/ StopSteps
  PROVE  TaskInv'
<1> USE DEF TaskInv, TaskOK, TypeOK, LeftOpen
<1>1. CASE Interrupt \/ Exit
  <2> SUFFICES ASSUME NEW c \in Client PROVE TaskOK(c)'
    BY DEF TaskInv
  <2>1. pc'[c] = IF pc[c] \in Running \cup {"accepted"} THEN "cut" ELSE pc[c]
    BY <1>1 DEF Interrupt, Exit, CutAll
  <2>2. active_tasks' = {} /\ open'[c] = FALSE
    BY <1>1 DEF Interrupt, Exit, CutAll
  <2> QED BY <2>1, <2>2 DEF Running
<1>2. CASE Stop \/ Drain
  BY <1>2 DEF Stop, Drain
<1>3. CASE DrainTimeout
  <2>1. \A c \in Client : open'[c] => open[c]
    BY <1>3 DEF DrainTimeout
  <2> QED BY <1>3, <2>1 DEF DrainTimeout, Running, Over
<1> QED BY <1>1, <1>2, <1>3 DEF StopSteps

(***************************************************************************)
(* The invariant of the tasks: who runs is in active_tasks, who has ended  *)
(* is not (proxy.py:215-224).                                              *)
(***************************************************************************)
THEOREM TaskInvariance ==
  ASSUME "time" \in Resolved
  PROVE  Spec => []TaskInv
<1>1. Init => TaskInv
  BY DEF Init, TaskInv, TaskOK, Running, Over
<1>2. ASSUME TypeOK, TaskInv, [Next]_vars PROVE TaskInv'
  <2>1. CASE Next
    BY <1>2, <2>1, HandlerTask, ProxyTask DEF Next
  <2>2. CASE UNCHANGED vars
    BY <1>2, <2>2 DEF vars, shutdown, TaskInv, TaskOK, LeftOpen
  <2> QED BY <1>2, <2>1, <2>2
<1> QED BY <1>1, <1>2, ConnectionsTyped, PTL DEF Spec

(***************************************************************************)
(* Where time.time() can be called, active_tasks holds the handlers that   *)
(* run, and only them: no path out of a handler forgets its task.          *)
(***************************************************************************)
THEOREM NoTaskForgotten ==
  ASSUME "time" \in Resolved
  PROVE  Spec => []TasksAreRunning
<1>1. TypeOK /\ TaskInv => TasksAreRunning
  BY DEF TypeOK, TaskInv, TaskOK, TasksAreRunning
<1> QED BY <1>1, TaskInvariance, ConnectionsTyped, PTL

(***************************************************************************)
(* Where all names of the code exist, a connection stays open behind a     *)
(* handler that has ended only when one of the two exceptions that nothing *)
(* catches has ended it (proxy.py:488, 565), and behind none once the      *)
(* process has ended.                                                      *)
(***************************************************************************)
THEOREM OnlyUncaughtStayOpen ==
  ASSUME Resolved = Names
  PROVE  Spec => []ClosedWhenOver
<1>1. "time" \in Resolved
  BY DEF Names
<1>2. TaskInv => ClosedWhenOver
  BY DEF TaskInv, TaskOK, ClosedWhenOver
<1> QED BY <1>1, <1>2, TaskInvariance, PTL
=============================================================================
