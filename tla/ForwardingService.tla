-------------------------- MODULE ForwardingService --------------------------
(***************************************************************************)
(* What the forwarding core promises its clients, with the balancers, the  *)
(* circuit breaker, the health checks and the reloads hidden: an accepted  *)
(* request has a set of urls it may be sent to, fixed while it is pending; *)
(* it is served by one of them that accepts connections, or refused, in    *)
(* the end; and while it is served no reload moves it elsewhere.           *)
(***************************************************************************)
CONSTANTS Client, Url, Nowhere

VARIABLES
  up,        \* up[u]: a server accepts connections at u
  request,   \* request[c]: "none", "pending", "served" or "refused"
  offered,   \* offered[c]: the urls a pending request may be sent to
  server     \* server[c]: the url that serves the request, or Nowhere

vars == <<up, request, offered, server>>

Init ==
  /\ up \in [Url -> BOOLEAN]
  /\ request = [c \in Client |-> "none"]
  /\ offered = [c \in Client |-> {}]
  /\ server = [c \in Client |-> Nowhere]

Accept(c, urls) ==
  /\ request[c] \in {"none", "refused"}
  /\ request' = [request EXCEPT ![c] = "pending"]
  /\ offered' = [offered EXCEPT ![c] = urls]
  /\ UNCHANGED <<up, server>>

Serve(c, u) ==
  /\ request[c] = "pending" /\ u \in offered[c] /\ up[u]
  /\ request' = [request EXCEPT ![c] = "served"]
  /\ offered' = [offered EXCEPT ![c] = {}]
  /\ server' = [server EXCEPT ![c] = u]
  /\ UNCHANGED up

(* A request may be refused at once or after its attempts.                 *)
Refuse(c) ==
  /\ request[c] \in {"none", "refused", "pending"}
  /\ request' = [request EXCEPT ![c] = "refused"]
  /\ offered' = [offered EXCEPT ![c] = {}]
  /\ UNCHANGED <<up, server>>

Finish(c) ==
  /\ request[c] = "served"
  /\ request' = [request EXCEPT ![c] = "none"]
  /\ server' = [server EXCEPT ![c] = Nowhere]
  /\ UNCHANGED <<up, offered>>

Toggle(u) ==
  /\ up' = [up EXCEPT ![u] = ~@]
  /\ UNCHANGED <<request, offered, server>>

Decide(c) == (\E u \in Url : Serve(c, u)) \/ (request[c] = "pending" /\ Refuse(c))

Next ==
  \/ \E c \in Client :
       \/ \E urls \in SUBSET Url : Accept(c, urls)
       \/ Decide(c)
       \/ Refuse(c)
       \/ Finish(c)
  \/ \E u \in Url : Toggle(u)

Safety == Init /\ [][Next]_vars

(* A pending request does not stay pending.                                *)
Spec == Safety /\ \A c \in Client : WF_vars(Decide(c))
=============================================================================
