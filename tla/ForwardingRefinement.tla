------------------------- MODULE ForwardingRefinement -------------------------
(***************************************************************************)
(* The forwarding core implements ForwardingService: a request is pending  *)
(* from routing to the accepted connection, across its retries, and may be *)
(* sent to the urls of the balancer its handler took at the start.  A      *)
(* handler that an exception ended leaves its request pending.             *)
(***************************************************************************)
EXTENDS Forwarding

RequestOf(c) ==
  CASE pc[c] \in {"idle", "done"}                     -> "none"
    [] pc[c] \in {"connecting", "refused", "raised"}  -> "pending"
    [] pc[c] = "relaying"                             -> "served"
    [] pc[c] \in {"not_found", "bad_gateway"}         -> "refused"

OfferedTo(c) ==
  IF RequestOf(c) = "pending"
    THEN LET list == balancers[selected_lb[c]].backends
         IN  {list[j].url : j \in DOMAIN list}
    ELSE {}

ServerOf(c) == IF pc[c] = "relaying" THEN backend[c].url ELSE None

Service == INSTANCE ForwardingService WITH
  Nowhere <- None,
  request <- [c \in Client |-> RequestOf(c)],
  offered <- [c \in Client |-> OfferedTo(c)],
  server  <- [c \in Client |-> ServerOf(c)]

(***************************************************************************)
(* Retries, breaker, checks and reloads are invisible steps of the service *)
(* and every accepted request is decided; reloads change the servers of    *)
(* later requests only (README.md:95, "without ever restarting or dropping *)
(* connections").                                                          *)
(***************************************************************************)
ImplementsService == Service!Spec
=============================================================================
