----------------------------- MODULE SilentRetry -----------------------------
(***************************************************************************)
(* The promise of the silent retries (README.md:91, "The user never sees   *)
(* an error page!") needs the history of a request: which servers of its   *)
(* balancer have been accepting connections and marked healthy all along.  *)
(***************************************************************************)
EXTENDS Forwarding

VARIABLE steady   \* history: those servers, for each connection

Candidates(c) ==
  IF pc[c] \in Holding THEN steady[c]
  ELSE IF pc'[c] = "connecting"
    THEN LET list == balancers[selected_lb'[c]].backends
         IN  {list[j] : j \in DOMAIN list}
  ELSE {}

HistoryInit == Init /\ steady = [c \in Client |-> {}]
HistoryNext ==
  /\ Next
  /\ steady' = [c \in Client |->
       IF pc'[c] \in Answered \ {"bad_gateway"} THEN {}
       ELSE {b \in Candidates(c) : up'[b.url] /\ healthy'[b]}]
HistorySpec == HistoryInit /\ [][HistoryNext]_<<vars, steady>>

(***************************************************************************)
(* A request that had at least one attempt is answered with a 502 only if  *)
(* no server of its route was both up and marked healthy the whole time.   *)
(***************************************************************************)
NeverAnErrorPage ==
  \A c \in Client : pc[c] = "bad_gateway" => steady[c] = {}
=============================================================================
