--------------------------- MODULE MCConnections ---------------------------
(* Requests and features for the runs of Connections.                      *)
EXTENDS Connections

CONSTANTS c1, c2

(* One request for each check that can decide it, and those that several   *)
(* checks could decide, next to one that may be stored, or flagged.        *)
EveryCheck ==
  {{}, {"malicious"}, {"wasm_rejected"}, {"admin"}, {"unauthorized", "cacheable"},
   {"blocklisted", "malicious"}, {"malicious", "unauthorized"}, {"graphql", "cacheable"},
   {"standby"}, {"no_peername"}, {"websocket"}, {"event_stream"}, {"unconnectable"},
   {"cacheable", "garbled"}}
MCRequests ==
  [c \in Client |-> IF c = c1 THEN EveryCheck ELSE {{"malicious", "cacheable"}}]

Hardened == AllFeatures \ {"honeypot", "tarpit"}
MCDeployments ==
  {Hardened, {"dpi_waf", "tarpit", "cache"}, {"dpi_waf", "honeypot", "tarpit"}}

Plain == [c \in Client |-> {{}}]
NoFeatures == {{}}
=============================================================================
