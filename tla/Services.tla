------------------------------ MODULE Services ------------------------------
(***************************************************************************)
(* What EssaProxy does around the forwarding of requests: the election of  *)
(* the leader, the limiter, the multiplexer, the backplane, the list of    *)
(* blocked addresses, and the head that is sent on.  A behaviour has the   *)
(* steps of one of them, any one, while the others stay: the composition   *)
(* assumes that they do not influence each other, it does not show it.     *)
(* Their keys in the Redis they share are disjoint in the source.  They do *)
(* meet at one place: a node that is not the leader turns connections away *)
(* (proxy.py:244), so that it gets no new hub clients, subscribers or      *)
(* requests.  Each service is modelled without that gate, as it is where   *)
(* enable_ha is off; with it a service does less of the same.              *)
(***************************************************************************)
EXTENDS LeaderElection, RateLimiter, Multiplexer, Backplane, Admission,
        ForwardedHeaders

VARIABLE service    \* the one whose steps are looked at

others == <<service, redis_client>>

(* Of services that do not move, and of redis_client for those that have   *)
(* none, one start is as good as another.                                  *)
ServicesInit ==
  /\ service \in {"election", "limiter", "multiplexer", "backplane", "admission",
                 "head"}
  /\ RedisInit
  /\ ElectionInit /\ LimiterInit /\ MultiplexerInit /\ BackplaneInit /\ AdmissionInit
  /\ HeadInit
  /\ service # "limiter" => settings = [n \in Node |-> CHOOSE s \in Settings : TRUE]
  /\ service # "admission" => blocked_ips = [n \in Node |-> CHOOSE f \in Files : TRUE]
  /\ service # "multiplexer" => path = [c \in Subscriber |-> CHOOSE p \in Stream : TRUE]
  /\ service # "head" => decodable /\ traced
  /\ service \in {"multiplexer", "head"} => ~redis_client

ServicesNext ==
  \/ /\ service = "election" /\ ElectionNext
     /\ UNCHANGED <<service, limiter, multiplexer, backplane, admission, head>>
  \/ /\ service = "limiter" /\ LimiterNext
     /\ UNCHANGED <<service, election, multiplexer, backplane, admission, head>>
  \/ /\ service = "multiplexer" /\ MultiplexerNext
     /\ UNCHANGED <<others, election, limiter, backplane, admission, head>>
  \/ /\ service = "backplane" /\ BackplaneNext
     /\ UNCHANGED <<service, election, limiter, multiplexer, admission, head>>
  \/ /\ service = "admission" /\ AdmissionNext
     /\ UNCHANGED <<service, election, limiter, multiplexer, backplane, head>>
  \/ /\ service = "head" /\ HeadNext
     /\ UNCHANGED <<others, election, limiter, multiplexer, backplane, admission>>

servicesVars == <<others, election, limiter, multiplexer, backplane, admission, head>>
ServicesSpec == ServicesInit /\ [][ServicesNext]_servicesVars

ServicesTypeOK ==
  /\ ElectionTypeOK
  /\ LimiterTypeOK
  /\ MultiplexerTypeOK
  /\ BackplaneTypeOK
  /\ AdmissionTypeOK
  /\ HeadTypeOK
=============================================================================
