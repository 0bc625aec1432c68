---------------------------- MODULE ServicesProofs ----------------------------
(***************************************************************************)
(* The type invariant of the services that are checked together, for any   *)
(* number of nodes and clients and any bounds, from those of the parts.    *)
(***************************************************************************)
EXTENDS Services, ClusterProofs, FanOutProofs

-----------------------------------------------------------------------------
(* Each service was given its Redis at the start and keeps it.             *)
LEMMA ElectionKeepsRedis == ElectionNext => UNCHANGED redis_client
<1>1. ASSUME NEW n \in Node, Serves(n) \/ Resumes(n) PROVE UNCHANGED redis_client
  BY <1>1 DEF Serves, Resumes, RedisSets, RedisKeeps, RedisGets, RedisExpires, Executes,
              Acquired, Compared, Renewed, Wake
<1>2. ASSUME NEW n \in Node, Fail(n) \/ Crash(n) \/ Restart(n) PROVE UNCHANGED redis_client
  BY <1>2 DEF Fail, Crash, Restart, Faulty
<1> QED BY <1>1, <1>2 DEF ElectionNext, ElectionTick

LEMMA LimiterKeepsRedis == LimiterNext => UNCHANGED redis_client
  BY DEF LimiterNext, AllowLocally, Begin, Answer, FallBack, Ask, Reassign, LimiterTick

LEMMA BackplaneKeepsRedis == BackplaneNext => UNCHANGED redis_client
<1>1. ASSUME NEW b, Drain(b) PROVE UNCHANGED redis_client
  BY <1>1 DEF Drain, DrainAt
<1>2. ASSUME NEW c \in Peer,
             \/ Join(c) \/ Close(c) \/ ReadText(c) \/ Publish(c) \/ PublishFails(c) \/ Breaks(c)
      PROVE  UNCHANGED redis_client
  BY <1>2 DEF Join, Close, ReadText, Publish, PublishFails, Breaks
<1>3. ASSUME NEW n \in Node, Listen(n) \/ ListenFails(n) PROVE UNCHANGED redis_client
  BY <1>3 DEF Listen, ListenFails
<1> QED BY <1>1, <1>2, <1>3 DEF BackplaneNext

LEMMA AdmissionKeepsRedis == AdmissionNext => UNCHANGED redis_client
<1>1. ASSUME NEW v \in Visitor, Arrive(v) \/ AskRedis(v) \/ AskService(v) \/ SaveCountry(v)
      PROVE  UNCHANGED redis_client
  BY <1>1 DEF Arrive, AskRedis, AskService, SaveCountry
<1>2. ASSUME NEW a \in Command, Receive(a) \/ Execute(a) \/ Refuse(a)
      PROVE  UNCHANGED redis_client
  BY <1>2 DEF Receive, Execute, Refuse
<1> QED BY <1>1, <1>2 DEF AdmissionNext, CountryExpires, Replace

(* A step of the whole is one of a service, with every other at rest.      *)
LEMMA OneServiceSteps ==
  ASSUME [ServicesNext]_servicesVars
  PROVE  /\ [ElectionNext]_electionVars
         /\ [LimiterNext]_<<limiter, redis_client>>
         /\ [MultiplexerNext]_multiplexer
         /\ [BackplaneNext]_<<backplane, redis_client>>
         /\ [AdmissionNext]_<<admission, redis_client>>
         /\ [HeadNext]_head
<1>1. CASE /\ ElectionNext
           /\ UNCHANGED <<limiter, multiplexer, backplane, admission, head>>
  BY <1>1, ElectionKeepsRedis
<1>2. CASE /\ LimiterNext
           /\ UNCHANGED <<election, multiplexer, backplane, admission, head>>
  BY <1>2, LimiterKeepsRedis DEF electionVars
<1>3. CASE /\ MultiplexerNext
           /\ UNCHANGED <<redis_client, election, limiter, backplane, admission, head>>
  BY <1>3 DEF electionVars
<1>4. CASE /\ BackplaneNext
           /\ UNCHANGED <<election, limiter, multiplexer, admission, head>>
  BY <1>4, BackplaneKeepsRedis DEF electionVars
<1>5. CASE /\ AdmissionNext
           /\ UNCHANGED <<election, limiter, multiplexer, backplane, head>>
  BY <1>5, AdmissionKeepsRedis DEF electionVars
<1>6. CASE /\ HeadNext
           /\ UNCHANGED <<redis_client, election, limiter, multiplexer, backplane, admission>>
  BY <1>6 DEF electionVars
<1>7. CASE UNCHANGED servicesVars
  BY <1>7 DEF servicesVars, others, electionVars
<1> QED
  BY <1>1, <1>2, <1>3, <1>4, <1>5, <1>6, <1>7 DEF ServicesNext, others

(***************************************************************************)
(* A behaviour of the whole is, for each service, one of that service      *)
(* alone.  This is how Services puts them together (each of ha.py,         *)
(* rate_limiter.py, sse.py, websocket.py, geoip.py has variables of its    *)
(* own) and says nothing of the code; it carries the invariants over.      *)
(***************************************************************************)
LEMMA ServicesAreApart ==
  ServicesSpec => /\ ElectionSpec /\ LimiterSpec /\ MultiplexerSpec
                  /\ BackplaneSpec /\ AdmissionSpec /\ HeadSpec
<1>1. ServicesInit => /\ RedisInit /\ ElectionInit /\ LimiterInit /\ MultiplexerInit
                      /\ BackplaneInit /\ AdmissionInit /\ HeadInit
  BY DEF ServicesInit
<1>2. [ServicesNext]_servicesVars => /\ [ElectionNext]_electionVars
                                     /\ [LimiterNext]_<<limiter, redis_client>>
                                     /\ [MultiplexerNext]_multiplexer
                                     /\ [BackplaneNext]_<<backplane, redis_client>>
                                     /\ [AdmissionNext]_<<admission, redis_client>>
                                     /\ [HeadNext]_head
  BY OneServiceSteps
<1> QED
  BY <1>1, <1>2, PTL
     DEF ServicesSpec, ElectionSpec, LimiterSpec, MultiplexerSpec, BackplaneSpec,
         AdmissionSpec, HeadSpec

-----------------------------------------------------------------------------
LEMMA MultiplexerIsTyped == MultiplexerSpec => []MultiplexerTypeOK
<1>1. MultiplexerInv => MultiplexerTypeOK
  BY DEF MultiplexerInv, MultiplexerTyped, SnapshotsOK, MultiplexerTypeOK
<1> QED BY <1>1, MultiplexerInvariance, PTL

LEMMA AdmissionIsTyped == AdmissionSpec => []AdmissionTypeOK
<1>1. AdmissionInit => CachesOK
  BY DEF AdmissionInit, CachesOK, Codes
<1>2. AdmissionInv /\ CachesOK /\ [AdmissionNext]_<<admission, redis_client>> => CachesOK'
  BY CachesInv
<1>3. AdmissionInv /\ CachesOK => AdmissionTypeOK
  BY DEF AdmissionInv, AdmissionTyped, VisitorStages, CachesOK, AdmissionTypeOK
<1> QED BY <1>1, <1>2, <1>3, AdmissionInvariance, PTL DEF AdmissionSpec

LEMMA HeadIsTyped == HeadSpec => []HeadTypeOK
<1>1. HeadInit => HeadTypeOK
  BY HeadersAssumption DEF HeadInit, HeadTypeOK
<1>2. HeadTypeOK /\ [HeadNext]_head => HeadTypeOK'
  <2> SUFFICES ASSUME HeadTypeOK, [HeadNext]_head PROVE HeadTypeOK'
    OBVIOUS
  <2>1. ASSUME NEW kind \in Kinds, Write(kind) PROVE HeadTypeOK'
    BY <2>1, HeadersAssumption DEF Write, HeadTypeOK
  <2>2. CASE UNCHANGED head
    BY <2>2 DEF head, HeadTypeOK
  <2> QED BY <2>1, <2>2 DEF HeadNext
<1> QED BY <1>1, <1>2, PTL DEF HeadSpec

(***************************************************************************)
(* The type invariant of the whole, from those of its parts: among them    *)
(* the timers and leases within their terms (ha.py:25-51), no bucket more  *)
(* than a token in debt (rate_limiter.py:41-62), a broadcast under way     *)
(* exactly where a task is at one (sse.py:63-79, websocket.py:26-38).      *)
(***************************************************************************)
THEOREM ServicesAreTyped == ServicesSpec => []ServicesTypeOK
<1>1. ElectionInv => ElectionTypeOK
  BY DEF ElectionInv
<1>2. /\ ElectionTypeOK /\ LimiterTypeOK /\ MultiplexerTypeOK
      /\ BackplaneTypeOK /\ AdmissionTypeOK /\ HeadTypeOK
      => ServicesTypeOK
  BY DEF ServicesTypeOK
<1> QED
  BY <1>1, <1>2, ServicesAreApart, ElectionInvariance, LimiterIsTyped, MultiplexerIsTyped,
     BackplaneTyped, AdmissionIsTyped, HeadIsTyped, PTL
=============================================================================
