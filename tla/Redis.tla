-------------------------------- MODULE Redis --------------------------------
(***************************************************************************)
(* What the services of EssaProxy that reach beyond one process have in    *)
(* common: the processes, and whether each was given a redis_url (and the  *)
(* redis library) when it started.                                         *)
(***************************************************************************)
CONSTANT Node    \* the EssaProxy processes of the cluster

VARIABLE redis_client    \* EssaProxy.redis_client is not None

RedisInit == redis_client \in BOOLEAN
=============================================================================
