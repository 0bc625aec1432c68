------------------------------- MODULE MCRelay -------------------------------
(* Configurations for the runs of Relay.                                   *)
EXTENDS Relay, TLC

ClientSymmetry == Permutations(Client)

Caching(ttl, limit, dlp) == [cache_ttl |-> ttl, cache_max_size |-> limit, enable_dlp |-> dlp]
CachingOnAndOff == {Caching(2, 3, FALSE), Caching(0, 2, FALSE)}
CachingOn == {Caching(2, 3, FALSE)}
EveryReplyTask == {Caching(2, 3, FALSE), Caching(0, 3, FALSE), Caching(2, 3, TRUE)}
=============================================================================
