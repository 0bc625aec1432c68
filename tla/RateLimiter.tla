---------------------------- MODULE RateLimiter ----------------------------
(***************************************************************************)
(* TokenBucketRateLimiter (rate_limiter.py) of every node: a bucket per    *)
(* address in the process, or with Redis one counter per address and       *)
(* second for the whole cluster, the bucket being what a call falls back   *)
(* on when Redis fails.  Tokens are counted in parts, `One' to the token.  *)
(***************************************************************************)
EXTENDS Integers, Redis

CONSTANTS
  Handler,      \* the calls of is_allowed at a time: pairs <<node, number>>
  Address,      \* the addresses that call
  CountryCode,  \* CountryCode[ip]: the country the call is made with
  Settings,     \* the [capacity, rate] of the configuration files, in parts
                \* and parts per second
  GeoLimits,    \* geo_rate_limits: of some countries the capacity, rate or both
  One,          \* the parts of a token
  MaxAllowed,   \* bound: calls
  MaxReassigned, \* bound: reloads
  MaxClock      \* bound: seconds

ASSUME LimiterAssumption ==
  /\ Handler \subseteq Node \X Nat
  /\ One \in Nat \ {0} /\ MaxAllowed \in Nat /\ MaxClock \in Nat
  /\ Settings \subseteq [capacity: Nat, rate: Nat]
  /\ \A c \in DOMAIN GeoLimits : \A x \in DOMAIN GeoLimits[c] : GeoLimits[c][x] \in Nat

VARIABLES
  settings,     \* capacity and rate of each node's limiter
  buckets,      \* the buckets of each node
  asked,        \* the calls that wait for Redis, [ip, limits, window]
  counters,     \* the keys in Redis: [count, expires] of <<ip, window>>
  clock,        \* the time in seconds
  observed,     \* history: what one node has allowed an address since some moment,
                \* and the largest limits it has had since then
  granted,      \* history: what Redis let pass of each <<ip, window>> in the
                \* window and the second after it
  allowed,      \* history: the number of calls
  reloads       \* history: the number of reloads

limiter == <<settings, buckets, asked, counters, clock, observed, granted, allowed, reloads>>

NoEntries == <<>>
With(f, x, value) == [y \in DOMAIN f \cup {x} |-> IF y = x THEN value ELSE f[y]]
Without(f, x) == [y \in DOMAIN f \ {x} |-> f[y]]
Keys == Address \X (0 .. MaxClock)
Larger(a, b) == IF a > b THEN a ELSE b
Smaller(a, b) == IF a < b THEN a ELSE b

(* The limits a call goes by, read before it asks Redis.  A reload assigns *)
(* capacity and rate; geo_limits stay those of the start.                  *)
LimitsOf(s, ip) ==
  LET country == CountryCode[ip]
      geo     == IF country \in DOMAIN GeoLimits THEN GeoLimits[country] ELSE NoEntries
      Own(x)  == IF x \in DOMAIN geo THEN geo[x] ELSE s[x]
  IN  [capacity |-> Own("capacity"), rate |-> Own("rate")]

LimitsFor(n, ip) == LimitsOf(settings[n], ip)

LimiterInit ==
  /\ \E s \in Settings : settings = [n \in Node |-> s]
  /\ buckets = [n \in Node |-> NoEntries]
  /\ asked = NoEntries
  /\ counters = NoEntries
  /\ clock = 0
  /\ observed = NoEntries
  /\ granted = [key \in Keys |-> 0]
  /\ allowed = 0 /\ reloads = 0

Observe(n, ip, passes) ==
  observed' = IF passes /\ <<n, ip>> \in DOMAIN observed
                THEN [observed EXCEPT ![<<n, ip>>].seen = @ + 1]
                ELSE observed

(* Mutations of Take: the tokens of a bucket are not capped; the time of a *)
(* refused call is not kept.                                               *)
TakeUncapped(n, ip, limits) ==
  LET bucket == buckets[n][ip]
      tokens == bucket.tokens + (clock - bucket.last) * limits.rate
      passes == ip \notin DOMAIN buckets[n] \/ tokens >= One
  IN  /\ buckets' = [buckets EXCEPT ![n] = With(@, ip,
           [tokens |-> IF ip \notin DOMAIN buckets[n] THEN limits.capacity - One
                       ELSE IF passes THEN tokens - One ELSE tokens,
            last |-> clock])]
      /\ Observe(n, ip, passes)

(* The bucket, under the lock: no await in it.                             *)
Take(n, ip, limits) ==
  LET bucket == buckets[n][ip]
      tokens == Smaller(bucket.tokens + (clock - bucket.last) * limits.rate, limits.capacity)
      passes == ip \notin DOMAIN buckets[n] \/ tokens >= One
  IN  /\ buckets' = [buckets EXCEPT ![n] = With(@, ip,
           [tokens |-> IF ip \notin DOMAIN buckets[n] THEN limits.capacity - One
                       ELSE IF passes THEN tokens - One ELSE tokens,
            last |-> clock])]
      /\ Observe(n, ip, passes)

(* is_allowed of a process without Redis.                                  *)
AllowLocally(n, ip) ==
  /\ ~redis_client /\ allowed < MaxAllowed
  /\ Take(n, ip, LimitsFor(n, ip))
  /\ allowed' = allowed + 1
  /\ UNCHANGED <<settings, asked, counters, clock, granted, reloads, redis_client>>

(* is_allowed up to the await of the pipeline.                             *)
Ask(h, ip) ==
  /\ redis_client /\ allowed < MaxAllowed
  /\ h \notin DOMAIN asked
  /\ asked' = With(asked, h, [ip |-> ip, limits |-> LimitsFor(h[1], ip), window |-> clock])
  /\ allowed' = allowed + 1
  /\ UNCHANGED <<settings, buckets, counters, clock, observed, granted, reloads, redis_client>>

(* INCR and EXPIRE, in one transaction.                                    *)
Key(h) == <<asked[h].ip, asked[h].window>>
Count(h) == IF Key(h) \in DOMAIN counters THEN counters[Key(h)].count + 1 ELSE 1

(* Mutations of Increment: the key expires at once, or after a second.     *)
IncrementAtOnce(h) ==
  counters' = With(counters, Key(h), [count |-> Count(h), expires |-> asked[h].window])

IncrementBriefly(h) ==
  counters' = With(counters, Key(h), [count |-> Count(h), expires |-> clock + 1])

Increment(h) ==
  counters' = With(counters, Key(h), [count |-> Count(h), expires |-> clock + 2])

Answer(h) ==
  /\ h \in DOMAIN asked
  /\ Increment(h)
  /\ granted' = IF Count(h) * One <= asked[h].limits.capacity /\ clock <= asked[h].window + 1
                  THEN [granted EXCEPT ![Key(h)] = @ + 1]
                  ELSE granted
  /\ asked' = Without(asked, h)
  /\ UNCHANGED <<settings, buckets, clock, observed, allowed, reloads, redis_client>>

(* The pipeline fails, executed or not, and the call takes from the bucket.*)
FallBack(h) ==
  /\ h \in DOMAIN asked
  /\ Increment(h) \/ UNCHANGED counters
  /\ Take(h[1], asked[h].ip, asked[h].limits)
  /\ asked' = Without(asked, h)
  /\ UNCHANGED <<settings, clock, granted, allowed, reloads, redis_client>>

(* EssaProxy.reload_config assigns capacity and rate.                      *)
Reassign(n, s) ==
  /\ reloads < MaxReassigned /\ reloads' = reloads + 1
  /\ s # settings[n]
  /\ settings' = [settings EXCEPT ![n] = s]
  /\ observed' = [p \in DOMAIN observed |->
       IF p[1] # n THEN observed[p]
       ELSE [observed[p] EXCEPT !.capacity = Larger(@, s.capacity), !.rate = Larger(@, s.rate)]]
  /\ UNCHANGED <<buckets, asked, counters, clock, granted, allowed, redis_client>>

LimiterTick ==
  /\ clock < MaxClock
  /\ clock' = clock + 1
  /\ counters' = [key \in {k \in DOMAIN counters : counters[k].expires > clock'} |-> counters[key]]
  /\ UNCHANGED <<settings, buckets, asked, observed, granted, allowed, reloads, redis_client>>

(* An observation may begin at any moment.  Calls under way count with the *)
(* limits they have read.                                                  *)
Begin(n, ip) ==
  LET current == {settings[n], LimitsFor(n, ip)} \cup
                   {asked[h].limits : h \in {g \in DOMAIN asked : g[1] = n}}
  IN  /\ observed = NoEntries
      /\ \E k, l \in current :
           /\ \A m \in current : m.capacity <= k.capacity /\ m.rate <= l.rate
           /\ observed' = With(NoEntries, <<n, ip>>,
                [since |-> clock, seen |-> 0, capacity |-> k.capacity, rate |-> l.rate])
      /\ UNCHANGED <<settings, buckets, asked, counters, clock, granted, allowed, reloads, redis_client>>

LimiterNext ==
  \/ \E n \in Node, ip \in Address :
       AllowLocally(n, ip) \/ Begin(n, ip)
  \/ \E h \in Handler : Answer(h) \/ FallBack(h) \/ \E ip \in Address : Ask(h, ip)
  \/ \E n \in Node, s \in Settings : Reassign(n, s)
  \/ LimiterTick

LimiterSpec == RedisInit /\ LimiterInit /\ [][LimiterNext]_<<limiter, redis_client>>

-----------------------------------------------------------------------------
LimiterTypeOK ==
  /\ settings \in [Node -> Settings]
  /\ \A n \in Node : /\ DOMAIN buckets[n] \subseteq Address
                     /\ \A ip \in DOMAIN buckets[n] :
                          buckets[n][ip].tokens >= -One /\ buckets[n][ip].last \in 0 .. clock
  /\ DOMAIN asked \subseteq Handler /\ (asked # NoEntries => redis_client)
  /\ \A key \in DOMAIN counters : key \in Keys /\ counters[key].expires > clock
  /\ clock \in 0 .. MaxClock /\ allowed \in 0 .. MaxAllowed

(***************************************************************************)
(* The token bucket (README.md:26-28, rate_limiter.py:41-62): in any       *)
(* stretch of time a node allows an address no more than the capacity, or  *)
(* one request if that is less than a token, and the rate times the length *)
(* of the stretch, by the largest limits in force during it, whatever the  *)
(* limits, the calls that still go by older ones and the failures of Redis *)
(* were before and in between.                                             *)
(***************************************************************************)
BurstBounded ==
  \A p \in DOMAIN observed :
    LET o == observed[p]
    IN  o.seen * One <= Larger(o.capacity, One) + o.rate * (clock - o.since)

(***************************************************************************)
(* Limits "enforced across a distributed fleet" (README.md:96): Redis lets *)
(* an address pass in one window no more often than the largest capacity,  *)
(* over all nodes together and also when calls of the window reach Redis   *)
(* in the second after it.                                                 *)
(***************************************************************************)
WindowBounded ==
  \A key \in Keys : \E s \in Settings :
    granted[key] * One <= LimitsOf(s, key[1]).capacity
=============================================================================
