---------------------------- MODULE ClusterProofs ----------------------------
(***************************************************************************)
(* What the nodes of a cluster share through Redis, for any number of      *)
(* nodes, connections, addresses, calls, faults, reloads and seconds, and  *)
(* any limits: the bounds of the rate limiter; what the admin server has   *)
(* answered holds for those who come afterwards, and a country that is     *)
(* cached stays what it is; at most one undisturbed node is the leader,    *)
(* and after a fault the cluster has one again in time.                    *)
(***************************************************************************)
EXTENDS RateLimiter, Admission, LeaderElection, SequenceTheorems, TLAPS

-----------------------------------------------------------------------------
(***************************************************************************)
(* The rate limiter                                                        *)
(***************************************************************************)
LimiterTyped ==
  /\ Settings # {} /\ settings \in [Node -> Settings]
  /\ clock \in 0 .. MaxClock
  /\ granted \in [Keys -> Nat]

BucketsOK ==
  /\ DOMAIN buckets = Node
  /\ \A n \in Node : \A ip \in DOMAIN buckets[n] :
       buckets[n][ip].tokens \in Int /\ buckets[n][ip].last \in 0 .. clock

AskedOK ==
  \A h \in DOMAIN asked :
    /\ h[1] \in Node /\ asked[h].ip \in Address /\ asked[h].window \in 0 .. clock
    /\ \E s \in Settings : asked[h].limits = LimitsOf(s, asked[h].ip)

(* A key in Redis is there for the window and the second after it.         *)
CountersOK ==
  /\ DOMAIN counters \subseteq Keys
  /\ \A key \in DOMAIN counters :
       /\ counters[key].count \in Nat
       /\ counters[key].expires \in Int /\ counters[key].expires >= key[2] + 2

Within(limits, o) == limits.capacity <= o.capacity /\ limits.rate <= o.rate

(* An observation has the largest limits that a call may go by.            *)
ObservedOK ==
  /\ DOMAIN observed \subseteq Node \X Address
  /\ \A p \in DOMAIN observed :
       LET o == observed[p]
       IN  /\ o \in [since: 0 .. clock, seen: Nat, capacity: Nat, rate: Nat]
           /\ Within(settings[p[1]], o) /\ Within(LimitsFor(p[1], p[2]), o)
           /\ \A h \in DOMAIN asked :
                h[1] = p[1] /\ asked[h].ip = p[2] => Within(asked[h].limits, o)

(* What was seen and what is left in the bucket came from the capacity and *)
(* from the refills up to the last call.                                   *)
Paid ==
  \A p \in DOMAIN observed :
    LET o == observed[p]
        b == buckets[p[1]][p[2]]
    IN  o.seen > 0 =>
          /\ p[2] \in DOMAIN buckets[p[1]] /\ b.last >= o.since
          /\ o.seen * One + b.tokens <= Larger(o.capacity, One) + o.rate * (b.last - o.since)

(* What Redis let pass of a window that may still be asked for was counted.*)
CallsCounted ==
  \A key \in Keys :
    granted[key] > 0 /\ clock <= key[2] + 1 =>
      key \in DOMAIN counters /\ granted[key] <= counters[key].count

LimiterInv ==
  /\ LimiterTyped /\ BucketsOK /\ AskedOK /\ CountersOK /\ ObservedOK
  /\ Paid /\ BurstBounded /\ CallsCounted /\ WindowBounded

-----------------------------------------------------------------------------
LEMMA LimitsAreNumbers ==
  ASSUME NEW s \in Settings, NEW ip
  PROVE  LimitsOf(s, ip).capacity \in Nat /\ LimitsOf(s, ip).rate \in Nat
         /\ s.capacity \in Nat /\ s.rate \in Nat
<1>1. s \in [capacity: Nat, rate: Nat]
  BY LimiterAssumption
<1> DEFINE geo == IF CountryCode[ip] \in DOMAIN GeoLimits THEN GeoLimits[CountryCode[ip]]
                  ELSE NoEntries
<1>2. \A x \in DOMAIN geo : geo[x] \in Nat
  BY LimiterAssumption DEF NoEntries
<1>3. /\ LimitsOf(s, ip).capacity = IF "capacity" \in DOMAIN geo THEN geo["capacity"] ELSE s.capacity
      /\ LimitsOf(s, ip).rate = IF "rate" \in DOMAIN geo THEN geo["rate"] ELSE s.rate
  BY DEF LimitsOf
<1> QED BY <1>1, <1>2, <1>3

(* Limits that are larger in both are so under the limits of a country.    *)
LEMMA LimitsGrow ==
  ASSUME NEW s \in Settings, NEW o, NEW big, NEW ip, NEW t \in Settings,
         big.capacity \in Nat, big.rate \in Nat, o.capacity \in Nat, o.rate \in Nat,
         Within(LimitsOf(t, ip), o), Within(s, big), Within(o, big)
  PROVE  Within(LimitsOf(s, ip), big)
<1>1. s \in [capacity: Nat, rate: Nat] /\ t \in [capacity: Nat, rate: Nat]
  BY LimiterAssumption
<1> DEFINE geo == IF CountryCode[ip] \in DOMAIN GeoLimits THEN GeoLimits[CountryCode[ip]]
                  ELSE NoEntries
<1>2. \A x \in DOMAIN geo : geo[x] \in Nat
  BY LimiterAssumption DEF NoEntries
<1>3. \A u \in {s, t} :
        /\ LimitsOf(u, ip).capacity = IF "capacity" \in DOMAIN geo THEN geo["capacity"] ELSE u.capacity
        /\ LimitsOf(u, ip).rate = IF "rate" \in DOMAIN geo THEN geo["rate"] ELSE u.rate
  BY DEF LimitsOf
<1> QED BY <1>1, <1>2, <1>3 DEF Within

LEMMA LimiterInitially == LimiterInit => LimiterInv
<1> SUFFICES ASSUME LimiterInit PROVE LimiterInv
  OBVIOUS
<1>1. PICK s \in Settings : settings = [n \in Node |-> s]
  BY DEF LimiterInit
<1>2. LimiterTyped /\ BucketsOK /\ AskedOK /\ CountersOK
  BY <1>1, LimiterAssumption
     DEF LimiterInit, NoEntries, LimiterTyped, BucketsOK, AskedOK, CountersOK
<1>3. ObservedOK /\ Paid /\ BurstBounded /\ CallsCounted
  BY DEF LimiterInit, NoEntries, ObservedOK, Paid, BurstBounded, CallsCounted
<1>4. WindowBounded
  BY <1>1, LimitsAreNumbers, LimiterAssumption DEF LimiterInit, WindowBounded
<1> QED BY <1>2, <1>3, <1>4 DEF LimiterInv

-----------------------------------------------------------------------------
LEMMA ProductGrows ==
  ASSUME NEW a \in Nat, NEW b \in Nat, NEW c \in Nat, a <= b
  PROVE  a * c <= b * c
<1>1. b * c = a * c + (b - a) * c
  OBVIOUS
<1>2. (b - a) * c >= 0 /\ a * c \in Int
  OBVIOUS
<1> QED BY <1>1, <1>2

(* What comes in from `last' on, at a rate that is no larger.              *)
LEMMA Refill ==
  ASSUME NEW since \in Nat, NEW last \in Nat, NEW now \in Nat, since <= last, last <= now,
         NEW rate \in Nat, NEW least \in Nat, least <= rate,
         NEW left \in Int, NEW most \in Int, left <= most + rate * (last - since)
  PROVE  left + (now - last) * least <= most + rate * (now - since)
<1>1. least * (now - last) <= rate * (now - last)
  BY ProductGrows
<1>2. rate * (last - since) + rate * (now - last) = rate * (now - since)
  OBVIOUS
<1>3. /\ rate * (last - since) \in Int /\ rate * (now - last) \in Int
      /\ least * (now - last) \in Int /\ (now - last) * least = least * (now - last)
  OBVIOUS
<1> QED BY <1>1, <1>2, <1>3

(* A call takes from the bucket.  It passes with a token, which has been   *)
(* in the bucket or come in since, or as the first one.                    *)
LEMMA TakeOK ==
  ASSUME LimiterInv, NEW n \in Node, NEW ip \in Address, NEW limits, Take(n, ip, limits),
         limits.capacity \in Nat, limits.rate \in Nat,
         <<n, ip>> \in DOMAIN observed => Within(limits, observed[<<n, ip>>]),
         clock' = clock
  PROVE  /\ BucketsOK' /\ Paid' /\ BurstBounded'
         /\ DOMAIN observed' = DOMAIN observed
         /\ \A p \in DOMAIN observed :
              /\ observed'[p] \in [since: 0 .. clock, seen: Nat, capacity: Nat, rate: Nat]
              /\ observed'[p].since = observed[p].since
              /\ observed'[p].capacity = observed[p].capacity
              /\ observed'[p].rate = observed[p].rate
<1> DEFINE b      == buckets[n][ip]
           known  == ip \in DOMAIN buckets[n]
           tokens == Smaller(b.tokens + (clock - b.last) * limits.rate, limits.capacity)
           passes == ~known \/ tokens >= One
           new    == buckets'[n][ip]
           here   == <<n, ip>>
<1>1. One \in Nat /\ One > 0 /\ clock \in Int
  BY LimiterAssumption DEF LimiterInv, LimiterTyped
<1>2. known => b.tokens \in Int /\ b.last \in 0 .. clock /\ tokens \in Int
  BY <1>1 DEF LimiterInv, BucketsOK, Smaller
<1>3. /\ DOMAIN buckets' = Node
      /\ \A m \in Node : m # n => buckets'[m] = buckets[m]
      /\ DOMAIN buckets'[n] = DOMAIN buckets[n] \cup {ip}
      /\ \A a \in DOMAIN buckets[n] : a # ip => buckets'[n][a] = buckets[n][a]
      /\ new.last = clock
      /\ new.tokens = IF ~known THEN limits.capacity - One
                      ELSE IF passes THEN tokens - One ELSE tokens
  BY DEF Take, With, LimiterInv, BucketsOK
<1>4. observed' = IF passes /\ here \in DOMAIN observed
                    THEN [observed EXCEPT ![here].seen = @ + 1] ELSE observed
  BY DEF Take, Observe
<1> HIDE DEF b, tokens, passes, new
<1>5. /\ DOMAIN observed' = DOMAIN observed
      /\ \A p \in DOMAIN observed :
           /\ observed'[p] \in [since: 0 .. clock, seen: Nat, capacity: Nat, rate: Nat]
           /\ observed'[p].since = observed[p].since
           /\ observed'[p].capacity = observed[p].capacity
           /\ observed'[p].rate = observed[p].rate
           /\ observed'[p].seen = IF passes /\ p = here THEN observed[p].seen + 1
                                  ELSE observed[p].seen
  <2>1. \A p \in DOMAIN observed : observed[p] \in [since: 0 .. clock, seen: Nat, capacity: Nat, rate: Nat]
    BY DEF LimiterInv, ObservedOK
  <2> QED BY <1>4, <2>1
<1>6. new.tokens \in Int
  BY <1>1, <1>2, <1>3
<1>7. BucketsOK'
  <2> SUFFICES ASSUME NEW m \in Node, NEW a \in DOMAIN buckets'[m]
               PROVE  buckets'[m][a].tokens \in Int /\ buckets'[m][a].last \in 0 .. clock
    BY <1>3 DEF BucketsOK
  <2>1. CASE m = n /\ a = ip
    BY <1>1, <1>3, <1>6, <2>1, LimiterAssumption DEF LimiterInv, LimiterTyped, new
  <2>2. CASE m = n /\ a # ip
    BY <1>3, <2>2 DEF LimiterInv, BucketsOK
  <2>3. CASE m # n
    BY <1>3, <2>3 DEF LimiterInv, BucketsOK
  <2> QED BY <2>1, <2>2, <2>3

<1>8. ASSUME NEW p \in DOMAIN observed, p # here
      PROVE  ~(p[1] = n /\ p[2] = ip) /\ p[1] \in Node
  BY <1>8 DEF LimiterInv, ObservedOK
<1>9. ASSUME here \in DOMAIN observed, observed'[here].seen > 0
      PROVE  LET o == observed'[here]
             IN  /\ o.seen * One + new.tokens <= Larger(o.capacity, One) + o.rate * (clock - o.since)
                 /\ o.seen * One <= Larger(o.capacity, One) + o.rate * (clock - o.since)
  <2> DEFINE o    == observed[here]
             most == Larger(o.capacity, One)
             in   == o.rate * (clock - o.since)
  <2>1. /\ o.since \in Nat /\ o.since <= clock /\ o.seen \in Nat /\ o.capacity \in Nat /\ o.rate \in Nat
        /\ limits.capacity <= o.capacity /\ limits.rate <= o.rate
        /\ most \in Nat /\ most >= One /\ most >= o.capacity
        /\ o.seen * One \in Nat /\ (o.seen + 1) * One = o.seen * One + One
    BY <1>1, <1>9 DEF LimiterInv, ObservedOK, Within, Larger
  <2>2. in \in Nat
    BY <1>1, <2>1
  <2>3. CASE o.seen = 0
    <3>1. passes /\ observed'[here].seen = 1
      BY <1>5, <1>9, <2>1, <2>3
    <3>2. new.tokens <= limits.capacity - One
      BY <1>1, <1>2, <1>3, <3>1 DEF tokens, Smaller
    <3> HIDE DEF most, in, o
    <3>3. 1 * One + new.tokens <= most + in /\ 1 * One <= most + in
      BY <1>1, <1>6, <2>1, <2>2, <3>2
    <3> QED BY <1>5, <1>9, <3>1, <3>3 DEF most, in, o
  <2>4. CASE o.seen > 0
    <3>1. /\ known /\ b.last >= o.since
          /\ o.seen * One + b.tokens <= most + o.rate * (b.last - o.since)
      BY <1>9, <2>4 DEF LimiterInv, Paid, b
    <3>2. o.seen * One <= most + in
      BY <1>9 DEF LimiterInv, BurstBounded
    <3>3. o.seen * One + b.tokens + (clock - b.last) * limits.rate <= most + in
      <4>1. b.last \in Nat /\ b.last <= clock /\ clock \in Nat /\ o.seen * One + b.tokens \in Int
        BY <1>1, <1>2, <2>1, <3>1 DEF LimiterInv, LimiterTyped
      <4> HIDE DEF most, o
      <4> QED BY <2>1, <3>1, <4>1, Refill
    <3>4. tokens <= b.tokens + (clock - b.last) * limits.rate
      BY <1>1, <1>2, <3>1 DEF tokens, Smaller
    <3>5. (clock - b.last) * limits.rate \in Int
      BY <1>1, <1>2, <3>1
    <3> HIDE DEF most, in, o
    <3>6. o.seen * One + tokens <= most + in
      BY <1>2, <2>1, <2>2, <3>1, <3>3, <3>4, <3>5
    <3>7. CASE passes
      <4>1. new.tokens = tokens - One /\ tokens >= One /\ observed'[here].seen = o.seen + 1
        BY <1>3, <1>5, <1>9, <3>1, <3>7 DEF passes, o
      <4>2. (o.seen + 1) * One + new.tokens <= most + in /\ (o.seen + 1) * One <= most + in
        BY <1>1, <1>2, <2>1, <2>2, <3>1, <3>6, <4>1
      <4> QED BY <1>5, <1>9, <4>1, <4>2 DEF most, in, o
    <3>8. CASE ~passes
      <4>1. new.tokens = tokens /\ observed'[here].seen = o.seen
        BY <1>3, <1>5, <1>9, <3>1, <3>8 DEF o
      <4> QED BY <1>5, <1>9, <3>2, <3>6, <4>1 DEF most, in, o
    <3> QED BY <3>7, <3>8
  <2> QED BY <2>1, <2>3, <2>4
<1>10. Paid'
  <2> SUFFICES ASSUME NEW p \in DOMAIN observed, observed'[p].seen > 0
               PROVE  LET o == observed'[p]
                          c == buckets'[p[1]][p[2]]
                      IN  /\ p[2] \in DOMAIN buckets'[p[1]] /\ c.last >= o.since
                          /\ o.seen * One + c.tokens
                               <= Larger(o.capacity, One) + o.rate * (c.last - o.since)
    BY <1>5 DEF Paid
  <2>1. CASE p = here
    <3>1. observed[here].since <= clock
      BY <1>1, <2>1 DEF LimiterInv, ObservedOK
    <3> QED BY <1>3, <1>5, <1>9, <2>1, <3>1 DEF new
  <2>2. CASE p # here
    BY <1>3, <1>5, <1>8, <2>2 DEF LimiterInv, Paid
  <2> QED BY <2>1, <2>2
<1>11. BurstBounded'
  <2> SUFFICES ASSUME NEW p \in DOMAIN observed
               PROVE  LET o == observed'[p]
                      IN  o.seen * One <= Larger(o.capacity, One) + o.rate * (clock - o.since)
    BY <1>5 DEF BurstBounded
  <2>1. CASE p = here /\ observed'[p].seen > 0
    BY <1>9, <2>1
  <2>2. CASE p # here \/ observed'[p].seen = 0
    <3>1. observed'[p].seen = observed[p].seen
      BY <1>5, <2>2 DEF LimiterInv, ObservedOK
    <3> QED BY <1>5, <3>1 DEF LimiterInv, BurstBounded
  <2> QED BY <1>5, <2>1, <2>2
<1> QED BY <1>5, <1>7, <1>10, <1>11

LEMMA AllowLocallyInv ==
  ASSUME LimiterInv, NEW n \in Node, NEW ip \in Address, AllowLocally(n, ip)
  PROVE  LimiterInv'
<1>1. /\ Take(n, ip, LimitsFor(n, ip))
      /\ UNCHANGED <<settings, asked, counters, clock, granted>>
  BY DEF AllowLocally
<1>2. LimitsFor(n, ip).capacity \in Nat /\ LimitsFor(n, ip).rate \in Nat
  BY LimitsAreNumbers DEF LimitsFor, LimiterInv, LimiterTyped
<1>3. <<n, ip>> \in DOMAIN observed => Within(LimitsFor(n, ip), observed[<<n, ip>>])
  BY DEF LimiterInv, ObservedOK
<1>4. /\ BucketsOK' /\ Paid' /\ BurstBounded'
      /\ DOMAIN observed' = DOMAIN observed
      /\ \A p \in DOMAIN observed :
           /\ observed'[p] \in [since: 0 .. clock, seen: Nat, capacity: Nat, rate: Nat]
           /\ observed'[p].capacity = observed[p].capacity
           /\ observed'[p].rate = observed[p].rate
  BY <1>1, <1>2, <1>3, TakeOK
<1>5. LimiterTyped' /\ AskedOK' /\ CountersOK' /\ CallsCounted' /\ WindowBounded'
  BY <1>1 DEF LimiterInv, LimiterTyped, AskedOK, CountersOK, CallsCounted, WindowBounded
<1>6. ObservedOK'
  BY <1>1, <1>4 DEF LimiterInv, ObservedOK, Within, LimitsFor
<1> QED BY <1>4, <1>5, <1>6 DEF LimiterInv

-----------------------------------------------------------------------------
(* A call asks with the limits in force.                                   *)
LEMMA AskInv ==
  ASSUME LimiterInv, NEW g \in Handler, NEW ip \in Address, Ask(g, ip)
  PROVE  LimiterInv'
<1>1. /\ DOMAIN asked' = DOMAIN asked \cup {g}
      /\ \A h \in DOMAIN asked : asked'[h] = asked[h]
      /\ asked'[g] = [ip |-> ip, limits |-> LimitsFor(g[1], ip), window |-> clock]
      /\ g \notin DOMAIN asked
      /\ UNCHANGED <<settings, buckets, counters, clock, observed, granted>>
  BY DEF Ask, With
<1>2. g[1] \in Node /\ settings[g[1]] \in Settings /\ clock \in 0 .. clock
  BY LimiterAssumption DEF LimiterInv, LimiterTyped
<1>3. AskedOK'
  BY <1>1, <1>2 DEF LimiterInv, AskedOK, LimitsFor
<1>4. ObservedOK'
  BY <1>1 DEF LimiterInv, ObservedOK, Within, LimitsFor
<1>5. /\ LimiterTyped' /\ BucketsOK' /\ CountersOK' /\ CallsCounted' /\ WindowBounded' /\ Paid'
      /\ BurstBounded'
  BY <1>1 DEF LimiterInv, LimiterTyped, BucketsOK, CountersOK, CallsCounted, WindowBounded, Paid, BurstBounded
<1> QED BY <1>3, <1>4, <1>5 DEF LimiterInv

LEMMA IncrementOK ==
  ASSUME LimiterInv, NEW h \in DOMAIN asked, Increment(h), clock' = clock
  PROVE  /\ CountersOK' /\ Key(h) \in Keys /\ Count(h) \in Nat /\ Count(h) > 0
         /\ DOMAIN counters' = DOMAIN counters \cup {Key(h)}
         /\ counters'[Key(h)].count = Count(h)
         /\ \A key \in DOMAIN counters : counters'[key].count >= counters[key].count
<1> DEFINE key == Key(h)
<1>1. key \in Keys /\ clock + 2 \in Int /\ clock + 2 >= key[2] + 2
  BY LimiterAssumption DEF Key, Keys, LimiterInv, LimiterTyped, AskedOK
<1>2. /\ Count(h) \in Nat /\ Count(h) > 0
      /\ key \in DOMAIN counters => Count(h) >= counters[key].count
  BY DEF Count, LimiterInv, CountersOK
<1>3. /\ DOMAIN counters' = DOMAIN counters \cup {key}
      /\ counters'[key] = [count |-> Count(h), expires |-> clock + 2]
      /\ \A k \in DOMAIN counters : k # key => counters'[k] = counters[k]
  BY DEF Increment, With
<1> HIDE DEF key
<1>4. CountersOK'
  BY <1>1, <1>2, <1>3 DEF LimiterInv, CountersOK
<1>5. \A k \in DOMAIN counters : counters'[k].count >= counters[k].count
  BY <1>2, <1>3 DEF LimiterInv, CountersOK
<1> QED BY <1>1, <1>2, <1>3, <1>4, <1>5 DEF key

(* A call that Redis has answered is forgotten.                            *)
LEMMA ForgetOK ==
  ASSUME LimiterInv, NEW h, asked' = Without(asked, h), UNCHANGED clock
  PROVE  AskedOK' /\ \A g \in DOMAIN asked' : g \in DOMAIN asked /\ asked'[g] = asked[g]
<1>1. \A g \in DOMAIN asked' : g \in DOMAIN asked /\ asked'[g] = asked[g]
  BY DEF Without
<1> QED BY <1>1 DEF LimiterInv, AskedOK

(* What passes is one of those counted, and the count is within the limit. *)
LEMMA AnswerInv ==
  ASSUME LimiterInv, NEW h \in Handler, Answer(h)
  PROVE  LimiterInv'
<1> DEFINE key == Key(h)
           passes == Count(h) * One <= asked[h].limits.capacity /\ clock <= asked[h].window + 1
<1>1. /\ h \in DOMAIN asked /\ Increment(h) /\ asked' = Without(asked, h)
      /\ UNCHANGED <<settings, buckets, clock, observed>>
  BY DEF Answer
<1>2. /\ CountersOK' /\ key \in Keys /\ Count(h) \in Nat /\ Count(h) > 0
      /\ DOMAIN counters' = DOMAIN counters \cup {key}
      /\ counters'[key].count = Count(h)
      /\ \A k \in DOMAIN counters : counters'[k].count >= counters[k].count
  BY <1>1, IncrementOK
<1>3. granted' = IF passes THEN [granted EXCEPT ![key] = @ + 1] ELSE granted
  BY DEF Answer
<1>4. key = <<asked[h].ip, asked[h].window>> /\ key[2] = asked[h].window /\ key[1] = asked[h].ip
  BY DEF Key
<1> HIDE DEF key, passes
<1>5. /\ granted' \in [Keys -> Nat]
      /\ \A k \in Keys : granted'[k] = IF k = key /\ passes THEN granted[k] + 1 ELSE granted[k]
  BY <1>2, <1>3 DEF LimiterInv, LimiterTyped
<1>6. LimiterTyped' /\ BucketsOK' /\ Paid' /\ BurstBounded'
  BY <1>1, <1>5 DEF LimiterInv, LimiterTyped, BucketsOK, Paid, BurstBounded
<1>7. AskedOK' /\ ObservedOK'
  BY <1>1, ForgetOK DEF LimiterInv, ObservedOK, LimitsFor
<1>8. granted[key] > 0 /\ clock <= key[2] + 1 => Count(h) > granted[key]
  <2>1. key \in DOMAIN counters => Count(h) = counters[key].count + 1 /\ counters[key].count \in Nat
    BY DEF Count, key, LimiterInv, CountersOK
  <2> QED BY <1>2, <2>1 DEF LimiterInv, CallsCounted, LimiterTyped
<1>9. CallsCounted'
  <2> SUFFICES ASSUME NEW k \in Keys, granted'[k] > 0, clock <= k[2] + 1
               PROVE  k \in DOMAIN counters' /\ granted'[k] <= counters'[k].count
    BY <1>1 DEF CallsCounted
  <2>1. CASE k = key
    BY <1>2, <1>5, <1>8, <2>1 DEF LimiterInv, LimiterTyped
  <2>2. CASE k # key
    <3>1. k \in DOMAIN counters /\ granted[k] <= counters[k].count
      BY <1>5, <2>2 DEF LimiterInv, CallsCounted
    <3>2. counters[k].count \in Nat /\ counters'[k].count \in Nat /\ granted[k] \in Nat
      BY <1>2, <3>1 DEF LimiterInv, CountersOK, LimiterTyped
    <3> QED BY <1>2, <1>5, <2>2, <3>1, <3>2
  <2> QED BY <2>1, <2>2
<1>10. WindowBounded'
  <2> SUFFICES ASSUME NEW k \in Keys
               PROVE  \E s \in Settings : granted'[k] * One <= LimitsOf(s, k[1]).capacity
    BY DEF WindowBounded
  <2>1. CASE k = key /\ passes
    <3>1. PICK s \in Settings : asked[h].limits = LimitsOf(s, asked[h].ip)
      BY <1>1 DEF LimiterInv, AskedOK
    <3>2. granted'[key] <= Count(h)
      BY <1>2, <1>4, <1>5, <1>8, <2>1 DEF LimiterInv, LimiterTyped, passes
    <3>3. granted'[key] * One <= Count(h) * One /\ granted'[key] * One \in Int /\ Count(h) * One \in Int
      BY <1>2, <1>5, <3>2, ProductGrows, LimiterAssumption
    <3>4. Count(h) * One <= LimitsOf(s, key[1]).capacity /\ LimitsOf(s, key[1]).capacity \in Nat
      BY <1>4, <2>1, <3>1, LimitsAreNumbers DEF passes
    <3> QED BY <2>1, <3>3, <3>4
  <2>2. CASE ~(k = key /\ passes)
    BY <1>5, <2>2 DEF LimiterInv, WindowBounded
  <2> QED BY <2>1, <2>2
<1> QED BY <1>2, <1>6, <1>7, <1>9, <1>10 DEF LimiterInv

LEMMA FallBackInv ==
  ASSUME LimiterInv, NEW h \in Handler, FallBack(h)
  PROVE  LimiterInv'
<1> DEFINE n == h[1]
           ip == asked[h].ip
           limits == asked[h].limits
<1>1. /\ h \in DOMAIN asked /\ asked' = Without(asked, h) /\ Take(n, ip, limits)
      /\ Increment(h) \/ UNCHANGED counters
      /\ UNCHANGED <<settings, clock, granted>>
  BY DEF FallBack
<1>2. /\ n \in Node /\ ip \in Address /\ limits.capacity \in Nat /\ limits.rate \in Nat
      /\ <<n, ip>> \in DOMAIN observed => Within(limits, observed[<<n, ip>>])
  <2>1. \E s \in Settings : limits = LimitsOf(s, ip)
    BY <1>1 DEF LimiterInv, AskedOK
  <2> QED BY <1>1, <2>1, LimitsAreNumbers DEF LimiterInv, AskedOK, ObservedOK
<1> HIDE DEF n, ip, limits
<1>3. /\ BucketsOK' /\ Paid' /\ BurstBounded'
      /\ DOMAIN observed' = DOMAIN observed
      /\ \A p \in DOMAIN observed :
           /\ observed'[p] \in [since: 0 .. clock, seen: Nat, capacity: Nat, rate: Nat]
           /\ observed'[p].capacity = observed[p].capacity
           /\ observed'[p].rate = observed[p].rate
  BY <1>1, <1>2, TakeOK
<1>4. AskedOK' /\ \A g \in DOMAIN asked' : g \in DOMAIN asked /\ asked'[g] = asked[g]
  BY <1>1, ForgetOK
<1>5. ObservedOK'
  BY <1>1, <1>3, <1>4 DEF LimiterInv, ObservedOK, Within, LimitsFor
<1>6. LimiterTyped' /\ WindowBounded'
  BY <1>1 DEF LimiterInv, LimiterTyped, WindowBounded
<1>7. CountersOK' /\ CallsCounted'
  <2>1. CASE UNCHANGED counters
    BY <1>1, <2>1 DEF LimiterInv, CountersOK, CallsCounted
  <2>2. CASE Increment(h)
    <3>1. /\ CountersOK' /\ DOMAIN counters \subseteq DOMAIN counters'
          /\ \A key \in DOMAIN counters : counters'[key].count >= counters[key].count
      BY <1>1, <2>2, IncrementOK
    <3>2. \A key \in DOMAIN counters : counters[key].count \in Nat /\ counters'[key].count \in Nat
      BY <3>1 DEF LimiterInv, CountersOK
    <3> QED BY <1>1, <3>1, <3>2 DEF LimiterInv, LimiterTyped, CallsCounted
  <2> QED BY <1>1, <2>1, <2>2
<1> QED BY <1>3, <1>4, <1>5, <1>6, <1>7 DEF LimiterInv

-----------------------------------------------------------------------------
(* Both bounds of an observation can only grow with its limits.            *)
LEMMA ReassignInv ==
  ASSUME LimiterInv, NEW n \in Node, NEW s \in Settings, Reassign(n, s)
  PROVE  LimiterInv'
<1>1. /\ settings' \in [Node -> Settings] /\ settings'[n] = s
      /\ \A m \in Node : m # n => settings'[m] = settings[m]
      /\ UNCHANGED <<buckets, asked, counters, clock, granted>>
  BY DEF Reassign, LimiterInv, LimiterTyped
<1>2. s.capacity \in Nat /\ s.rate \in Nat
  BY LimitsAreNumbers
<1>3. /\ DOMAIN observed' = DOMAIN observed
      /\ \A p \in DOMAIN observed :
           /\ observed[p] \in [since: 0 .. clock, seen: Nat, capacity: Nat, rate: Nat]
           /\ observed'[p] \in [since: 0 .. clock, seen: Nat, capacity: Nat, rate: Nat]
           /\ observed'[p].since = observed[p].since /\ observed'[p].seen = observed[p].seen
           /\ Within(observed[p], observed'[p])
           /\ p[1] = n => Within(s, observed'[p])
  <2>1. \A p \in DOMAIN observed : observed[p] \in [since: 0 .. clock, seen: Nat, capacity: Nat, rate: Nat]
    BY DEF LimiterInv, ObservedOK
  <2>2. observed' = [p \in DOMAIN observed |->
          IF p[1] # n THEN observed[p]
          ELSE [observed[p] EXCEPT !.capacity = Larger(@, s.capacity), !.rate = Larger(@, s.rate)]]
    BY DEF Reassign
  <2> SUFFICES ASSUME NEW p \in DOMAIN observed
               PROVE  /\ observed'[p] \in [since: 0 .. clock, seen: Nat, capacity: Nat, rate: Nat]
                      /\ observed'[p].since = observed[p].since
                      /\ observed'[p].seen = observed[p].seen
                      /\ Within(observed[p], observed'[p])
                      /\ p[1] = n => Within(s, observed'[p])
    BY <2>1, <2>2
  <2>3. CASE p[1] # n
    <3>1. observed'[p] = observed[p]
      BY <2>2, <2>3
    <3> QED BY <2>1, <2>3, <3>1 DEF Within
  <2>4. CASE p[1] = n
    <3>1. observed'[p] = [since |-> observed[p].since, seen |-> observed[p].seen,
                          capacity |-> Larger(observed[p].capacity, s.capacity),
                          rate |-> Larger(observed[p].rate, s.rate)]
      BY <2>1, <2>2, <2>4
    <3> QED BY <1>2, <2>1, <3>1 DEF Larger, Within
  <2> QED BY <2>3, <2>4
<1>4. ASSUME NEW p \in DOMAIN observed
      PROVE  /\ p[1] \in Node /\ Within(settings'[p[1]], observed'[p])
             /\ Within(LimitsFor(p[1], p[2])', observed'[p])
  <2>1. /\ p[1] \in Node /\ Within(settings[p[1]], observed[p])
        /\ Within(LimitsFor(p[1], p[2]), observed[p])
    BY DEF LimiterInv, ObservedOK
  <2>2. CASE p[1] = n
    <3>1. Within(LimitsOf(s, p[2]), observed'[p])
      BY <1>3, <2>1, <2>2, LimitsGrow DEF LimiterInv, LimiterTyped, LimitsFor
    <3> QED BY <1>1, <1>3, <2>1, <2>2, <3>1 DEF LimitsFor
  <2>3. CASE p[1] # n
    <3>1. settings'[p[1]] = settings[p[1]] /\ settings[p[1]] \in Settings
      BY <1>1, <2>1, <2>3 DEF LimiterInv, LimiterTyped
    <3> QED BY <1>3, <2>1, <3>1, LimitsAreNumbers DEF Within, LimitsFor
  <2> QED BY <2>2, <2>3, <2>1
<1>5. ASSUME NEW p \in DOMAIN observed, NEW h \in DOMAIN asked, h[1] = p[1], asked[h].ip = p[2]
      PROVE  Within(asked[h].limits, observed'[p])
  <2>1. Within(asked[h].limits, observed[p])
    BY <1>5 DEF LimiterInv, ObservedOK
  <2>2. asked[h].limits.capacity \in Nat /\ asked[h].limits.rate \in Nat
    BY LimitsAreNumbers DEF LimiterInv, AskedOK
  <2> QED BY <1>3, <2>1, <2>2 DEF Within
<1>6. ObservedOK'
  BY <1>1, <1>3, <1>4, <1>5 DEF LimiterInv, ObservedOK
<1>7. ASSUME NEW p \in DOMAIN observed, NEW time \in Nat
      PROVE  LET o == observed[p]
                 q == observed'[p]
             IN  /\ Larger(o.capacity, One) + o.rate * time <= Larger(q.capacity, One) + q.rate * time
                 /\ Larger(o.capacity, One) + o.rate * time \in Int
                 /\ Larger(q.capacity, One) + q.rate * time \in Int
  <2>1. observed[p].rate * time <= observed'[p].rate * time
    BY <1>3, ProductGrows DEF Within
  <2>2. observed[p].rate * time \in Int /\ observed'[p].rate * time \in Int
    BY <1>3
  <2> QED BY <1>3, <2>1, <2>2, LimiterAssumption DEF Within, Larger
<1>8. Paid'
  <2> SUFFICES ASSUME NEW p \in DOMAIN observed, observed[p].seen > 0
               PROVE  LET o == observed'[p]
                          b == buckets[p[1]][p[2]]
                      IN  /\ p[2] \in DOMAIN buckets[p[1]] /\ b.last >= o.since
                          /\ o.seen * One + b.tokens
                               <= Larger(o.capacity, One) + o.rate * (b.last - o.since)
    BY <1>1, <1>3 DEF Paid
  <2> DEFINE b == buckets[p[1]][p[2]]
             o == observed[p]
  <2>1. /\ p[2] \in DOMAIN buckets[p[1]] /\ b.last >= o.since
        /\ o.seen * One + b.tokens <= Larger(o.capacity, One) + o.rate * (b.last - o.since)
    BY DEF LimiterInv, Paid
  <2>2. b.last - o.since \in Nat /\ b.tokens \in Int /\ o.seen * One \in Int
    BY <1>3, <1>4, <2>1, LimiterAssumption DEF LimiterInv, BucketsOK
  <2> QED BY <1>3, <1>7, <2>1, <2>2
<1>9. BurstBounded'
  <2> SUFFICES ASSUME NEW p \in DOMAIN observed
               PROVE  LET o == observed'[p]
                      IN  o.seen * One <= Larger(o.capacity, One) + o.rate * (clock - o.since)
    BY <1>1, <1>3 DEF BurstBounded
  <2>1. clock - observed[p].since \in Nat /\ observed[p].seen * One \in Int
    BY <1>3, LimiterAssumption DEF LimiterInv, LimiterTyped
  <2> QED BY <1>3, <1>7, <2>1 DEF LimiterInv, BurstBounded
<1>10. /\ LimiterTyped' /\ BucketsOK' /\ AskedOK' /\ CountersOK' /\ CallsCounted' /\ WindowBounded'
  BY <1>1 DEF LimiterInv, LimiterTyped, BucketsOK, AskedOK, CountersOK, CallsCounted, WindowBounded
<1> QED BY <1>6, <1>8, <1>9, <1>10 DEF LimiterInv

(* A key does not expire before the second after its window is over.       *)
LEMMA TickInv ==
  ASSUME LimiterInv, LimiterTick
  PROVE  LimiterInv'
<1>1. /\ clock \in 0 .. MaxClock /\ clock' \in 0 .. MaxClock /\ clock' = clock + 1
      /\ 0 .. clock \subseteq 0 .. clock'
      /\ UNCHANGED <<settings, buckets, asked, observed, granted>>
  BY LimiterAssumption DEF LimiterTick, LimiterInv, LimiterTyped
<1>2. /\ DOMAIN counters' = {key \in DOMAIN counters : counters[key].expires > clock'}
      /\ \A key \in DOMAIN counters' : counters'[key] = counters[key]
  BY DEF LimiterTick
<1>3. LimiterTyped' /\ BucketsOK' /\ AskedOK' /\ WindowBounded' /\ Paid'
  <2>1. LimiterTyped' /\ WindowBounded' /\ Paid'
    BY <1>1 DEF LimiterInv, LimiterTyped, WindowBounded, Paid
  <2>2. BucketsOK' /\ AskedOK'
    BY <1>1 DEF LimiterInv, BucketsOK, AskedOK
  <2> QED BY <2>1, <2>2
<1>4. CountersOK'
  BY <1>2 DEF LimiterInv, CountersOK
<1>5. ObservedOK'
  BY <1>1 DEF LimiterInv, ObservedOK, LimitsFor
<1>6. BurstBounded'
  <2> SUFFICES ASSUME NEW p \in DOMAIN observed'
               PROVE  LET o == observed'[p]
                      IN  o.seen * One <= Larger(o.capacity, One) + o.rate * (clock' - o.since)
    BY DEF BurstBounded
  <2> DEFINE o == observed[p]
  <2>1. /\ o.since \in 0 .. clock /\ o.rate \in Nat /\ o.capacity \in Nat /\ o.seen * One \in Int
        /\ o.seen * One <= Larger(o.capacity, One) + o.rate * (clock - o.since)
    BY <1>1, LimiterAssumption DEF LimiterInv, ObservedOK, BurstBounded
  <2> HIDE DEF o
  <2>2. /\ o.rate * (clock + 1 - o.since) = o.rate * (clock - o.since) + o.rate
        /\ o.rate * (clock - o.since) \in Int
    BY <1>1, <2>1
  <2>3. Larger(o.capacity, One) \in Int
    BY <2>1, LimiterAssumption DEF Larger
  <2>4. o.seen * One <= Larger(o.capacity, One) + o.rate * (clock + 1 - o.since)
    BY <2>1, <2>2, <2>3
  <2>5. observed'[p] = o /\ clock' = clock + 1
    BY <1>1 DEF o
  <2> QED BY <1>1, <2>1, <2>2, <2>3, <2>4, <2>5
<1>7. CallsCounted'
  <2> SUFFICES ASSUME NEW key \in Keys, granted[key] > 0, clock + 1 <= key[2] + 1
               PROVE  key \in DOMAIN counters' /\ granted[key] <= counters'[key].count
    BY <1>1 DEF CallsCounted
  <2>1. key[2] \in Int
    BY LimiterAssumption DEF Keys
  <2>2. key \in DOMAIN counters /\ granted[key] <= counters[key].count
    BY <1>1, <2>1 DEF LimiterInv, CallsCounted
  <2>3. counters[key].expires > clock'
    BY <1>1, <2>1, <2>2 DEF LimiterInv, CountersOK
  <2> QED BY <1>2, <2>2, <2>3
<1> QED BY <1>3, <1>4, <1>5, <1>6, <1>7 DEF LimiterInv

(* An observation that begins has seen nothing, and has the limits of the  *)
(* calls that are under way.                                               *)
LEMMA BeginInv ==
  ASSUME LimiterInv, NEW n \in Node, NEW ip \in Address, Begin(n, ip)
  PROVE  LimiterInv'
<1> DEFINE current == {settings[n], LimitsFor(n, ip)} \cup
                        {asked[h].limits : h \in {g \in DOMAIN asked : g[1] = n}}
<1>1. \A m \in current : m.capacity \in Nat /\ m.rate \in Nat
  BY LimitsAreNumbers DEF LimitsFor, LimiterInv, LimiterTyped, AskedOK
<1>2. PICK k \in current, l \in current :
        /\ \A m \in current : m.capacity <= k.capacity /\ m.rate <= l.rate
        /\ observed' = With(NoEntries, <<n, ip>>,
             [since |-> clock, seen |-> 0, capacity |-> k.capacity, rate |-> l.rate])
  BY DEF Begin
<1> DEFINE o == [since |-> clock, seen |-> 0, capacity |-> k.capacity, rate |-> l.rate]
<1>3. DOMAIN observed' = {<<n, ip>>} /\ observed'[<<n, ip>>] = o
  BY <1>2 DEF With, NoEntries
<1>4. UNCHANGED <<settings, buckets, asked, counters, clock, granted>>
  BY DEF Begin
<1>5. /\ o \in [since: 0 .. clock, seen: Nat, capacity: Nat, rate: Nat]
      /\ o.seen = 0 /\ o.since = clock
      /\ \A m \in current : Within(m, o)
  BY <1>1, <1>2, LimiterAssumption DEF Within, LimiterInv, LimiterTyped
<1>6. /\ Within(settings[n], o) /\ Within(LimitsFor(n, ip), o)
      /\ \A h \in DOMAIN asked : h[1] = n => Within(asked[h].limits, o)
  BY <1>5
<1> HIDE DEF o, current
<1>7. ObservedOK'
  BY <1>3, <1>4, <1>5, <1>6 DEF ObservedOK, LimitsFor
<1>8. Paid'
  BY <1>3, <1>5 DEF Paid
<1>9. BurstBounded'
  <2>1. /\ o.seen * One = 0 /\ o.rate * (clock - o.since) = 0
        /\ Larger(o.capacity, One) \in Nat
    BY <1>5, LimiterAssumption DEF Larger, LimiterInv, LimiterTyped
  <2> QED BY <1>3, <1>4, <2>1 DEF BurstBounded
<1>10. LimiterTyped' /\ BucketsOK' /\ AskedOK' /\ CountersOK' /\ CallsCounted' /\ WindowBounded'
  BY <1>4 DEF LimiterInv, LimiterTyped, BucketsOK, AskedOK, CountersOK, CallsCounted, WindowBounded
<1> QED BY <1>7, <1>8, <1>9, <1>10 DEF LimiterInv

-----------------------------------------------------------------------------
(***************************************************************************)
(* The invariant of the limiter.                                           *)
(***************************************************************************)
THEOREM LimiterInvariance == LimiterSpec => []LimiterInv
<1>1. LimiterInv /\ [LimiterNext]_<<limiter, redis_client>> => LimiterInv'
  <2> SUFFICES ASSUME LimiterInv, [LimiterNext]_<<limiter, redis_client>> PROVE LimiterInv'
    OBVIOUS
  <2>1. ASSUME NEW n \in Node, NEW ip \in Address, AllowLocally(n, ip) PROVE LimiterInv'
    BY <2>1, AllowLocallyInv
  <2>2. ASSUME NEW n \in Node, NEW ip \in Address, Begin(n, ip) PROVE LimiterInv'
    BY <2>2, BeginInv
  <2>3. ASSUME NEW h \in Handler, Answer(h) \/ FallBack(h) PROVE LimiterInv'
    BY <2>3, AnswerInv, FallBackInv
  <2>4. ASSUME NEW h \in Handler, NEW ip \in Address, Ask(h, ip) PROVE LimiterInv'
    BY <2>4, AskInv
  <2>5. ASSUME NEW n \in Node, NEW s \in Settings, Reassign(n, s) PROVE LimiterInv'
    BY <2>5, ReassignInv
  <2>6. CASE LimiterTick
    BY <2>6, TickInv
  <2>7. CASE UNCHANGED <<limiter, redis_client>>
    BY <2>7 DEF limiter, LimiterInv, LimiterTyped, BucketsOK, AskedOK, CountersOK, ObservedOK, Paid,
                BurstBounded, CallsCounted, WindowBounded, LimitsFor
  <2> QED
    BY <2>1, <2>2, <2>3, <2>4, <2>5, <2>6, <2>7 DEF LimiterNext
<1> QED
  BY <1>1, LimiterInitially, PTL DEF LimiterSpec

(***************************************************************************)
(* The bucket of a node keeps what it promises of any stretch of time      *)
(* (rate_limiter.py:41-62), whatever reloads and failures of Redis come.   *)
(***************************************************************************)
THEOREM BurstsAreBounded == LimiterSpec => []BurstBounded
<1>1. LimiterInv => BurstBounded
  BY DEF LimiterInv
<1> QED
  BY <1>1, LimiterInvariance, PTL

(***************************************************************************)
(* Of no window does Redis let more pass than a capacity, over any number  *)
(* of nodes (rate_limiter.py:24-39).                                       *)
(***************************************************************************)
THEOREM WindowsAreBounded == LimiterSpec => []WindowBounded
<1>1. LimiterInv => WindowBounded
  BY DEF LimiterInv
<1> QED
  BY <1>1, LimiterInvariance, PTL

(* What the types of the limiter's state rest on beyond its invariant: a   *)
(* bucket is never emptier than one token short, only a process with Redis *)
(* has calls that wait, and a key is gone as soon as it has expired.       *)
LimiterState ==
  /\ \A n \in Node : /\ DOMAIN buckets[n] \subseteq Address
                     /\ \A ip \in DOMAIN buckets[n] : buckets[n][ip].tokens >= -One
  /\ DOMAIN asked \subseteq Handler /\ (asked # NoEntries => redis_client)
  /\ \A key \in DOMAIN counters : counters[key].expires > clock
  /\ allowed \in 0 .. MaxAllowed

LEMMA TakeState ==
  ASSUME LimiterInv, LimiterState, NEW n \in Node, NEW a \in Address, NEW limits,
         Take(n, a, limits), limits.capacity \in Nat, limits.rate \in Nat
  PROVE  \A m \in Node : /\ DOMAIN buckets'[m] \subseteq Address
                         /\ \A ip \in DOMAIN buckets'[m] : buckets'[m][ip].tokens >= -One
<1> DEFINE b      == buckets[n][a]
           known  == a \in DOMAIN buckets[n]
           tokens == Smaller(b.tokens + (clock - b.last) * limits.rate, limits.capacity)
<1>1. /\ DOMAIN buckets' = Node
      /\ \A m \in Node : m # n => buckets'[m] = buckets[m]
      /\ DOMAIN buckets'[n] = DOMAIN buckets[n] \cup {a}
      /\ \A ip \in DOMAIN buckets[n] : ip # a => buckets'[n][ip] = buckets[n][ip]
      /\ buckets'[n][a].tokens = IF ~known THEN limits.capacity - One
                                 ELSE IF tokens >= One THEN tokens - One ELSE tokens
  BY DEF Take, With, LimiterInv, BucketsOK
<1>2. One \in Nat
  BY LimiterAssumption
<1>3. ASSUME known PROVE tokens \in Int /\ tokens >= -One
  <2>1. b.tokens \in Int /\ b.tokens >= -One /\ clock - b.last \in Nat
    BY <1>3 DEF LimiterInv, LimiterTyped, BucketsOK, LimiterState
  <2>2. (clock - b.last) * limits.rate \in Nat
    BY <2>1
  <2> HIDE DEF b
  <2> QED BY <1>2, <2>1, <2>2 DEF Smaller
<1>4. buckets'[n][a].tokens >= -One
  <2> HIDE DEF tokens, known
  <2> QED BY <1>1, <1>2, <1>3
<1> QED BY <1>1, <1>4 DEF LimiterState

LEMMA IncrementState ==
  ASSUME LimiterInv, LimiterState, NEW h \in DOMAIN asked, Increment(h)
  PROVE  \A key \in DOMAIN counters' : counters'[key].expires > clock
<1>1. clock \in Int
  BY LimiterAssumption DEF LimiterInv, LimiterTyped
<1>2. /\ DOMAIN counters' = DOMAIN counters \cup {Key(h)}
      /\ \A key \in DOMAIN counters' :
           counters'[key].expires = IF key = Key(h) THEN clock + 2 ELSE counters[key].expires
  BY DEF Increment, With
<1> QED BY <1>1, <1>2 DEF LimiterState

LEMMA LimiterStateNext ==
  ASSUME LimiterInv, LimiterState, [LimiterNext]_<<limiter, redis_client>>
  PROVE  LimiterState'
<1> DEFINE Buckets  == \A n \in Node :
                         /\ DOMAIN buckets[n] \subseteq Address
                         /\ \A ip \in DOMAIN buckets[n] : buckets[n][ip].tokens >= -One
           Waiting  == DOMAIN asked \subseteq Handler /\ (asked # NoEntries => redis_client)
           Counters == \A key \in DOMAIN counters : counters[key].expires > clock
           Allowed  == allowed \in 0 .. MaxAllowed
<1>1. Buckets /\ Waiting /\ Counters /\ Allowed
  BY DEF LimiterState
<1>2. clock \in Int /\ One \in Nat /\ MaxAllowed \in Nat
  BY LimiterAssumption DEF LimiterInv, LimiterTyped
<1>3. ASSUME NEW n \in Node, NEW ip \in Address
      PROVE  LimitsFor(n, ip).capacity \in Nat /\ LimitsFor(n, ip).rate \in Nat
  BY LimitsAreNumbers DEF LimitsFor, LimiterInv, LimiterTyped
<1>4. ASSUME NEW h \in DOMAIN asked
      PROVE  /\ h[1] \in Node /\ asked[h].ip \in Address
             /\ asked[h].limits.capacity \in Nat /\ asked[h].limits.rate \in Nat
  BY LimitsAreNumbers DEF LimiterInv, AskedOK
<1>5. ASSUME NEW h \in DOMAIN asked, asked' = Without(asked, h), UNCHANGED redis_client
      PROVE  Waiting'
  BY <1>1, <1>5 DEF Without, NoEntries
<1>6. ASSUME NEW n \in Node, NEW ip \in Address, AllowLocally(n, ip) PROVE LimiterState'
  <2>1. Buckets'
    BY <1>3, <1>6, TakeState DEF AllowLocally
  <2> QED BY <1>1, <1>2, <1>6, <2>1 DEF AllowLocally, LimiterState
<1>7. ASSUME NEW h \in Handler, NEW ip \in Address, Ask(h, ip) PROVE LimiterState'
  <2>1. DOMAIN asked' = DOMAIN asked \cup {h}
    BY <1>7 DEF Ask, With
  <2> QED BY <1>1, <1>2, <1>7, <2>1 DEF Ask, LimiterState
<1>8. ASSUME NEW h \in Handler, Answer(h) PROVE LimiterState'
  <2>1. Counters'
    BY <1>8, IncrementState DEF Answer
  <2> QED BY <1>1, <1>5, <1>8, <2>1 DEF Answer, LimiterState
<1>9. ASSUME NEW h \in Handler, FallBack(h) PROVE LimiterState'
  <2>1. Counters'
    BY <1>1, <1>9, IncrementState DEF FallBack
  <2>2. Buckets'
    BY <1>4, <1>9, TakeState DEF FallBack
  <2> QED BY <1>1, <1>5, <1>9, <2>1, <2>2 DEF FallBack, LimiterState
<1>10. ASSUME NEW n \in Node, NEW s \in Settings, Reassign(n, s) PROVE LimiterState'
  BY <1>10 DEF Reassign, LimiterState
<1>11. CASE LimiterTick
  <2>1. Counters'
    BY <1>11 DEF LimiterTick
  <2> QED BY <1>1, <1>11, <2>1 DEF LimiterTick, LimiterState
<1>12. ASSUME NEW n \in Node, NEW ip \in Address, Begin(n, ip) PROVE LimiterState'
  BY <1>12 DEF Begin, LimiterState
<1>13. CASE UNCHANGED <<limiter, redis_client>>
  BY <1>13 DEF limiter, LimiterState
<1> QED
  BY <1>6, <1>7, <1>8, <1>9, <1>10, <1>11, <1>12, <1>13 DEF LimiterNext

(***************************************************************************)
(* The types of the limiter's state: the buckets of a node are those of    *)
(* addresses and never more than a token in debt, calls wait only where    *)
(* there is a Redis to wait for, and what Redis holds has not expired      *)
(* (rate_limiter.py:24-62).                                                *)
(***************************************************************************)
THEOREM LimiterIsTyped == LimiterSpec => []LimiterTypeOK
<1>1. LimiterInit => LimiterState
  BY LimiterAssumption DEF LimiterInit, LimiterState, NoEntries
<1>2. LimiterInv /\ LimiterState => LimiterTypeOK
  BY DEF LimiterInv, LimiterTyped, BucketsOK, CountersOK, LimiterState, LimiterTypeOK
<1>3. LimiterInv /\ LimiterState /\ [LimiterNext]_<<limiter, redis_client>> => LimiterState'
  BY LimiterStateNext
<1> QED
  BY <1>1, <1>2, <1>3, LimiterInvariance, PTL DEF LimiterSpec

-----------------------------------------------------------------------------
(***************************************************************************)
(* The blocked addresses and the countries                                 *)
(***************************************************************************)
(* A list without duplicates has the address nowhere once its first        *)
(* mention is removed, and all others as before.                           *)
LEMMA RemoveFirstRemoves ==
  ASSUME NEW S, NEW s \in Seq(S), NEW e, IsInjective(s), Contains(s, e)
  PROVE  /\ RemoveFirst(s, e) \in Seq(S)
         /\ IsInjective(RemoveFirst(s, e))
         /\ ~Contains(RemoveFirst(s, e), e)
         /\ \A x : x # e => (Contains(RemoveFirst(s, e), x) <=> Contains(s, x))
<1>1. PICK i \in 1 .. Len(s) : s[i] = e
  BY DEF Contains
<1>2. {j \in 1 .. Len(s) : s[j] = e} = {i}
  BY <1>1 DEF IsInjective
<1>3. SelectInSeq(s, LAMBDA v : v = e) = i
  <2>1. Min({i}) = i
    BY DEF Min
  <2> QED BY <1>2, <2>1 DEF SelectInSeq
<1> DEFINE t == RemoveAt(s, i)
<1>4. RemoveFirst(s, e) = t
  BY <1>1, <1>3 DEF RemoveFirst
<1>5. /\ t \in Seq(S) /\ Len(t) = Len(s) - 1
      /\ \A j \in 1 .. Len(t) : t[j] = IF j < i THEN s[j] ELSE s[j + 1]
  <2> DEFINE left == SubSeq(s, 1, i - 1)
             right == SubSeq(s, i + 1, Len(s))
  <2>1. /\ left \in Seq(S) /\ Len(left) = i - 1
        /\ \A j \in 1 .. i - 1 : left[j] = s[j]
    BY <1>1
  <2>2. /\ right \in Seq(S) /\ Len(right) = Len(s) - i
        /\ \A j \in 1 .. Len(s) - i : right[j] = s[j + i]
    BY <1>1
  <2>3. t = left \o right
    BY DEF RemoveAt
  <2> HIDE DEF left, right, t
  <2>4. t \in Seq(S) /\ Len(t) = Len(s) - 1
    <3>1. t \in Seq(S) /\ Len(t) = Len(left) + Len(right)
      BY <2>1, <2>2, <2>3, ConcatProperties
    <3> QED BY <1>1, <2>1, <2>2, <3>1
  <2>5. ASSUME NEW j \in 1 .. Len(t) PROVE t[j] = IF j < i THEN s[j] ELSE s[j + 1]
    <3>1. CASE j < i
      BY <1>1, <2>1, <2>2, <2>3, <3>1
    <3>2. CASE ~(j < i)
      <4>1. t[j] = right[j - (i - 1)] /\ j - (i - 1) \in 1 .. Len(s) - i
        BY <1>1, <2>1, <2>2, <2>3, <2>4, <3>2
      <4> QED BY <1>1, <2>2, <3>2, <4>1
    <3> QED BY <3>1, <3>2
  <2> QED BY <2>4, <2>5
<1> HIDE DEF t
<1>6. IsInjective(t)
  <2> SUFFICES ASSUME NEW j \in 1 .. Len(t), NEW k \in 1 .. Len(t), t[j] = t[k]
               PROVE  j = k
    BY <1>5 DEF IsInjective
  <2> DEFINE From(m) == IF m < i THEN m ELSE m + 1
  <2>1. /\ From(j) \in 1 .. Len(s) /\ s[From(j)] = t[j]
        /\ From(k) \in 1 .. Len(s) /\ s[From(k)] = t[k]
    BY <1>1, <1>5
  <2>2. From(j) = From(k)
    BY <2>1 DEF IsInjective
  <2> QED BY <1>1, <2>2
<1>7. ~Contains(t, e)
  <2> SUFFICES ASSUME NEW j \in 1 .. Len(t), t[j] = e PROVE FALSE
    BY DEF Contains
  <2>1. CASE j < i
    <3>1. j \in 1 .. Len(s) /\ s[j] = s[i]
      BY <1>1, <1>5, <2>1
    <3>2. j = i
      BY <1>1, <3>1 DEF IsInjective
    <3> QED BY <2>1, <3>2
  <2>2. CASE ~(j < i)
    <3>1. j + 1 \in 1 .. Len(s) /\ s[j + 1] = s[i]
      BY <1>1, <1>5, <2>2
    <3>2. j + 1 = i
      BY <1>1, <3>1 DEF IsInjective
    <3> QED BY <1>1, <2>2, <3>2
  <2> QED BY <2>1, <2>2
<1>8. ASSUME NEW x, x # e PROVE Contains(t, x) <=> Contains(s, x)
  <2>1. ASSUME NEW j \in 1 .. Len(s), s[j] = x PROVE Contains(t, x)
    <3>1. CASE j < i
      BY <1>1, <1>5, <2>1, <3>1 DEF Contains
    <3>2. CASE j > i
      <4>1. j - 1 \in 1 .. Len(t) /\ t[j - 1] = s[j]
        BY <1>1, <1>5, <3>2
      <4> QED BY <2>1, <4>1 DEF Contains
    <3> QED BY <1>1, <1>8, <2>1, <3>1, <3>2
  <2>2. ASSUME NEW j \in 1 .. Len(t), t[j] = x PROVE Contains(s, x)
    BY <1>1, <1>5, <2>2 DEF Contains
  <2> QED BY <2>1, <2>2 DEF Contains
<1> QED BY <1>4, <1>5, <1>6, <1>7, <1>8

(* What an edit of the list does: it stays without duplicates, the address *)
(* is in it exactly after a block, and all others are as before.           *)
LEMMA EditedOK ==
  ASSUME NEW list \in Seq(Ip), IsInjective(list), NEW what \in {"block", "unblock"},
         NEW ip \in Ip
  PROVE  LET new == Edited(list, what, ip)
         IN  /\ new \in Seq(Ip) /\ IsInjective(new)
             /\ Contains(new, ip) <=> what = "block"
             /\ \A x \in Ip \ {ip} : Contains(new, x) <=> Contains(list, x)
<1>1. CASE what = "block" /\ ~Contains(list, ip)
  <2> DEFINE new == Append(list, ip)
  <2>1. /\ new \in Seq(Ip) /\ Len(new) = Len(list) + 1 /\ new[Len(list) + 1] = ip
        /\ \A j \in 1 .. Len(list) : new[j] = list[j]
    OBVIOUS
  <2> HIDE DEF new
  <2>2. IsInjective(new)
    BY <1>1, <2>1 DEF IsInjective, Contains
  <2>3. Contains(new, ip) /\ \A x \in Ip \ {ip} : Contains(new, x) <=> Contains(list, x)
    BY <2>1 DEF Contains
  <2> QED BY <1>1, <2>1, <2>2, <2>3 DEF Edited, new
<1>2. CASE what = "unblock" /\ Contains(list, ip)
  BY <1>2, RemoveFirstRemoves DEF Edited
<1>3. CASE (what = "block") <=> Contains(list, ip)
  BY <1>3 DEF Edited
<1> QED BY <1>1, <1>2, <1>3

-----------------------------------------------------------------------------
VisitorStages == {"away", "redis", "service", "saving", "admitted", "dropped"}

AdmissionTyped ==
  /\ visit \in [Visitor -> VisitorStages]
  /\ receiving \subseteq Command
  /\ blocked_ips \in [Node -> Seq(Ip)]
  /\ answer \in [Node -> [Ip -> {"none", "block", "unblock"}]]
  /\ under \in [Visitor -> {"none", "block", "unblock"}]

NoDuplicates == \A n \in Node : IsInjective(blocked_ips[n])

(* The list says what was answered last.                                   *)
AnswersTrue ==
  \A n \in Node, ip \in Ip :
    /\ answer[n][ip] = "block" => Contains(blocked_ips[n], ip)
    /\ answer[n][ip] = "unblock" => ~Contains(blocked_ips[n], ip)

(* The answer that a connection came after is still the last.              *)
UnderLast == \A v \in Visitor : under[v] \in {"none", answer[v[1]][v[2]]}

AdmissionInv == AdmissionTyped /\ NoDuplicates /\ AnswersTrue /\ UnderLast /\ AnswersHold

LEMMA VisitorOf == \A v \in Visitor : v[1] \in Node /\ v[2] \in Ip
  BY AdmissionAssumption

LEMMA AdmissionInitially == AdmissionInit => AdmissionInv
<1> SUFFICES ASSUME AdmissionInit PROVE AdmissionInv
  OBVIOUS
<1>1. PICK file \in Files : blocked_ips = [n \in Node |-> file]
  BY DEF AdmissionInit
<1>2. file \in Seq(Ip) /\ IsInjective(file)
  BY AdmissionAssumption
<1>3. AdmissionTyped /\ NoDuplicates
  BY <1>1, <1>2 DEF AdmissionInit, AdmissionTyped, VisitorStages, NoDuplicates
<1>4. AnswersTrue /\ UnderLast /\ AnswersHold
  BY DEF AdmissionInit, AnswersTrue, UnderLast, AnswersHold
<1> QED BY <1>3, <1>4 DEF AdmissionInv

(* A connection goes on under the answer it came after, to a decision by   *)
(* the list as it is, or to another await.                                 *)
LEMMA GoesOnInv ==
  ASSUME AdmissionInv, NEW v \in Visitor, NEW stage \in VisitorStages,
         stage = "dropped" => Contains(blocked_ips[v[1]], v[2]),
         stage = "admitted" => ~Contains(blocked_ips[v[1]], v[2]),
         Visiting(v, stage),
         under' \in {under, [under EXCEPT ![v] = answer[v[1]][v[2]]]},
         UNCHANGED <<receiving, blocked_ips, answer>>
  PROVE  AdmissionInv'
<1>1. /\ visit' \in [Visitor -> VisitorStages]
      /\ \A u \in Visitor : visit'[u] = IF u = v THEN stage ELSE visit[u]
  BY DEF Visiting, AdmissionInv, AdmissionTyped
<1>2. answer[v[1]][v[2]] \in {"none", "block", "unblock"}
  BY VisitorOf DEF AdmissionInv, AdmissionTyped
<1>3. /\ under' \in [Visitor -> {"none", "block", "unblock"}]
      /\ under'[v] \in {"none", answer[v[1]][v[2]]}
      /\ \A u \in Visitor : u # v => under'[u] = under[u]
  BY <1>2 DEF AdmissionInv, AdmissionTyped, UnderLast
<1>4. AdmissionTyped' /\ NoDuplicates' /\ AnswersTrue'
  BY <1>1, <1>3 DEF AdmissionInv, AdmissionTyped, NoDuplicates, AnswersTrue
<1>5. UnderLast'
  BY <1>3 DEF AdmissionInv, UnderLast
<1>6. AnswersHold'
  <2> SUFFICES ASSUME NEW u \in Visitor
               PROVE  /\ visit'[u] = "admitted" => under'[u] # "block"
                      /\ visit'[u] = "dropped" => under'[u] # "unblock"
    BY DEF AnswersHold
  <2>1. CASE u = v
    BY <1>1, <1>3, <2>1, VisitorOf DEF AdmissionInv, AnswersTrue
  <2>2. CASE u # v
    BY <1>1, <1>3, <2>2 DEF AdmissionInv, AnswersHold
  <2> QED BY <2>1, <2>2
<1> QED BY <1>4, <1>5, <1>6 DEF AdmissionInv

LEMMA DecideInv ==
  ASSUME AdmissionInv, NEW v \in Visitor, NEW found, Decide(v, found),
         under' \in {under, [under EXCEPT ![v] = answer[v[1]][v[2]]]},
         UNCHANGED <<receiving, blocked_ips, answer>>
  PROVE  AdmissionInv'
<1> DEFINE stage == IF Contains(blocked_ips[v[1]], v[2]) THEN "dropped" ELSE "admitted"
<1>1. stage \in VisitorStages /\ Visiting(v, stage)
  BY DEF Decide, VisitorStages
<1> QED BY <1>1, GoesOnInv

LEMMA LookupInv ==
  ASSUME AdmissionInv, NEW v \in Visitor,
         Arrive(v) \/ AskRedis(v) \/ AskService(v) \/ SaveCountry(v)
  PROVE  AdmissionInv'
<1> DEFINE Lasts == UNCHANGED <<receiving, blocked_ips, answer>>
<1>1. Lasts /\ under' \in {under, [under EXCEPT ![v] = answer[v[1]][v[2]]]}
  BY DEF Arrive, AskRedis, AskService, SaveCountry
<1>2. \/ \E found : Decide(v, found)
      \/ \E stage \in {"redis", "service", "saving"} : Visiting(v, stage)
  BY DEF Arrive, AskRedis, AskService, SaveCountry
<1>3. \A stage \in {"redis", "service", "saving"} :
        stage \in VisitorStages /\ stage # "dropped" /\ stage # "admitted"
  BY DEF VisitorStages
<1> QED BY <1>1, <1>2, <1>3, DecideInv, GoesOnInv

(* Steps that touch neither a list nor an answer nor a connection.         *)
LEMMA QuietInv ==
  ASSUME AdmissionInv, receiving' \subseteq Command, UNCHANGED <<visit, blocked_ips, answer, under>>
  PROVE  AdmissionInv'
  BY DEF AdmissionInv, AdmissionTyped, NoDuplicates, AnswersTrue, UnderLast, AnswersHold

(* An answer about an address of a node, or about all of them, that others *)
(* have come after is no longer one that a connection came after.          *)
LEMMA OutdateOK ==
  ASSUME AdmissionInv, NEW n \in Node, NEW addresses \in SUBSET Ip, Outdate(n, addresses)
  PROVE  /\ under' \in [Visitor -> {"none", "block", "unblock"}]
         /\ \A v \in Visitor : v[1] = n /\ v[2] \in addresses => under'[v] = "none"
         /\ \A v \in Visitor : under'[v] \in {"none", under[v]}
  BY DEF Outdate, AdmissionInv, AdmissionTyped

LEMMA ExecuteInv ==
  ASSUME AdmissionInv, NEW a \in Command, Execute(a)
  PROVE  AdmissionInv'
<1> DEFINE n == a[1]
           ip == a[3]
           new == Edited(blocked_ips[n], a[2], ip)
           outdated == IF answer[n][ip] = a[2] THEN {} ELSE {ip}
<1>1. n \in Node /\ ip \in Ip /\ a[2] \in {"block", "unblock"}
  BY AdmissionAssumption
<1>2. /\ receiving' \subseteq Command /\ UNCHANGED visit
      /\ blocked_ips' = [blocked_ips EXCEPT ![n] = new]
      /\ answer' = [answer EXCEPT ![n][ip] = a[2]]
      /\ Outdate(n, outdated)
  BY DEF Execute, AdmissionInv, AdmissionTyped
<1>3. /\ new \in Seq(Ip) /\ IsInjective(new) /\ (Contains(new, ip) <=> a[2] = "block")
      /\ \A x \in Ip \ {ip} : Contains(new, x) <=> Contains(blocked_ips[n], x)
  <2>1. blocked_ips[n] \in Seq(Ip) /\ IsInjective(blocked_ips[n])
    BY <1>1 DEF AdmissionInv, AdmissionTyped, NoDuplicates
  <2> HIDE DEF n, ip
  <2> QED BY <1>1, <2>1, EditedOK DEF new
<1>4. /\ under' \in [Visitor -> {"none", "block", "unblock"}]
      /\ \A v \in Visitor : v[1] = n /\ v[2] \in outdated => under'[v] = "none"
      /\ \A v \in Visitor : under'[v] \in {"none", under[v]}
  BY <1>1, <1>2, OutdateOK
<1> HIDE DEF new, outdated
<1>5. /\ blocked_ips' \in [Node -> Seq(Ip)] /\ blocked_ips'[n] = new
      /\ \A m \in Node : m # n => blocked_ips'[m] = blocked_ips[m]
  BY <1>1, <1>2, <1>3 DEF AdmissionInv, AdmissionTyped
<1>6. /\ answer' \in [Node -> [Ip -> {"none", "block", "unblock"}]]
      /\ \A m \in Node, x \in Ip :
           answer'[m][x] = IF m = n /\ x = ip THEN a[2] ELSE answer[m][x]
  BY <1>1, <1>2 DEF AdmissionInv, AdmissionTyped
<1> HIDE DEF n, ip
<1>7. AdmissionTyped' /\ NoDuplicates'
  BY <1>2, <1>3, <1>4, <1>5, <1>6 DEF AdmissionInv, AdmissionTyped, NoDuplicates
<1>8. AnswersTrue'
  <2> SUFFICES ASSUME NEW m \in Node, NEW x \in Ip
               PROVE  /\ answer'[m][x] = "block" => Contains(blocked_ips'[m], x)
                      /\ answer'[m][x] = "unblock" => ~Contains(blocked_ips'[m], x)
    BY DEF AnswersTrue
  <2>1. CASE m = n /\ x = ip
    BY <1>1, <1>3, <1>5, <1>6, <2>1
  <2>2. CASE m = n /\ x # ip
    BY <1>3, <1>5, <1>6, <2>2 DEF AdmissionInv, AnswersTrue
  <2>3. CASE m # n
    BY <1>5, <1>6, <2>3 DEF AdmissionInv, AnswersTrue
  <2> QED BY <2>1, <2>2, <2>3
<1>9. UnderLast'
  <2> SUFFICES ASSUME NEW v \in Visitor PROVE under'[v] \in {"none", answer'[v[1]][v[2]]}
    BY DEF UnderLast
  <2>1. CASE v[1] = n /\ v[2] = ip
    <3>1. CASE answer[n][ip] = a[2]
      BY <1>1, <1>4, <1>6, <2>1, <3>1, VisitorOf DEF AdmissionInv, UnderLast
    <3>2. CASE answer[n][ip] # a[2]
      BY <1>4, <2>1, <3>2 DEF outdated
    <3> QED BY <3>1, <3>2
  <2>2. CASE ~(v[1] = n /\ v[2] = ip)
    BY <1>4, <1>6, <2>2, VisitorOf DEF AdmissionInv, UnderLast
  <2> QED BY <2>1, <2>2
<1>10. AnswersHold'
  BY <1>2, <1>4 DEF AdmissionInv, AdmissionTyped, AnswersHold
<1> QED BY <1>7, <1>8, <1>9, <1>10 DEF AdmissionInv

(* A list from the file answers for nothing yet.                           *)
LEMMA ReplaceInv ==
  ASSUME AdmissionInv, NEW n \in Node, NEW file \in Files, Replace(n, file)
  PROVE  AdmissionInv'
<1>1. file \in Seq(Ip) /\ IsInjective(file)
  BY AdmissionAssumption
<1>2. /\ blocked_ips' \in [Node -> Seq(Ip)] /\ blocked_ips'[n] = file
      /\ \A m \in Node : m # n => blocked_ips'[m] = blocked_ips[m]
      /\ UNCHANGED <<visit, receiving>>
  BY <1>1 DEF Replace, AdmissionInv, AdmissionTyped
<1>3. /\ answer' \in [Node -> [Ip -> {"none", "block", "unblock"}]]
      /\ \A m \in Node, x \in Ip : answer'[m][x] = IF m = n THEN "none" ELSE answer[m][x]
  BY DEF Replace, AdmissionInv, AdmissionTyped
<1>4. /\ under' \in [Visitor -> {"none", "block", "unblock"}]
      /\ \A v \in Visitor : v[1] = n /\ v[2] \in Ip => under'[v] = "none"
      /\ \A v \in Visitor : under'[v] \in {"none", under[v]}
  <2>1. Outdate(n, Ip) /\ Ip \in SUBSET Ip
    BY DEF Replace
  <2> QED BY <2>1, OutdateOK
<1>5. AdmissionTyped' /\ NoDuplicates'
  BY <1>1, <1>2, <1>3, <1>4 DEF AdmissionInv, AdmissionTyped, NoDuplicates
<1>6. AnswersTrue'
  BY <1>2, <1>3 DEF AdmissionInv, AnswersTrue
<1>7. UnderLast'
  BY <1>3, <1>4, VisitorOf DEF AdmissionInv, UnderLast
<1>8. AnswersHold'
  BY <1>2, <1>4 DEF AdmissionInv, AdmissionTyped, AnswersHold
<1> QED BY <1>5, <1>6, <1>7, <1>8 DEF AdmissionInv

-----------------------------------------------------------------------------
(***************************************************************************)
(* The invariant of the block list.                                        *)
(***************************************************************************)
THEOREM AdmissionInvariance == AdmissionSpec => []AdmissionInv
<1>1. AdmissionInv /\ [AdmissionNext]_<<admission, redis_client>> => AdmissionInv'
  <2> SUFFICES ASSUME AdmissionInv, [AdmissionNext]_<<admission, redis_client>> PROVE AdmissionInv'
    OBVIOUS
  <2>1. ASSUME NEW v \in Visitor,
               Arrive(v) \/ AskRedis(v) \/ AskService(v) \/ SaveCountry(v)
        PROVE  AdmissionInv'
    BY <2>1, LookupInv
  <2>2. ASSUME NEW ip \in Ip, CountryExpires(ip) PROVE AdmissionInv'
    BY <2>2, QuietInv DEF CountryExpires, AdmissionInv, AdmissionTyped
  <2>3. ASSUME NEW a \in Command, Receive(a) \/ Refuse(a) PROVE AdmissionInv'
    BY <2>3, QuietInv DEF Receive, Refuse, AdmissionInv, AdmissionTyped
  <2>4. ASSUME NEW a \in Command, Execute(a) PROVE AdmissionInv'
    BY <2>4, ExecuteInv
  <2>5. ASSUME NEW n \in Node, NEW file \in Files, Replace(n, file) PROVE AdmissionInv'
    BY <2>5, ReplaceInv
  <2>6. CASE UNCHANGED <<admission, redis_client>>
    BY <2>6, QuietInv DEF admission, AdmissionInv, AdmissionTyped
  <2> QED
    BY <2>1, <2>2, <2>3, <2>4, <2>5, <2>6 DEF AdmissionNext
<1> QED
  BY <1>1, AdmissionInitially, PTL DEF AdmissionSpec

(***************************************************************************)
(* However many commands and look-ups overlap, who comes after an answer   *)
(* of the admin server is treated by it (admin.py:98-113).                 *)
(***************************************************************************)
THEOREM AnswersAlwaysHold == AdmissionSpec => []AnswersHold
<1>1. AdmissionInv => AnswersHold
  BY DEF AdmissionInv
<1> QED
  BY <1>1, AdmissionInvariance, PTL

-----------------------------------------------------------------------------
CachesOK ==
  /\ country \in [Visitor -> Codes]
  /\ local_cache \in [Node -> [Ip -> Codes]]
  /\ geoip \in [Ip -> Codes]

(* What a look-up does to the caches, and that it is one of its address.   *)
LEMMA LookupCaches ==
  ASSUME AdmissionInv, CachesOK, NEW v \in Visitor, NEW found \in Codes, Cached(v, found)
  PROVE  /\ local_cache' \in [Node -> [Ip -> Codes]]
         /\ \A n \in Node, ip \in Ip :
              ~(v[1] = n /\ v[2] = ip) => local_cache'[n][ip] = local_cache[n][ip]
  BY VisitorOf DEF Cached, CachesOK

LEMMA CachesInv ==
  ASSUME AdmissionInv, CachesOK, [AdmissionNext]_<<admission, redis_client>>
  PROVE  CachesOK'
<1>1. ASSUME NEW v \in Visitor, NEW found \in Codes, Decide(v, found)
      PROVE  country' \in [Visitor -> Codes]
  BY <1>1 DEF Decide, CachesOK
<1>2. ASSUME NEW v \in Visitor, Arrive(v) PROVE CachesOK'
  <2>1. local_cache[v[1]][v[2]] \in Codes
    BY VisitorOf DEF CachesOK
  <2> QED BY <1>1, <1>2, <2>1 DEF Arrive, CachesOK
<1>3. ASSUME NEW v \in Visitor, AskRedis(v) PROVE CachesOK'
  <2>1. geoip[v[2]] \in Codes
    BY VisitorOf DEF CachesOK
  <2> QED BY <1>1, <1>3, <2>1, LookupCaches DEF AskRedis, CachesOK
<1>4. ASSUME NEW v \in Visitor, AskService(v) PROVE CachesOK'
  <2>1. PICK found \in {Located[v[2]], Unknown} :
          /\ Cached(v, found)
          /\ country' = [country EXCEPT ![v] = found] \/ Decide(v, found)
    BY <1>4 DEF AskService
  <2>2. found \in Codes
    BY VisitorOf DEF Codes
  <2> QED BY <1>1, <1>4, <2>1, <2>2, LookupCaches DEF AskService, CachesOK
<1>5. ASSUME NEW v \in Visitor, SaveCountry(v) PROVE CachesOK'
  <2>1. country[v] \in Codes
    BY DEF CachesOK
  <2> QED BY <1>1, <1>5, <2>1 DEF SaveCountry, CachesOK
<1>6. ASSUME NEW ip \in Ip, CountryExpires(ip) PROVE CachesOK'
  BY <1>6 DEF CountryExpires, CachesOK, Codes
<1>7. ASSUME UNCHANGED <<country, local_cache, geoip>> PROVE CachesOK'
  BY <1>7 DEF CachesOK
<1> QED
  BY <1>2, <1>3, <1>4, <1>5, <1>6, <1>7
     DEF AdmissionNext, Receive, Execute, Refuse, Replace, admission

(* Of a settled country nothing is looked up, so that no step caches       *)
(* another, and who arrives finds it and is decided at once.               *)
LEMMA SettledStays ==
  ASSUME AdmissionInv, CachesOK, AdmissionNext, NEW n \in Node, NEW ip \in Ip, NEW code \in Codes,
         Settled(n, ip, code)
  PROVE  Settled(n, ip, code)'
<1>1. ASSUME NEW v \in Visitor, Arrive(v) PROVE Settled(n, ip, code)'
  <2>1. UNCHANGED local_cache
    BY <1>1 DEF Arrive
  <2>2. \E stage \in VisitorStages :
          /\ visit' = [visit EXCEPT ![v] = stage]
          /\ v[1] = n /\ v[2] = ip => stage \in {"dropped", "admitted"}
    BY <1>1 DEF Arrive, Decide, Visiting, VisitorStages, Settled
  <2> QED BY <2>1, <2>2 DEF Settled, InLookup, AdmissionInv, AdmissionTyped
<1>2. ASSUME NEW v \in Visitor, AskRedis(v) \/ AskService(v) \/ SaveCountry(v)
      PROVE  Settled(n, ip, code)'
  <2>1. ~(v[1] = n /\ v[2] = ip)
    BY <1>2 DEF AskRedis, AskService, SaveCountry, Settled, InLookup
  <2>2. \E stage \in VisitorStages : visit' = [visit EXCEPT ![v] = stage]
    BY <1>2 DEF AskRedis, AskService, SaveCountry, Decide, Visiting, VisitorStages
  <2>3. UNCHANGED local_cache \/ \E found \in Codes : Cached(v, found)
    BY <1>2, VisitorOf DEF AskRedis, AskService, SaveCountry, CachesOK, Codes
  <2>4. local_cache'[n][ip] = local_cache[n][ip]
    BY <2>1, <2>3, LookupCaches
  <2> QED BY <2>1, <2>2, <2>4 DEF Settled, InLookup, AdmissionInv, AdmissionTyped
<1>3. ASSUME UNCHANGED <<visit, local_cache>> PROVE Settled(n, ip, code)'
  BY <1>3 DEF Settled, InLookup
<1> QED
  BY <1>1, <1>2, <1>3 DEF AdmissionNext, CountryExpires, Receive, Execute, Refuse, Replace

(***************************************************************************)
(* However many look-ups of however many nodes overlapped, the country a   *)
(* process has cached stays once they are over (geoip.py:32-59).           *)
(***************************************************************************)
THEOREM CountryStays == AdmissionSpec => CountrySettled
<1>1. AdmissionInit => CachesOK
  BY DEF AdmissionInit, CachesOK, Codes
<1>2. AdmissionInv /\ CachesOK /\ [AdmissionNext]_<<admission, redis_client>> => CachesOK'
  BY CachesInv
<1>3. AdmissionInv /\ CachesOK /\ [AdmissionNext]_<<admission, redis_client>>
        => [\A n \in Node, ip \in Ip, code \in Codes :
              Settled(n, ip, code) => Settled(n, ip, code)']_<<admission, redis_client>>
  BY SettledStays
<1> QED
  BY <1>1, <1>2, <1>3, AdmissionInvariance, PTL DEF AdmissionSpec, CountrySettled

-----------------------------------------------------------------------------
(***************************************************************************)
(* The election, for every lease longer than a sleep and the calls of two  *)
(* rounds                                                                  *)
(***************************************************************************)
USE ElectionAssumption

(* A node owns the lock when it leads, or is about to learn that it does.  *)
Told(n)  == call[n] = "set" /\ reply[n] = "yes"
Owner(n) == is_leader[n] \/ Told(n)

(* How long the owner may still take until Redis renews its lock: what is  *)
(* left of this round, unless it has renewed in it; if so, also the sleep  *)
(* and the next round.                                                     *)
Remaining(n) ==
  CASE call[n] = "sleep" -> timer[n] + Round
    [] Told(n) \/ (call[n] = "expire" /\ reply[n] # "none") -> timer[n] + Pause + Round
    [] OTHER -> timer[n]

LeaseCovers ==
  redis_client =>
    \A n \in Node \ disturbed : Owner(n) => holder = n /\ ttl > Remaining(n)

ElectionInv ==
  /\ ElectionTypeOK
  /\ holder # Nobody => ttl > 0
  /\ \A n \in Node : is_leader[n] => call[n] # "down"
  /\ LeaseCovers

LEMMA ElectionInitially == RedisInit /\ ElectionInit => ElectionInv
<1> SUFFICES ASSUME RedisInit, ElectionInit PROVE ElectionInv
  OBVIOUS
<1>1. is_leader \in [Node -> BOOLEAN]
  BY Zenon DEF ElectionInit
<1>2. /\ call \in [Node -> Calls \cup {"sleep", "down", "idle"}]
      /\ \A n \in Node : call[n] # "sleep" /\ call[n] # "down"
  BY DEF ElectionInit, Calls
<1>3. /\ reply \in [Node -> {"none", "yes", "no"}] /\ timer \in [Node -> Nat]
      /\ \A n \in Node : timer[n] = Round
  BY DEF ElectionInit
<1>4. LockOK
  BY <1>2, <1>3 DEF ElectionInit, LockOK, InTime
<1>5. ASSUME redis_client, NEW n \in Node PROVE ~Owner(n)
  BY <1>5 DEF ElectionInit, Owner, Told
<1> QED
  BY <1>1, <1>2, <1>4, <1>5 DEF RedisInit, ElectionInit, ElectionInv, ElectionTypeOK, LeaseCovers

-----------------------------------------------------------------------------
(* Of a step of one node: what it leaves alone, and the types of the rest. *)
LEMMA GoesType ==
  ASSUME LockOK, NEW n \in Node, NEW time \in Nat,
         NEW what \in Calls \cup {"sleep", "down"},
         InTime(what, time), Goes(n, what, time)
  PROVE  /\ call' \in [Node -> Calls \cup {"sleep", "down", "idle"}]
         /\ reply' \in [Node -> {"none", "yes", "no"}]
         /\ timer' \in [Node -> Nat]
         /\ \A m \in Node : InTime(call'[m], timer'[m])
         /\ call'[n] = what /\ reply'[n] = "none" /\ timer'[n] = time
         /\ \A m \in Node \ {n} : /\ call'[m] = call[m]
                                  /\ reply'[m] = reply[m] /\ timer'[m] = timer[m]
BY DEF LockOK, InTime, Goes

(* A node that is not touched keeps its claim and its time.                *)
LEMMA Untouched ==
  ASSUME NEW m \in Node,
         call'[m] = call[m], reply'[m] = reply[m], timer'[m] = timer[m],
         is_leader'[m] = is_leader[m]
  PROVE  Owner(m)' = Owner(m) /\ Remaining(m)' = Remaining(m)
BY DEF Owner, Told, Remaining

(* An owner never needs as long as a fresh lease.                          *)
LEMMA RemainingBounds ==
  ASSUME LockOK, NEW n \in Node
  PROVE  Remaining(n) \in Nat /\ Remaining(n) < Lease
<1>1. timer[n] \in Nat /\ InTime(call[n], timer[n])
  BY DEF LockOK, InTime
<1>2. CASE call[n] = "sleep"
  BY <1>1, <1>2 DEF Remaining, Told, InTime
<1>3. CASE call[n] # "sleep"
  BY <1>1, <1>3 DEF Remaining, InTime
<1> QED
  BY <1>2, <1>3

-----------------------------------------------------------------------------
(* Redis executes a call.                                                  *)
LEMMA ServesInv ==
  ASSUME ElectionInv, NEW n \in Node, Serves(n)
  PROVE  ElectionInv'
<1> USE DEF ElectionInv, ElectionTypeOK
<1>1. \E what \in Calls, yes \in BOOLEAN : Executes(n, what, yes)
  <2>1. (ttl # 0) \in BOOLEAN /\ (holder = n) \in BOOLEAN
    OBVIOUS
  <2> QED BY <2>1 DEF Serves, RedisSets, RedisKeeps, RedisGets, RedisExpires, Calls
<1>2. /\ call' = call /\ timer' = timer /\ is_leader' = is_leader
      /\ vacant' = vacant /\ faults' = faults /\ redis_client' = redis_client
      /\ reply[n] = "none" /\ reply' \in [Node -> {"none", "yes", "no"}]
      /\ reply'[n] # "none"
      /\ \A m \in Node \ {n} : reply'[m] = reply[m]
  BY <1>1 DEF Executes, LockOK, InTime
<1>3. /\ holder' \in Node \cup {Nobody} /\ ttl' \in 0 .. Lease
      /\ disturbed' \in SUBSET Node
      /\ holder' # Nobody => ttl' > 0
  <2>1. CASE RedisSets(n)
    BY <2>1 DEF RedisSets, LockOK, InTime
  <2>2. CASE RedisKeeps(n)
    BY <2>2 DEF RedisKeeps, LockOK, InTime
  <2>3. CASE RedisGets(n)
    BY <2>3 DEF RedisGets, LockOK, InTime
  <2>4. CASE RedisExpires(n)
    BY <2>4 DEF RedisExpires, LockOK, InTime
  <2> QED BY <2>1, <2>2, <2>3, <2>4 DEF Serves
<1>4. ElectionTypeOK'
  BY <1>2, <1>3 DEF LockOK, InTime
<1>5. ASSUME NEW m \in Node \ {n} PROVE Owner(m)' = Owner(m) /\ Remaining(m)' = Remaining(m)
  BY <1>2, Untouched
<1>6. \A m \in Node : Remaining(m) \in Nat /\ Remaining(m) < Lease
  BY RemainingBounds
<1>7. \A m \in Node : Remaining(m)' \in Nat /\ Remaining(m)' < Lease
  <2>1. ASSUME NEW m \in Node
        PROVE  timer'[m] \in Nat /\ InTime(call'[m], timer'[m])
    BY <1>4 DEF LockOK, InTime
  <2> QED BY <2>1 DEF Remaining, Told, InTime
<1>8. CASE RedisSets(n)
  <2>1. redis_client => \A m \in Node \ disturbed : ~Owner(m)
    BY <1>6, <1>8 DEF RedisSets, LeaseCovers
  <2>2. holder' = n /\ ttl' = Lease /\ disturbed' = disturbed \ {n}
    BY <1>8 DEF RedisSets
  <2>3. LeaseCovers'
    BY <2>1, <2>2, <1>2, <1>5, <1>7 DEF LeaseCovers
  <2> QED BY <2>3, <1>2, <1>3, <1>4
<1>9. CASE RedisKeeps(n) \/ RedisGets(n)
  <2>1. holder' = holder /\ ttl' = ttl /\ disturbed' = disturbed
    BY <1>9 DEF RedisKeeps, RedisGets
  <2>2. Owner(n)' = Owner(n) /\ Remaining(n)' = Remaining(n)
    <3>1. CASE RedisKeeps(n)
      BY <1>2, <3>1 DEF RedisKeeps, Executes, Owner, Told, Remaining, LockOK, InTime
    <3>2. CASE RedisGets(n)
      BY <1>2, <3>2 DEF RedisGets, Executes, Owner, Told, Remaining, LockOK, InTime
    <3> QED BY <1>9, <3>1, <3>2
  <2>3. LeaseCovers'
    BY <2>1, <2>2, <1>2, <1>5 DEF LeaseCovers
  <2> QED BY <2>3, <1>2, <1>3, <1>4
<1>10. CASE RedisExpires(n)
  <2>1. /\ call[n] = "expire" /\ holder' = holder
        /\ ttl' = IF ttl # 0 THEN Lease ELSE 0
        /\ disturbed' = IF holder = n THEN disturbed \ {n} ELSE disturbed
    BY <1>10 DEF RedisExpires, Executes
  <2>2. Owner(n)' = Owner(n)
    BY <1>2, <2>1 DEF Owner, Told
  <2>3. ASSUME redis_client, NEW m \in Node \ disturbed', Owner(m)'
        PROVE  holder' = m /\ ttl' > Remaining(m)'
    <3>1. CASE m = n
      <4>1. holder = n
        BY <2>1, <2>2, <2>3, <3>1 DEF LeaseCovers
      <4>2. ttl' = Lease
        BY <2>1, <4>1 DEF LockOK, InTime
      <4> QED BY <2>1, <4>1, <4>2, <3>1, <1>7
    <3>2. CASE m # n
      <4>1. holder = m /\ ttl > Remaining(m)
        BY <2>1, <2>3, <3>2, <1>5 DEF LeaseCovers
      <4>2. ttl' = Lease
        BY <2>1, <4>1, <1>6 DEF LockOK, InTime
      <4> QED BY <2>1, <4>1, <4>2, <1>7
    <3> QED BY <3>1, <3>2
  <2>4. LeaseCovers'
    BY <2>3, <1>2 DEF LeaseCovers
  <2> QED BY <2>4, <1>2, <1>3, <1>4
<1> QED
  BY <1>8, <1>9, <1>10 DEF Serves

(* A coroutine goes on.                                                    *)
LEMMA ResumesInv ==
  ASSUME ElectionInv, NEW n \in Node, Resumes(n)
  PROVE  ElectionInv'
<1> USE DEF ElectionInv, ElectionTypeOK
<1>1. PICK what \in Calls \cup {"sleep"}, time \in Nat :
        Goes(n, what, time) /\ InTime(what, time)
  <2>1. timer[n] \in Nat /\ (call[n] # "sleep" => timer[n] <= Round)
    BY DEF LockOK, InTime
  <2> QED BY <2>1 DEF Resumes, Acquired, Compared, Renewed, Wake, Calls, InTime
<1>2. /\ holder' = holder /\ ttl' = ttl /\ vacant' = vacant /\ faults' = faults
      /\ redis_client' = redis_client
      /\ disturbed' \in SUBSET Node
      /\ is_leader' \in [Node -> BOOLEAN]
      /\ \A m \in Node \ {n} : is_leader'[m] = is_leader[m] /\ (m \in disturbed <=> m \in disturbed')
  BY DEF Resumes, Acquired, Compared, Renewed, Wake, LockOK, InTime
<1>3. /\ call' \in [Node -> Calls \cup {"sleep", "down", "idle"}]
      /\ reply' \in [Node -> {"none", "yes", "no"}]
      /\ timer' \in [Node -> Nat]
      /\ \A m \in Node : InTime(call'[m], timer'[m])
      /\ call'[n] = what /\ reply'[n] = "none" /\ timer'[n] = time
      /\ \A m \in Node \ {n} : /\ call'[m] = call[m]
                               /\ reply'[m] = reply[m] /\ timer'[m] = timer[m]
  BY <1>1, GoesType
<1>4. ElectionTypeOK'
  BY <1>2, <1>3 DEF LockOK, InTime
<1>5. \A m \in Node : is_leader'[m] => call'[m] # "down"
  BY <1>2, <1>3 DEF Calls
<1>6. ASSUME NEW m \in Node \ {n} PROVE Owner(m)' = Owner(m) /\ Remaining(m)' = Remaining(m)
  BY <1>2, <1>3, Untouched
<1>7. ASSUME n \notin disturbed', Owner(n)'
      PROVE  n \notin disturbed /\ Owner(n) /\ Remaining(n)' <= Remaining(n)
  <2>1. timer[n] \in Nat /\ (call[n] # "sleep" => timer[n] <= Round)
    BY DEF LockOK, InTime
  <2>2. is_leader'[n]
    BY <1>3, <1>7 DEF Owner, Told
  <2>3. CASE Acquired(n)
    <3>1. CASE reply[n] = "yes"
      <4>1. call'[n] = "sleep" /\ timer'[n] = Pause /\ call[n] = "set" /\ reply[n] = "yes"
        BY <1>3, <2>3, <3>1 DEF Acquired, Goes, LockOK
      <4>2. Remaining(n)' = Pause + Round /\ Remaining(n) = timer[n] + Pause + Round
        BY <4>1 DEF Remaining, Told
      <4>3. n \notin disturbed
        BY <1>7, <2>3 DEF Acquired
      <4> QED BY <2>1, <4>1, <4>2, <4>3 DEF Owner, Told
    <3>2. CASE reply[n] # "yes"
      BY <1>3, <2>1, <2>2, <2>3, <3>2, <1>7 DEF Acquired, Goes, Owner, Told, Remaining
    <3> QED BY <3>1, <3>2
  <2>4. CASE Compared(n)
    BY <1>3, <2>1, <2>2, <2>4, <1>7 DEF Compared, Goes, Owner, Told, Remaining, LockOK, InTime
  <2>5. CASE Renewed(n)
    BY <1>3, <2>1, <2>2, <2>5, <1>7 DEF Renewed, Goes, Owner, Told, Remaining, LockOK, InTime
  <2>6. CASE Wake(n)
    BY <1>3, <2>1, <2>2, <2>6, <1>7 DEF Wake, Goes, Owner, Told, Remaining, LockOK, InTime
  <2> QED BY <2>3, <2>4, <2>5, <2>6 DEF Resumes
<1>8. \A m \in Node : Remaining(m) \in Nat
  BY RemainingBounds
<1>9. Remaining(n)' \in Nat
  BY <1>3 DEF Remaining, Told
<1>10. LeaseCovers'
  <2> SUFFICES ASSUME redis_client', NEW m \in Node \ disturbed', Owner(m)'
               PROVE  holder' = m /\ ttl' > Remaining(m)'
    BY DEF LeaseCovers
  <2>1. CASE m = n
    <3>1. holder = n /\ ttl > Remaining(n)
      BY <1>2, <1>7, <2>1 DEF LeaseCovers
    <3> QED BY <1>2, <1>7, <1>8, <1>9, <2>1, <3>1 DEF LockOK, InTime
  <2>2. CASE m # n
    BY <1>2, <1>6, <2>2 DEF LeaseCovers
  <2> QED BY <2>1, <2>2
<1> QED
  BY <1>2, <1>4, <1>5, <1>10

(* Exceptions, crashes and restarts.                                       *)
LEMMA FaultInv ==
  ASSUME ElectionInv, NEW n \in Node, Fail(n) \/ Crash(n) \/ Restart(n)
  PROVE  ElectionInv'
<1> USE DEF ElectionInv, ElectionTypeOK
<1>1. PICK what \in Calls \cup {"sleep", "down"}, time \in Nat :
        Goes(n, what, time) /\ InTime(what, time)
  BY DEF Fail, Crash, Restart, Calls, InTime
<1>2. /\ holder' \in Node \cup {Nobody} /\ ttl' = ttl /\ vacant' \in Nat
      /\ faults' \in 0 .. MaxFaults /\ redis_client' = redis_client
      /\ disturbed' \in SUBSET Node /\ is_leader' \in [Node -> BOOLEAN]
      /\ \A m \in Node \ {n} : /\ is_leader'[m] = is_leader[m]
                               /\ m \in disturbed <=> m \in disturbed'
                               /\ holder = m => holder' = m
      /\ holder' # Nobody => holder # Nobody
  <2>1. CASE Fail(n)
    BY <2>1 DEF Fail, Faulty, LockOK, InTime
  <2>2. CASE Crash(n)
    BY <2>2 DEF Crash, Faulty, LockOK, InTime
  <2>3. CASE Restart(n)
    BY <2>3 DEF Restart, LockOK, InTime
  <2> QED BY <2>1, <2>2, <2>3
<1>3. /\ call' \in [Node -> Calls \cup {"sleep", "down", "idle"}]
      /\ reply' \in [Node -> {"none", "yes", "no"}]
      /\ timer' \in [Node -> Nat]
      /\ \A m \in Node : InTime(call'[m], timer'[m])
      /\ call'[n] = what /\ reply'[n] = "none" /\ timer'[n] = time
      /\ \A m \in Node \ {n} : /\ call'[m] = call[m]
                               /\ reply'[m] = reply[m] /\ timer'[m] = timer[m]
  BY <1>1, GoesType
<1>4. ElectionTypeOK'
  BY <1>2, <1>3 DEF LockOK, InTime
<1>5. n \in disturbed' \/ ~Owner(n)'
  BY <1>3 DEF Fail, Crash, Restart, Owner, Told, LockOK, InTime
<1>6. \A m \in Node : is_leader'[m] => call'[m] # "down"
  BY <1>2, <1>3 DEF Fail, Crash, Restart, Goes, LockOK, InTime
<1>7. ASSUME NEW m \in Node \ {n} PROVE Owner(m)' = Owner(m) /\ Remaining(m)' = Remaining(m)
  BY <1>2, <1>3, Untouched
<1>8. LeaseCovers'
  BY <1>2, <1>5, <1>7 DEF LeaseCovers
<1> QED
  BY <1>2, <1>4, <1>6, <1>8

(* Time passes: for an owner that is not overdue the lease and what it     *)
(* still needs of it shrink alike.                                         *)
LEMMA ElectionTickInv ==
  ASSUME ElectionInv, ElectionTick
  PROVE  ElectionInv'
<1> USE DEF ElectionInv, ElectionTypeOK
<1>1. /\ call' = call /\ reply' = reply /\ is_leader' = is_leader
      /\ redis_client' = redis_client /\ disturbed' = disturbed \cup Overdue
      /\ timer' = [n \in Node |-> IF timer[n] > 0 THEN timer[n] - 1 ELSE 0]
      /\ ttl' = IF ttl > 0 THEN ttl - 1 ELSE 0
      /\ holder' = IF ttl > 1 THEN holder ELSE Nobody
  BY DEF ElectionTick
<1>2. vacant' \in Nat /\ faults' \in 0 .. MaxFaults
  BY DEF ElectionTick, LockOK, InTime
<1>3. \A n \in Node : timer'[n] \in Nat /\ timer'[n] <= timer[n]
  BY <1>1 DEF LockOK, InTime
<1>4. ElectionTypeOK'
  BY <1>1, <1>2, <1>3 DEF LockOK, InTime, Overdue, Up
<1>5. LeaseCovers'
  <2> SUFFICES ASSUME redis_client', NEW n \in Node \ disturbed', Owner(n)'
               PROVE  holder' = n /\ ttl' > Remaining(n)'
    BY DEF LeaseCovers
  <2>1. Owner(n) /\ n \notin disturbed
    BY <1>1 DEF Owner, Told
  <2>2. call[n] # "down"
    BY <2>1 DEF Owner, Told
  <2>3. timer[n] \in Nat /\ timer[n] # 0
    BY <1>1, <2>2 DEF Overdue, Up, LockOK, InTime
  <2>4. holder = n /\ ttl > Remaining(n)
    BY <1>1, <2>1 DEF LeaseCovers
  <2>5. timer'[n] = timer[n] - 1
    BY <1>1, <2>3
  <2>6. Remaining(n)' = Remaining(n) - 1 /\ Remaining(n) >= 1 /\ Remaining(n) \in Nat
    BY <1>1, <2>3, <2>5 DEF Remaining, Told
  <2> QED BY <1>1, <2>4, <2>6 DEF LockOK, InTime
<1> QED
  BY <1>1, <1>4, <1>5 DEF LockOK, InTime

-----------------------------------------------------------------------------
(***************************************************************************)
(* The invariant of the election.                                          *)
(***************************************************************************)
THEOREM ElectionInvariance == ElectionSpec => []ElectionInv
<1>1. ElectionInv /\ [ElectionNext]_electionVars => ElectionInv'
  <2> SUFFICES ASSUME ElectionInv, [ElectionNext]_electionVars PROVE ElectionInv'
    OBVIOUS
  <2>1. ASSUME NEW n \in Node, Serves(n) PROVE ElectionInv'
    BY <2>1, ServesInv
  <2>2. ASSUME NEW n \in Node, Resumes(n) PROVE ElectionInv'
    BY <2>2, ResumesInv
  <2>3. ASSUME NEW n \in Node, Fail(n) \/ Crash(n) \/ Restart(n) PROVE ElectionInv'
    BY <2>3, FaultInv
  <2>4. CASE ElectionTick
    BY <2>4, ElectionTickInv
  <2>5. CASE UNCHANGED electionVars
    BY <2>5 DEF electionVars, election, ElectionInv, ElectionTypeOK, LockOK, InTime, LeaseCovers, Owner, Told, Remaining
  <2> QED BY <2>1, <2>2, <2>3, <2>4, <2>5 DEF ElectionNext
<1> QED
  BY <1>1, ElectionInitially, PTL DEF ElectionSpec

(***************************************************************************)
(* However many nodes there are and however often they fail, at most one   *)
(* of those that are not disturbed leads (ha.py:25-51).                    *)
(***************************************************************************)
THEOREM ElectionSafe == ElectionSpec => []AtMostOneLeader
<1>1. ElectionInv => AtMostOneLeader
  BY DEF ElectionInv, LeaseCovers, Owner, AtMostOneLeader, Up
<1> QED
  BY <1>1, ElectionInvariance, PTL

-----------------------------------------------------------------------------
(* The vacancy.  Who has been told that a free lock is its own learns it   *)
(* within its round; a lock that is no longer a node's may be prolonged    *)
(* once more, by the EXPIRE of one that has just found it its own; and who *)
(* finds a lock taken is back after its sleep.                             *)
Stale(n) ==
  ~is_leader[n] /\ holder # n /\ (call[n] = "expire" \/ (call[n] = "get" /\ reply[n] = "yes"))

(* How long a node takes to execute its next SET.                          *)
Wait(n) ==
  CASE call[n] = "set" /\ reply[n] = "none" -> timer[n]
    [] call[n] = "sleep" -> timer[n] + Round
    [] OTHER -> timer[n] + Pause + Round

ToldOK(n) ==
  Told(n) =>
    IF holder = n
      THEN /\ timer[n] = 0 \/ timer[n] + Lease <= Round + ttl
           /\ vacant + timer[n] <= Lease + Pause + 4 * Round
      ELSE timer[n] = 0 /\ vacant = 0

HolderOK(n) ==
  /\ call[n] = "down" \/ (call[n] = "get" /\ reply[n] = "no") => holder # n
  /\ Unaware(n) => vacant = 0
  /\ is_leader[n] /\ holder # n => vacant = 0

StaleOK(n) == Stale(n) => vacant + timer[n] <= Round

LeftBehind == holder = Nobody /\ ttl > 0 => vacant + ttl <= Lease + Round

Free ==
  /\ Up = {} => vacant = 0
  /\ ttl = 0 /\ Up # {} => \E m \in Up : vacant + Wait(m) <= Lease + Pause + 3 * Round

VacancyInv ==
  /\ \A n \in Node : ToldOK(n) /\ HolderOK(n) /\ StaleOK(n)
  /\ LeftBehind /\ Free /\ VacancyBounded

(* What both invariants say of a state, in the form that the steps use.    *)
LEMMA TypesOf ==
  ASSUME ElectionInv, NEW n \in Node
  PROVE  /\ timer[n] \in Nat /\ (call[n] = "sleep" => timer[n] <= Pause)
         /\ (call[n] # "sleep" => timer[n] <= Round)
         /\ vacant \in Nat /\ ttl \in 0 .. Lease /\ holder \in Node \cup {Nobody}
         /\ ttl = 0 => holder = Nobody
         /\ is_leader[n] => call[n] # "down"
         /\ Lease \in Nat /\ Pause \in Nat /\ Round \in Nat
BY DEF ElectionInv, ElectionTypeOK, LockOK, InTime

LEMMA WaitBounds ==
  ASSUME ElectionInv, NEW n \in Node
  PROVE  Wait(n) \in Nat /\ Wait(n) >= timer[n] /\ Wait(n) <= Pause + 2 * Round
BY TypesOf DEF Wait

LEMMA VacancyInit == RedisInit /\ ElectionInit /\ redis_client => VacancyInv
<1> SUFFICES ASSUME RedisInit, ElectionInit, redis_client PROVE VacancyInv
  OBVIOUS
<1>1. ElectionInv
  BY ElectionInitially
<1>2. /\ \A n \in Node : /\ call[n] = "set" /\ reply[n] = "none" /\ timer[n] = Round
                         /\ ~is_leader[n] /\ holder # n
      /\ holder = Nobody /\ ttl = 0 /\ vacant = 0
  BY DEF ElectionInit
<1>3. Free
  BY <1>1, <1>2, WaitBounds DEF Free, Up
<1> QED
  BY <1>2, <1>3 DEF VacancyInv, ToldOK, Told, HolderOK, Unaware, StaleOK, Stale, LeftBehind, VacancyBounded

(* Where nothing counts, what is left to show is about the lock.           *)
LockTold ==
  \A n \in Node :
    /\ Told(n) => IF holder = n THEN timer[n] = 0 \/ timer[n] + Lease <= Round + ttl
                              ELSE timer[n] = 0
    /\ call[n] = "down" \/ (call[n] = "get" /\ reply[n] = "no") => holder # n

LEMMA NoVacancy == ElectionInv /\ vacant = 0 /\ LockTold => VacancyInv
<1> SUFFICES ASSUME ElectionInv, vacant = 0, LockTold PROVE VacancyInv
  OBVIOUS
<1>1. ASSUME NEW n \in Node PROVE ToldOK(n)
  BY TypesOf DEF ToldOK, Told, LockTold
<1>2. ASSUME NEW n \in Node PROVE HolderOK(n) /\ StaleOK(n)
  <2>1. vacant + timer[n] <= Round \/ call[n] = "sleep"
    BY TypesOf
  <2> QED BY <2>1 DEF HolderOK, StaleOK, Stale, LockTold
<1>3. LeftBehind
  BY DEF LeftBehind, ElectionInv, ElectionTypeOK, LockOK
<1>4. ASSUME NEW n \in Node PROVE vacant + Wait(n) <= Lease + Pause + 3 * Round
  <2>1. Wait(n) \in Nat /\ Wait(n) <= Pause + 2 * Round
    BY WaitBounds
  <2> QED BY <2>1
<1>5. Free
  BY <1>4 DEF Free, Up
<1> QED BY <1>1, <1>2, <1>3, <1>5 DEF VacancyInv, VacancyBounded

LEMMA NoVacancyNext == (ElectionInv /\ vacant = 0 /\ LockTold)' => VacancyInv'
BY NoVacancy, PTL

(* A node that a step leaves alone, as the lock.                           *)
LEMMA LeftAlone ==
  ASSUME NEW m \in Node, ToldOK(m), HolderOK(m), StaleOK(m),
         call'[m] = call[m], reply'[m] = reply[m], timer'[m] = timer[m],
         is_leader'[m] = is_leader[m], UNCHANGED <<holder, ttl, vacant>>
  PROVE  ToldOK(m)' /\ HolderOK(m)' /\ StaleOK(m)'
BY DEF ToldOK, Told, HolderOK, Unaware, StaleOK, Stale

(* Of a step of one node by which it does not come later to the lock.      *)
LEMMA FreeKept ==
  ASSUME ElectionInv, VacancyInv, ElectionInv', NEW n \in Up, call'[n] # "down", UNCHANGED <<ttl, vacant>>,
         \A m \in Node \ {n} : call'[m] = call[m] /\ reply'[m] = reply[m] /\ timer'[m] = timer[m],
         ttl = 0 => Wait(n)' <= Wait(n)
  PROVE  Free'
<1>1. Up' = Up
  BY DEF Up
<1>2. \A m \in Node \ {n} : Wait(m)' = Wait(m)
  BY DEF Wait
<1>3. ASSUME NEW m \in Up, ttl = 0, vacant + Wait(m) <= Lease + Pause + 3 * Round
      PROVE  vacant' + Wait(m)' <= Lease + Pause + 3 * Round
  <2>1. Wait(m)' \in Nat /\ Wait(m) \in Nat /\ vacant \in Nat /\ Wait(m)' <= Wait(m)
    <3>1. Wait(m) \in Nat /\ vacant \in Nat
      BY <1>3, WaitBounds, TypesOf DEF Up
    <3>2. timer'[m] \in Nat
      BY <1>3 DEF Up, ElectionInv, ElectionTypeOK, LockOK
    <3>3. Wait(m)' \in Nat
      BY <3>2 DEF Wait
    <3>4. CASE m = n
      BY <1>3, <3>1, <3>3, <3>4
    <3>5. CASE m # n
      <4>1. Wait(m)' = Wait(m)
        BY <1>2, <1>3, <3>5 DEF Up
      <4> QED BY <3>1, <4>1
    <3> QED BY <3>1, <3>3, <3>4, <3>5
  <2> QED BY <1>3, <2>1, ElectionAssumption
<1> QED BY <1>1, <1>3 DEF Free, VacancyInv


LEMMA SetsVacancy ==
  ASSUME ElectionInv, ElectionInv', VacancyInv, NEW n \in Node, RedisSets(n)
  PROVE  VacancyInv'
<1>1. /\ call[n] = "set" /\ reply[n] = "none" /\ ttl = 0 /\ holder' = n /\ ttl' = Lease
      /\ UNCHANGED <<call, timer, is_leader, vacant>> /\ holder = Nobody
      /\ reply'[n] = "yes" /\ \A m \in Node \ {n} : reply'[m] = reply[m]
  BY TypesOf DEF RedisSets, Executes, ElectionInv, ElectionTypeOK, LockOK
<1>2. n # Nobody
  BY ElectionAssumption
<1>3. vacant <= Lease + Pause + 3 * Round
  <2>1. PICK m \in Up : vacant + Wait(m) <= Lease + Pause + 3 * Round
    BY <1>1 DEF VacancyInv, Free, Up
  <2>2. Wait(m) \in Nat /\ vacant \in Nat
    BY <2>1, WaitBounds, TypesOf DEF Up
  <2> QED BY <2>1, <2>2, ElectionAssumption
<1>4. timer[n] \in Nat /\ timer[n] <= Round /\ vacant \in Nat
  BY <1>1, TypesOf
<1>5. ToldOK(n)' /\ HolderOK(n)' /\ StaleOK(n)'
  BY <1>1, <1>3, <1>4, ElectionAssumption DEF ToldOK, HolderOK, Unaware, StaleOK, Stale
<1>6. ASSUME NEW m \in Node \ {n} PROVE ToldOK(m)' /\ HolderOK(m)' /\ StaleOK(m)'
  <2>1. ToldOK(m) /\ HolderOK(m) /\ StaleOK(m) /\ m # n /\ m # Nobody
    BY ElectionAssumption DEF VacancyInv
  <2> QED BY <1>1, <1>6, <2>1 DEF ToldOK, Told, HolderOK, Unaware, StaleOK, Stale
<1>7. LeftBehind' /\ Free'
  <2>1. Up' = Up /\ ttl' # 0
    BY <1>1, ElectionAssumption DEF Up
  <2> QED BY <1>1, <1>2, <2>1 DEF LeftBehind, Free, VacancyInv
<1>8. VacancyBounded'
  BY <1>1 DEF VacancyInv, VacancyBounded
<1> QED BY <1>5, <1>6, <1>7, <1>8 DEF VacancyInv

LEMMA ServesVacancy ==
  ASSUME ElectionInv, ElectionInv', VacancyInv, NEW n \in Node, RedisKeeps(n) \/ RedisGets(n) \/ RedisExpires(n)
  PROVE  VacancyInv'
<1>1. /\ reply[n] = "none" /\ call[n] \in Calls
      /\ UNCHANGED <<call, timer, is_leader, vacant, holder>>
      /\ reply' \in [Node -> {"none", "yes", "no"}]
      /\ \A m \in Node \ {n} : reply'[m] = reply[m]
      /\ ttl' = ttl \/ (ttl # 0 /\ ttl' = Lease /\ call[n] = "expire")
  BY DEF RedisKeeps, RedisGets, RedisExpires, Executes, Calls, ElectionInv, ElectionTypeOK, LockOK
<1>2. /\ call[n] = "set" => reply'[n] = "no" /\ ttl # 0
      /\ call[n] = "get" => (reply'[n] = "yes" <=> holder = n)
  BY DEF RedisKeeps, RedisGets, RedisExpires, Executes, Calls, ElectionInv, ElectionTypeOK, LockOK
<1>3. /\ timer[n] \in Nat /\ vacant \in Nat /\ ttl \in 0 .. Lease
      /\ Lease \in Nat /\ Pause \in Nat /\ Round \in Nat
  BY TypesOf
<1>4. ToldOK(n) /\ HolderOK(n) /\ StaleOK(n)
  BY DEF VacancyInv
<1>5. ToldOK(n)'
  BY <1>1, <1>2 DEF ToldOK, Told, Calls
<1>6. HolderOK(n)'
  BY <1>1, <1>2, <1>4 DEF HolderOK, Unaware, Calls
<1>7. StaleOK(n)'
  BY <1>1, <1>2, <1>4 DEF StaleOK, Stale, Calls
<1>8. ASSUME NEW m \in Node \ {n} PROVE ToldOK(m)' /\ HolderOK(m)' /\ StaleOK(m)'
  <2>1. ToldOK(m) /\ HolderOK(m) /\ StaleOK(m)
    BY DEF VacancyInv
  <2>2. HolderOK(m)' /\ StaleOK(m)'
    BY <1>1, <2>1 DEF HolderOK, Unaware, StaleOK, Stale
  <2>3. timer[m] \in Nat /\ ttl' >= ttl /\ ttl' \in Nat
    BY <1>1, <1>3, TypesOf
  <2>4. ToldOK(m)'
    BY <1>1, <1>3, <2>1, <2>3 DEF ToldOK, Told
  <2> QED BY <2>2, <2>4
<1>9. LeftBehind'
  <2>1. CASE ttl' = ttl
    BY <1>1, <2>1 DEF VacancyInv, LeftBehind
  <2>2. CASE ttl # 0 /\ ttl' = Lease /\ call[n] = "expire" /\ holder = Nobody
    <3>1. vacant <= Round
      <4>1. holder # n
        BY <2>2, ElectionAssumption
      <4>2. CASE is_leader[n]
        BY <1>3, <1>4, <4>1, <4>2 DEF HolderOK
      <4>3. CASE ~is_leader[n]
        BY <1>3, <1>4, <2>2, <4>1, <4>3 DEF StaleOK, Stale
      <4> QED BY <4>2, <4>3
    <3> QED BY <1>1, <1>3, <2>2, <3>1 DEF LeftBehind
  <2> QED BY <1>1, <2>1, <2>2 DEF LeftBehind
<1>10. Free'
  <2>1. Up' = Up
    BY <1>1 DEF Up
  <2>2. CASE ttl # 0
    BY <1>1, <1>3, <2>1, <2>2, ElectionAssumption DEF VacancyInv, Free
  <2>3. CASE ttl = 0
    <3>1. Wait(n)' = Wait(n)
      BY <1>1, <1>2, <2>3 DEF Wait, Calls
    <3>2. n \in Up /\ call'[n] # "down" /\ UNCHANGED ttl
      BY <1>1, <2>3 DEF Up, Calls
    <3>3. Wait(n) \in Nat
      BY WaitBounds
    <3> QED BY <1>1, <3>1, <3>2, <3>3, FreeKept
  <2> QED BY <2>2, <2>3
<1>11. VacancyBounded'
  BY <1>1 DEF VacancyInv, VacancyBounded
<1> QED BY <1>5, <1>6, <1>7, <1>8, <1>9, <1>10, <1>11 DEF VacancyInv

LEMMA ResumesVacancy ==
  ASSUME ElectionInv, ElectionInv', VacancyInv, NEW n \in Node, Resumes(n)
  PROVE  VacancyInv'
<1>1. /\ UNCHANGED <<holder, ttl, vacant>> /\ call[n] \in Calls \cup {"sleep"}
      /\ \A m \in Node \ {n} : /\ call'[m] = call[m] /\ reply'[m] = reply[m]
                               /\ timer'[m] = timer[m] /\ is_leader'[m] = is_leader[m]
      /\ reply'[n] = "none" /\ call'[n] \in Calls \cup {"sleep"}
  BY DEF Resumes, Acquired, Compared, Renewed, Wake, Goes, Calls, ElectionInv, ElectionTypeOK, LockOK
<1>2. /\ timer[n] \in Nat /\ vacant \in Nat /\ ttl \in 0 .. Lease
      /\ Lease \in Nat /\ Pause \in Nat /\ Round \in Nat
  BY TypesOf
<1>3. ToldOK(n) /\ HolderOK(n) /\ StaleOK(n)
  BY DEF VacancyInv
<1>4. \/ /\ call[n] = "set" /\ reply[n] = "yes" /\ is_leader'[n] = TRUE
         /\ call'[n] = "sleep" /\ timer'[n] = Pause
      \/ /\ call[n] = "set" /\ reply[n] # "none" /\ reply[n] # "yes" /\ is_leader'[n] = is_leader[n]
         /\ call'[n] = "get" /\ timer'[n] = timer[n]
      \/ /\ call[n] = "get" /\ reply[n] = "yes" /\ is_leader'[n] = is_leader[n]
         /\ call'[n] = "expire" /\ timer'[n] = timer[n]
      \/ /\ call[n] = "get" /\ reply[n] = "no" /\ is_leader'[n] = FALSE
         /\ call'[n] = "sleep" /\ timer'[n] = Pause
      \/ /\ call[n] = "expire" /\ is_leader'[n] = is_leader[n]
         /\ call'[n] = "sleep" /\ timer'[n] = Pause
      \/ /\ call[n] = "sleep" /\ timer[n] = 0 /\ is_leader'[n] = is_leader[n]
         /\ call'[n] = "set" /\ timer'[n] = Round
  <2>1. /\ call' = [call EXCEPT ![n] = call'[n]] /\ timer \in [Node -> Nat]
        /\ call \in [Node -> Calls \cup {"sleep", "down", "idle"}]
        /\ reply \in [Node -> {"none", "yes", "no"}]
        /\ is_leader \in [Node -> BOOLEAN]
    BY DEF Resumes, Acquired, Compared, Renewed, Wake, Goes, Calls, ElectionInv, ElectionTypeOK, LockOK
  <2> QED BY <2>1 DEF Resumes, Acquired, Compared, Renewed, Wake, Goes
<1>5. ToldOK(n)'
  BY <1>1 DEF ToldOK, Told
<1>6. HolderOK(n)'
  BY <1>1, <1>3, <1>4 DEF HolderOK, Unaware, ToldOK, Told
<1>7. StaleOK(n)'
  BY <1>1, <1>3, <1>4 DEF StaleOK, Stale
<1>8. ASSUME NEW m \in Node \ {n} PROVE ToldOK(m)' /\ HolderOK(m)' /\ StaleOK(m)'
  BY <1>1, <1>8, LeftAlone DEF VacancyInv
<1>9. LeftBehind' /\ VacancyBounded'
  BY <1>1 DEF VacancyInv, LeftBehind, VacancyBounded
<1>10. Free'
  <2>1. Wait(n)' <= Wait(n)
    BY <1>1, <1>2, <1>4 DEF Wait
  <2>2. n \in Up /\ call'[n] # "down"
    BY <1>1 DEF Up, Calls
  <2> QED BY <1>1, <2>1, <2>2, FreeKept
<1> QED BY <1>5, <1>6, <1>7, <1>8, <1>9, <1>10 DEF VacancyInv

(* A fault starts the count again.                                         *)
LEMMA FaultVacancy ==
  ASSUME ElectionInv, ElectionInv', VacancyInv, NEW n \in Node, Fail(n) \/ Crash(n)
  PROVE  VacancyInv'
<1>1. /\ vacant' = 0 /\ UNCHANGED ttl
      /\ \A m \in Node \ {n} : call'[m] = call[m] /\ reply'[m] = reply[m] /\ timer'[m] = timer[m]
      /\ reply'[n] = "none"
      /\ \/ call[n] # "down" /\ call'[n] = "sleep" /\ holder' = holder
         \/ call'[n] = "down" /\ holder' = IF holder = n THEN Nobody ELSE holder
  BY DEF Fail, Crash, Faulty, Goes, Calls, ElectionInv, ElectionTypeOK, LockOK
<1>2. ASSUME NEW m \in Node
      PROVE  /\ Told(m)' => IF holder' = m THEN timer'[m] = 0 \/ timer'[m] + Lease <= Round + ttl'
                                            ELSE timer'[m] = 0
             /\ call'[m] = "down" \/ (call'[m] = "get" /\ reply'[m] = "no") => holder' # m
  <2>1. ToldOK(m) /\ HolderOK(m) /\ m # Nobody
    BY ElectionAssumption DEF VacancyInv
  <2>2. CASE m = n
    BY <1>1, <2>1, <2>2 DEF Told
  <2>3. CASE m # n
    BY <1>1, <2>1, <2>3 DEF ToldOK, Told, HolderOK
  <2> QED BY <2>2, <2>3
<1>3. LockTold'
  BY <1>2 DEF LockTold
<1> QED BY <1>1, <1>3, NoVacancyNext

LEMMA RestartVacancy ==
  ASSUME ElectionInv, ElectionInv', VacancyInv, NEW n \in Node, Restart(n)
  PROVE  VacancyInv'
<1>1. /\ UNCHANGED <<holder, ttl, vacant, is_leader>> /\ call[n] = "down"
      /\ \A m \in Node \ {n} : call'[m] = call[m] /\ reply'[m] = reply[m] /\ timer'[m] = timer[m]
      /\ call'[n] = "set" /\ reply'[n] = "none" /\ timer'[n] = Round
  BY DEF Restart, Goes, ElectionInv, ElectionTypeOK, LockOK
<1>2. ToldOK(n)' /\ HolderOK(n)' /\ StaleOK(n)'
  BY <1>1, TypesOf DEF VacancyInv, ToldOK, Told, HolderOK, Unaware, StaleOK, Stale
<1>3. ASSUME NEW m \in Node \ {n} PROVE ToldOK(m)' /\ HolderOK(m)' /\ StaleOK(m)'
  BY <1>1, <1>3, LeftAlone DEF VacancyInv
<1>4. LeftBehind' /\ VacancyBounded'
  BY <1>1 DEF VacancyInv, LeftBehind, VacancyBounded
<1>5. Free'
  <2>1. Up' = Up \cup {n} /\ n \notin Up
    BY <1>1 DEF Up
  <2>2. CASE Up = {}
    <3>1. vacant = 0 /\ Wait(n)' = Round
      BY <1>1, <2>2 DEF VacancyInv, Free, Wait
    <3>2. vacant' + Wait(n)' <= Lease + Pause + 3 * Round
      BY <1>1, <3>1, ElectionAssumption
    <3> QED BY <2>1, <3>2 DEF Free
  <2>3. CASE Up # {}
    <3>1. \A m \in Up : Wait(m)' = Wait(m)
      BY <1>1, <2>1 DEF Up, Wait
    <3> QED BY <1>1, <2>1, <2>3, <3>1 DEF VacancyInv, Free
  <2> QED BY <2>2, <2>3
<1> QED BY <1>2, <1>3, <1>4, <1>5 DEF VacancyInv

(* Time passes: either nothing counts, or the lock is left behind, or free,*)
(* or of a node that is told so in time.                                   *)
Counts == ~HasLeader /\ Up # {} /\ Overdue = {} /\ \A n \in Node : ~Unaware(n)

LEMMA TickLoses ==
  ASSUME ElectionInv, VacancyInv, ElectionTick, NEW n \in Node, Told(n), holder = n, holder' # n
  PROVE  n \in Overdue
<1>1. ttl <= 1 /\ ttl \in Nat /\ timer[n] \in Nat
  BY TypesOf DEF ElectionTick
<1>2. timer[n] = 0 \/ timer[n] + Lease <= Round + ttl
  BY DEF VacancyInv, ToldOK
<1>3. timer[n] = 0
  BY <1>1, <1>2, ElectionAssumption
<1> QED BY <1>3 DEF Overdue, Up, Told

LEMMA QuietTickVacancy ==
  ASSUME ElectionInv, ElectionInv', VacancyInv, ElectionTick, ~Counts
  PROVE  VacancyInv'
<1>1. /\ vacant' = 0 /\ UNCHANGED <<call, reply, is_leader>>
      /\ timer' = [n \in Node |-> IF timer[n] > 0 THEN timer[n] - 1 ELSE 0]
      /\ ttl' = IF ttl > 0 THEN ttl - 1 ELSE 0
      /\ holder' = IF ttl > 1 THEN holder ELSE Nobody
  BY DEF ElectionTick, Counts
<1>2. ASSUME NEW m \in Node
      PROVE  /\ Told(m)' => IF holder' = m THEN timer'[m] = 0 \/ timer'[m] + Lease <= Round + ttl'
                                            ELSE timer'[m] = 0
             /\ call'[m] = "down" \/ (call'[m] = "get" /\ reply'[m] = "no") => holder' # m
  <2>1. ToldOK(m) /\ HolderOK(m) /\ m # Nobody
    BY ElectionAssumption DEF VacancyInv
  <2>2. /\ timer[m] \in Nat /\ ttl \in 0 .. Lease /\ Lease \in Nat /\ Round \in Nat
        /\ timer'[m] = IF timer[m] > 0 THEN timer[m] - 1 ELSE 0
    BY <1>1, TypesOf
  <2>3. call'[m] = "down" \/ (call'[m] = "get" /\ reply'[m] = "no") => holder' # m
    BY <1>1, <2>1 DEF HolderOK
  <2>4. ASSUME Told(m)', holder' = m PROVE timer'[m] = 0 \/ timer'[m] + Lease <= Round + ttl'
    <3>1. Told(m) /\ holder = m /\ ttl > 1
      BY <1>1, <2>1, <2>4 DEF Told
    <3> QED BY <1>1, <2>1, <2>2, <3>1 DEF ToldOK
  <2>5. ASSUME Told(m)', holder' # m PROVE timer'[m] = 0
    <3>1. Told(m)
      BY <1>1, <2>5 DEF Told
    <3>2. timer[m] = 0
      BY <2>1, <2>5, <3>1, TickLoses DEF Overdue, ToldOK
    <3> QED BY <2>2, <3>2
  <2> QED BY <2>3, <2>4, <2>5
<1>3. LockTold'
  BY <1>2 DEF LockTold
<1> QED BY <1>1, <1>3, NoVacancyNext

LEMMA CountingTickVacancy ==
  ASSUME ElectionInv, ElectionInv', VacancyInv, ElectionTick, Counts
  PROVE  VacancyInv'
<1>1. /\ vacant' = vacant + 1 /\ UNCHANGED <<call, reply, is_leader>>
      /\ timer' = [n \in Node |-> IF timer[n] > 0 THEN timer[n] - 1 ELSE 0]
      /\ ttl' = IF ttl > 0 THEN ttl - 1 ELSE 0
      /\ holder' = IF ttl > 1 THEN holder ELSE Nobody
  BY DEF ElectionTick, Counts
<1>2. /\ vacant \in Nat /\ ttl \in 0 .. Lease /\ holder \in Node \cup {Nobody}
      /\ ttl = 0 => holder = Nobody
      /\ Lease \in Nat /\ Pause \in Nat /\ Round \in Nat
  BY DEF ElectionInv, ElectionTypeOK, LockOK
<1>3. ASSUME NEW n \in Up
      PROVE  /\ n \in Node /\ timer[n] \in Nat /\ timer[n] > 0 /\ timer'[n] = timer[n] - 1
             /\ ~is_leader[n]
  BY <1>1, <1>3, TypesOf DEF Counts, Overdue, Up, HasLeader
<1>4. \A n \in Node : ~is_leader[n] /\ ~Unaware(n)
  BY <1>3, TypesOf DEF Counts, Up
<1>5. ASSUME NEW n \in Node, holder = n PROVE Told(n) /\ ttl > 1 /\ holder' = n
  <2>1. Told(n)
    BY <1>4, <1>5 DEF Unaware, Told
  <2>2. holder' = n
    BY <1>5, <2>1, TickLoses DEF Counts
  <2> QED BY <1>1, <2>1, <2>2, ElectionAssumption
<1>6. UNCHANGED holder
  BY <1>1, <1>2, <1>5
<1>7. ASSUME NEW n \in Node PROVE ToldOK(n)' /\ HolderOK(n)' /\ StaleOK(n)'
  <2>1. ToldOK(n) /\ HolderOK(n) /\ StaleOK(n)
    BY DEF VacancyInv
  <2>2. ASSUME Told(n)
        PROVE  n \in Up /\ holder = n /\ ttl > 1
    <3>1. n \in Up
      BY <2>2 DEF Up, Told
    <3> QED BY <1>3, <1>5, <2>1, <2>2, <3>1 DEF ToldOK
  <2>3. ToldOK(n)'
    BY <1>1, <1>2, <1>3, <1>6, <2>1, <2>2 DEF ToldOK, Told
  <2>4. HolderOK(n)'
    BY <1>1, <1>4, <1>6, <2>1 DEF HolderOK, Unaware
  <2>5. StaleOK(n)'
    <3>1. CASE Stale(n)
      <4>1. n \in Up
        BY <3>1 DEF Stale, Up
      <4>2. vacant + timer[n] <= Round
        BY <2>1, <3>1 DEF StaleOK
      <4>3. vacant' + timer'[n] <= Round
        <5>1. timer[n] \in Nat /\ timer'[n] = timer[n] - 1 /\ vacant' = vacant + 1
          BY <1>1, <1>3, <4>1
        <5> QED BY <1>2, <4>2, <5>1
      <4> QED BY <4>3 DEF StaleOK
    <3>2. CASE ~Stale(n)
      BY <1>1, <1>6, <3>2 DEF StaleOK, Stale
    <3> QED BY <3>1, <3>2
  <2> QED BY <2>3, <2>4, <2>5
<1>8. LeftBehind'
  BY <1>1, <1>2, <1>6 DEF VacancyInv, LeftBehind
<1>9. Up' = Up /\ \A n \in Up : Wait(n)' = Wait(n) - 1
  <2>1. Up' = Up
    BY <1>1 DEF Up
  <2>2. ASSUME NEW n \in Up PROVE Wait(n)' = Wait(n) - 1
    BY <1>1, <1>2, <1>3 DEF Wait
  <2> QED BY <2>1, <2>2
<1>10. Free'
  <2>1. PICK n \in Up : ttl = 0 => vacant + Wait(n) <= Lease + Pause + 3 * Round
    BY DEF Counts, VacancyInv, Free
  <2>2. Wait(n) \in Nat /\ Wait(n) <= Pause + 2 * Round
    BY <2>1, WaitBounds DEF Up
  <2>3. CASE ttl = 0
    BY <1>1, <1>2, <1>9, <2>1, <2>2, <2>3 DEF Counts, Free
  <2>4. CASE ttl = 1
    <3>1. holder = Nobody
      BY <1>2, <1>5, <2>4
    <3>2. vacant + 1 <= Lease + Round
      BY <2>4, <3>1 DEF VacancyInv, LeftBehind
    <3> QED BY <1>1, <1>2, <1>9, <2>2, <2>4, <3>2 DEF Counts, Free
  <2>5. CASE ttl > 1
    BY <1>1, <1>2, <1>9, <2>5 DEF Counts, Free
  <2> QED BY <1>2, <2>3, <2>4, <2>5
<1>11. VacancyBounded'
  <2>1. CASE holder = Nobody /\ ttl > 0
    BY <1>1, <1>2, <2>1 DEF VacancyInv, LeftBehind, VacancyBounded
  <2>2. CASE ttl = 0
    <3>1. PICK n \in Up : vacant + Wait(n) <= Lease + Pause + 3 * Round
      BY <2>2 DEF Counts, VacancyInv, Free
    <3>2. Wait(n) \in Nat /\ Wait(n) >= 1
      BY <1>3, <3>1, WaitBounds DEF Up
    <3> QED BY <1>1, <1>2, <3>1, <3>2 DEF VacancyBounded
  <2>3. ASSUME NEW n \in Node, holder = n PROVE VacancyBounded'
    <3>1. Told(n) /\ n \in Up
      BY <1>5, <2>3 DEF Told, Up
    <3>2. vacant + timer[n] <= Lease + Pause + 4 * Round
      BY <2>3, <3>1 DEF VacancyInv, ToldOK
    <3> QED BY <1>1, <1>2, <1>3, <3>1, <3>2 DEF VacancyBounded
  <2> QED BY <1>2, <2>1, <2>2, <2>3
<1> QED BY <1>7, <1>8, <1>10, <1>11 DEF VacancyInv

(***************************************************************************)
(* Without a fault the cluster is never without a leader for longer than   *)
(* VacancyBounded says, for any number of nodes and any times (README.md   *)
(* :110, ha.py:25-51).                                                     *)
(***************************************************************************)
THEOREM TakeoverInTime == ElectionSpec => []VacancyBounded
<1> DEFINE V == IF redis_client THEN VacancyInv ELSE vacant = 0 /\ \A n \in Node : call[n] = "idle"
<1>1. RedisInit /\ ElectionInit => V
  BY VacancyInit DEF ElectionInit
<1>2. ElectionInv /\ ElectionInv' /\ V /\ [ElectionNext]_electionVars => V'
  <2> SUFFICES ASSUME ElectionInv, ElectionInv', V, [ElectionNext]_electionVars PROVE V'
    OBVIOUS
  <2>1. redis_client' = redis_client
    BY DEF ElectionNext, Serves, RedisSets, RedisKeeps, RedisGets, RedisExpires, Executes, Resumes,
           Acquired, Compared, Renewed, Wake, Fail, Crash, Faulty, Restart, ElectionTick, electionVars
  <2>2. CASE ~redis_client
    <3>1. UNCHANGED electionVars
      BY <2>2 DEF ElectionNext, Serves, RedisSets, RedisKeeps, RedisGets, RedisExpires, Executes,
                  Resumes, Acquired, Compared, Renewed, Wake, Fail, Crash, Restart, ElectionTick, Calls
    <3> QED BY <2>1, <2>2, <3>1 DEF electionVars, election
  <2>3. CASE redis_client
    <3>1. CASE UNCHANGED electionVars
      BY <2>1, <2>3, <3>1 DEF electionVars, election, VacancyInv, ToldOK, Told, HolderOK, Unaware,
         StaleOK, Stale, LeftBehind, Free, Up, Wait, VacancyBounded
    <3>2. CASE ElectionNext
      <4>1. VacancyInv'
        BY <2>3, <3>2, SetsVacancy, ServesVacancy, ResumesVacancy, FaultVacancy, RestartVacancy,
           QuietTickVacancy, CountingTickVacancy DEF ElectionNext, Serves
      <4> QED BY <2>1, <2>3, <4>1
    <3> QED BY <3>1, <3>2
  <2> QED BY <2>2, <2>3
<1>3. V => VacancyBounded
  BY ElectionAssumption DEF VacancyInv, VacancyBounded
<1> HIDE DEF V
<1> QED BY <1>1, <1>2, <1>3, ElectionInvariance, PTL DEF ElectionSpec
=============================================================================
