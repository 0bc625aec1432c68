--------------------------- MODULE BalancingProofs ---------------------------
(***************************************************************************)
(* Both round-robin balancers serve a pool in whole rounds, whatever its   *)
(* size, its weights and where current_index stood when the round began.   *)
(***************************************************************************)
EXTENDS Balancing, LoadBalancerProofs

-----------------------------------------------------------------------------
(* (index + 1) % length counts the remainder on, and goes back to zero.    *)
LEMMA NextRemainder ==
  ASSUME NEW a \in Nat, NEW n \in Nat, n # 0
  PROVE  /\ a % n \in 0 .. n - 1
         /\ (a + 1) % n = IF (a % n) + 1 < n THEN (a % n) + 1 ELSE 0
         /\ ((a + 1) % n) % n = (a + 1) % n
<1> DEFINE r == a % n
           q == (a + 1) % n
           c == a \div n
           d == (a + 1) \div n
<1>1. r \in 0 .. n - 1 /\ q \in 0 .. n - 1 /\ c \in Int /\ d \in Int
  OBVIOUS
<1>2. a = n * c + r /\ a + 1 = n * d + q
  OBVIOUS
<1>3. n * (d - c) = r + 1 - q
  <2> HIDE DEF r, q, c, d
  <2> QED BY <1>1, <1>2
<1>4. d - c \in {0, 1}
  <2> HIDE DEF r, q, c, d
  <2>1. CASE d - c > 1
    BY <1>1, <1>3, <2>1
  <2>2. CASE d - c < 0
    BY <1>1, <1>3, <2>2
  <2> QED BY <1>1, <2>1, <2>2
<1>5. q = IF r + 1 < n THEN r + 1 ELSE 0
  <2> HIDE DEF r, q, c, d
  <2>1. CASE d - c = 0
    BY <1>1, <1>3, <2>1
  <2>2. CASE d - c = 1
    BY <1>1, <1>3, <2>2
  <2> QED BY <1>4, <2>1, <2>2
<1>6. \A x \in 0 .. n - 1 : x % n = x
  OBVIOUS
<1> QED
  BY <1>1, <1>5, <1>6

-----------------------------------------------------------------------------
(* How many of the slots V are of the i-th server.                         *)
Of(V, i) == Cardinality({t \in V : t[1] = i})

(* The slots visited since the index stood at `first', once it stands at k.*)
Visited(S, first, k) ==
  {t \in S : IF first <= k THEN first <= Rank(S, t) /\ Rank(S, t) < k
                           ELSE first <= Rank(S, t) \/ Rank(S, t) < k}

Follower(k, n) == IF k + 1 < n THEN k + 1 ELSE 0

(* A visit adds a slot to those visited, or completes the round.           *)
LEMMA VisitAdvances ==
  ASSUME NEW S \in SUBSET (Int \X Int), IsFiniteSet(S),
         NEW n, n = Cardinality(S), NEW first \in 0 .. n - 1, NEW k \in 0 .. n - 1
  PROVE  /\ AtRank(S, k) \in S \ Visited(S, first, k)
         /\ first # Follower(k, n) =>
              Visited(S, first, Follower(k, n)) = Visited(S, first, k) \cup {AtRank(S, k)}
         /\ first = Follower(k, n) => S = Visited(S, first, k) \cup {AtRank(S, k)}
<1> DEFINE slot == AtRank(S, k)
<1>1. slot \in S /\ Rank(S, slot) = k
  BY AtRankIsElement
<1>2. n \in Nat
  BY FS_CardinalityType
<1>3. \A t \in S : Rank(S, t) \in 0 .. n - 1
  BY RankBounds
<1>4. ASSUME NEW t \in S, Rank(S, t) = k PROVE t = slot
  <2>1. ASSUME t # slot PROVE Before(t, slot) \/ Before(slot, t)
    <3> HIDE DEF slot
    <3> QED BY <1>1, <2>1 DEF Before
  <2>2. ~Before(t, slot) /\ ~Before(slot, t)
    <3> HIDE DEF slot
    <3> QED BY <1>1, <1>4, RankIncreases
  <2> QED BY <2>1, <2>2
<1> HIDE DEF slot
<1>5. slot \notin Visited(S, first, k)
  BY <1>1 DEF Visited
<1>6. ASSUME first # Follower(k, n)
      PROVE  Visited(S, first, Follower(k, n)) = Visited(S, first, k) \cup {slot}
  <2>1. ASSUME NEW t \in S
        PROVE  t \in Visited(S, first, Follower(k, n)) <=> t \in Visited(S, first, k) \/ t = slot
    BY <1>1, <1>2, <1>3, <1>4, <1>6 DEF Visited, Follower
  <2> QED BY <1>1, <2>1 DEF Visited
<1>7. ASSUME first = Follower(k, n) PROVE S = Visited(S, first, k) \cup {slot}
  <2>1. ASSUME NEW t \in S PROVE t \in Visited(S, first, k) \/ t = slot
    BY <1>1, <1>2, <1>3, <1>4, <1>7 DEF Visited, Follower
  <2> QED BY <1>1, <2>1 DEF Visited
<1> QED BY <1>1, <1>5, <1>6, <1>7 DEF slot

LEMMA NothingVisited ==
  ASSUME NEW S \in SUBSET (Int \X Int), IsFiniteSet(S), NEW k \in Int
  PROVE  Visited(S, k, k) = {}
<1>1. \A t \in S : Rank(S, t) \in Int
  BY RankBounds, FS_CardinalityType
<1> QED BY <1>1 DEF Visited

-----------------------------------------------------------------------------
LEMMA OfBounds ==
  ASSUME NEW S, IsFiniteSet(S), NEW V \in SUBSET S, NEW i
  PROVE  Of(V, i) \in Nat /\ Of(S, i) \in Nat /\ Of(V, i) <= Of(S, i)
<1> DEFINE P == {t \in V : t[1] = i}
           Q == {t \in S : t[1] = i}
<1>1. P \in SUBSET Q /\ Q \in SUBSET S
  OBVIOUS
<1> HIDE DEF P, Q
<1>2. IsFiniteSet(Q)
  BY <1>1, FS_Subset
<1>3. IsFiniteSet(P) /\ Cardinality(P) <= Cardinality(Q)
  BY <1>1, <1>2, FS_Subset
<1>4. Cardinality(P) \in Nat /\ Cardinality(Q) \in Nat
  BY <1>2, <1>3, FS_CardinalityType
<1> QED BY <1>3, <1>4 DEF Of, P, Q

LEMMA OfOneMore ==
  ASSUME NEW V, IsFiniteSet(V), NEW s, s \notin V, NEW i
  PROVE  Of(V \cup {s}, i) = Of(V, i) + IF i = s[1] THEN 1 ELSE 0
<1> DEFINE P == {t \in V : t[1] = i}
           Q == {t \in V \cup {s} : t[1] = i}
<1>1. Of(V, i) = Cardinality(P) /\ Of(V \cup {s}, i) = Cardinality(Q)
  BY DEF Of
<1>2. P \in SUBSET V /\ s \notin P
  OBVIOUS
<1>3. IF i = s[1] THEN Q = P \cup {s} ELSE Q = P
  OBVIOUS
<1> HIDE DEF P, Q
<1>4. IsFiniteSet(P) /\ Cardinality(P) \in Nat
  BY <1>2, FS_Subset, FS_CardinalityType
<1>5. Cardinality(P \cup {s}) = Cardinality(P) + 1
  BY <1>2, <1>4, FS_AddElement
<1>6. CASE i = s[1]
  BY <1>1, <1>3, <1>5, <1>6
<1>7. CASE i # s[1]
  BY <1>1, <1>3, <1>4, <1>7
<1> QED BY <1>6, <1>7

LEMMA OfNone == \A i : Of({}, i) = 0
<1>1. \A i : {t \in {} : t[1] = i} = {}
  OBVIOUS
<1> QED BY <1>1, FS_EmptySet DEF Of

(* A server of the pool has as many slots as it has copies.                *)
LEMMA OfSlots ==
  ASSUME NEW b, NEW pool, NEW i \in pool, Copies(b.algorithm, b.backends[i]) \in Nat
  PROVE  Of(Slots(b, pool), i) = Copies(b.algorithm, b.backends[i])
<1> DEFINE c == Copies(b.algorithm, b.backends[i])
<1>1. {t \in Slots(b, pool) : t[1] = i} = {i} \X (1 .. c)
  BY DEF Slots
<1> HIDE DEF c
<1>2. c \in Nat
  BY DEF c
<1>3. IsFiniteSet(1 .. c) /\ Cardinality(1 .. c) = c
  <2>1. 1 \in Int /\ c \in Int
    BY <1>2
  <2>2. IsFiniteSet(1 .. c) /\ Cardinality(1 .. c) = IF 1 > c THEN 0 ELSE c - 1 + 1
    BY <2>1, FS_Interval
  <2> QED BY <1>2, <2>2
<1>4. IsFiniteSet({i}) /\ Cardinality({i}) = 1
  BY FS_Singleton
<1>5. Cardinality({i} \X (1 .. c)) = 1 * c
  <2> DEFINE interval == 1 .. c
  <2>1. IsFiniteSet(interval) /\ Cardinality(interval) = c
    BY <1>3
  <2> HIDE DEF interval
  <2>2. Cardinality({i} \X interval) = Cardinality({i}) * Cardinality(interval)
    BY <1>4, <2>1, FS_Product
  <2>3. Cardinality({i} \X interval) = 1 * c
    BY <1>4, <2>1, <2>2
  <2> QED BY <2>3 DEF interval
<1>6. Of(Slots(b, pool), i) = Cardinality({i} \X (1 .. c))
  BY <1>1 DEF Of
<1>7. Cardinality({i} \X (1 .. c)) = c
  BY <1>2, <1>5
<1> QED BY <1>6, <1>7 DEF c

-----------------------------------------------------------------------------
(* A pool of a balancer b: different objects, with weights.                *)
PoolOK(b, pool) ==
  /\ pool \in SUBSET Int /\ IsFiniteSet(pool)
  /\ b.current_index \in Nat
  /\ \A i \in pool : b.backends[i].weight \in Nat
  /\ \A i, j \in pool : b.backends[i] = b.backends[j] => i = j

(* After m calls, of which tally says who served them: k whole rounds, and *)
(* of the round under way the slots from the first to the index.           *)
InRound(b, pool, tally, k, first) ==
  \A i \in pool :
    tally[b.backends[i]] = k * Copies(b.algorithm, b.backends[i]) +
      Of(Visited(Slots(b, pool), first, b.current_index % Cardinality(Slots(b, pool))), i)

Rounds(b, pool, tally, m) ==
  IF Slots(b, pool) = {}
    THEN \A i \in pool : tally[b.backends[i]] = 0
    ELSE \E k \in 0 .. m, first \in 0 .. Cardinality(Slots(b, pool)) - 1 :
           InRound(b, pool, tally, k, first)

LEMMA SlotsOK ==
  ASSUME NEW b, NEW pool, PoolOK(b, pool)
  PROVE  /\ Slots(b, pool) \in SUBSET (Int \X Int)
         /\ IsFiniteSet(Slots(b, pool)) /\ Cardinality(Slots(b, pool)) \in Nat
         /\ Slots(b, pool) # {} => Cardinality(Slots(b, pool)) # 0
         /\ \A i \in pool : /\ Copies(b.algorithm, b.backends[i]) \in Nat
                            /\ Of(Slots(b, pool), i) = Copies(b.algorithm, b.backends[i])
<1>1. /\ Slots(b, pool) \in SUBSET (Int \X Int) /\ IsFiniteSet(Slots(b, pool))
  BY SlotsAreFinite DEF PoolOK
<1>2. \A i \in pool : Copies(b.algorithm, b.backends[i]) \in Nat
  BY DEF PoolOK, Copies
<1> QED BY <1>1, <1>2, OfSlots, FS_CardinalityType, FS_EmptySet

LEMMA RoundBegins ==
  ASSUME NEW b, NEW pool, PoolOK(b, pool), NEW m \in Nat,
         NEW tally, \A i \in pool : tally[b.backends[i]] = 0
  PROVE  Rounds(b, pool, tally, m)
<1> DEFINE S == Slots(b, pool)
           n == Cardinality(S)
           r == b.current_index % n
<1> SUFFICES ASSUME S # {}
             PROVE  \E k \in 0 .. m, first \in 0 .. n - 1 : InRound(b, pool, tally, k, first)
  BY DEF Rounds
<1>1. S \in SUBSET (Int \X Int) /\ IsFiniteSet(S) /\ n \in Nat /\ n # 0
  BY SlotsOK
<1> HIDE DEF S, n
<1>2. r \in 0 .. n - 1
  BY <1>1 DEF PoolOK
<1> HIDE DEF r
<1>3. Visited(S, r, r) = {}
  BY <1>1, <1>2, NothingVisited
<1>4. \A i \in pool : Copies(b.algorithm, b.backends[i]) \in Nat
  BY SlotsOK
<1>5. \A i \in pool : tally[b.backends[i]] = 0 * Copies(b.algorithm, b.backends[i]) + Of(Visited(S, r, r), i)
  BY <1>3, <1>4, OfNone
<1>6. InRound(b, pool, tally, 0, r)
  BY <1>5 DEF InRound, S, n, r
<1> QED BY <1>2, <1>6

(* One more call: the server of the slot at the index, and the next index. *)
LEMMA RoundGoesOn ==
  ASSUME NEW b, NEW pool, PoolOK(b, pool), NEW m \in Nat, NEW tally,
         Rounds(b, pool, tally, m), Slots(b, pool) # {},
         NEW s, s = AtRank(Slots(b, pool), b.current_index % Cardinality(Slots(b, pool))),
         NEW c, c.backends = b.backends, c.algorithm = b.algorithm,
         c.current_index = (b.current_index + 1) % Cardinality(Slots(b, pool)),
         NEW count, \A i \in pool : count[b.backends[i]] =
                      tally[b.backends[i]] + (IF i = s[1] THEN 1 ELSE 0)
  PROVE  Rounds(c, pool, count, m + 1)
<1> DEFINE S == Slots(b, pool)
           n == Cardinality(S)
           r == b.current_index % n
           C(i) == Copies(b.algorithm, b.backends[i])
<1>1. /\ S \in SUBSET (Int \X Int) /\ IsFiniteSet(S) /\ n \in Nat /\ n # 0
      /\ \A i \in pool : C(i) \in Nat /\ Of(S, i) = C(i)
  BY SlotsOK
<1>2. Slots(c, pool) = S
  BY DEF Slots
<1>3. PICK k \in 0 .. m, first \in 0 .. n - 1 : InRound(b, pool, tally, k, first)
  BY DEF Rounds
<1>4. \A i \in pool : tally[b.backends[i]] = k * C(i) + Of(Visited(S, first, r), i)
  BY <1>3 DEF InRound
<1>5. c.current_index % n = Follower(r, n) /\ r \in 0 .. n - 1 /\ Follower(r, n) \in 0 .. n - 1
  <2> HIDE DEF S, n
  <2>1. b.current_index \in Nat
    BY DEF PoolOK
  <2>2. c.current_index = (b.current_index + 1) % n
    BY DEF n, S
  <2>3. /\ r \in 0 .. n - 1
        /\ (b.current_index + 1) % n = IF r + 1 < n THEN r + 1 ELSE 0
        /\ ((b.current_index + 1) % n) % n = (b.current_index + 1) % n
    BY <1>1, <2>1, NextRemainder
  <2> HIDE DEF r
  <2>4. c.current_index % n = Follower(r, n)
    BY <2>2, <2>3 DEF Follower
  <2>5. Follower(r, n) \in 0 .. n - 1
    BY <1>1, <2>3 DEF Follower
  <2> QED BY <2>3, <2>4, <2>5
<1>6. s = AtRank(S, r)
  OBVIOUS
<1> DEFINE V == Visited(S, first, r)
<1>7. /\ s \in S \ V /\ V \in SUBSET S
      /\ first # Follower(r, n) => Visited(S, first, Follower(r, n)) = V \cup {s}
      /\ first = Follower(r, n) => S = V \cup {s}
  <2>1. V \in SUBSET S
    BY DEF Visited
  <2> HIDE DEF r
  <2> QED BY <1>1, <1>5, <1>6, <2>1, VisitAdvances
<1>8. \A i \in pool : Of(V \cup {s}, i) = Of(V, i) + (IF i = s[1] THEN 1 ELSE 0)
  <2> HIDE DEF V, S
  <2>1. IsFiniteSet(V)
    BY <1>1, <1>7, FS_Subset
  <2> QED BY <1>7, <2>1, OfOneMore
<1>9. \A i \in pool : Of(V, i) \in Nat
  <2> HIDE DEF V, S
  <2> QED BY <1>1, <1>7, OfBounds
<1>10. \A i \in pool : count[b.backends[i]] = k * C(i) + Of(V \cup {s}, i)
  <2> TAKE i \in pool
  <2>1. tally[b.backends[i]] = k * C(i) + Of(V, i)
    BY <1>4
  <2>2. count[b.backends[i]] = tally[b.backends[i]] + (IF i = s[1] THEN 1 ELSE 0)
    OBVIOUS
  <2>3. Of(V \cup {s}, i) = Of(V, i) + (IF i = s[1] THEN 1 ELSE 0)
    BY <1>8
  <2>4. Of(V, i) \in Nat
    BY <1>9
  <2> DEFINE kc == k * C(i)
  <2>5. kc \in Int
    BY <1>1
  <2>6. tally[b.backends[i]] = kc + Of(V, i)
    BY <2>1
  <2> HIDE DEF V, kc
  <2>7. count[b.backends[i]] = kc + Of(V \cup {s}, i)
    <3> DEFINE extra == IF i = s[1] THEN 1 ELSE 0
               seen == Of(V, i)
    <3>1. extra \in Int /\ seen \in Int
      BY <2>4
    <3>2. /\ count[b.backends[i]] = tally[b.backends[i]] + extra
          /\ Of(V \cup {s}, i) = seen + extra /\ tally[b.backends[i]] = kc + seen
      BY <2>2, <2>3, <2>6
    <3> HIDE DEF extra, seen
    <3> QED BY <2>5, <3>1, <3>2
  <2> QED BY <2>7 DEF kc
<1>11. InRound(c, pool, count, k, first) \/ InRound(c, pool, count, k + 1, Follower(r, n))
  <2>1. ASSUME first # Follower(r, n) PROVE InRound(c, pool, count, k, first)
    <3>1. \A i \in pool : count[b.backends[i]] = k * C(i) + Of(Visited(S, first, Follower(r, n)), i)
      BY <1>7, <1>10, <2>1
    <3>2. \A i \in pool : count[c.backends[i]] =
              k * Copies(c.algorithm, c.backends[i]) + Of(Visited(S, first, c.current_index % n), i)
      BY <1>5, <3>1
    <3> HIDE DEF S
    <3> QED BY <1>2, <3>2 DEF InRound
  <2>2. ASSUME first = Follower(r, n) PROVE InRound(c, pool, count, k + 1, Follower(r, n))
    <3>1. \A i \in pool : Of(Visited(S, Follower(r, n), Follower(r, n)), i) = 0
      <4> HIDE DEF S, n, r
      <4>1. Visited(S, Follower(r, n), Follower(r, n)) = {}
        BY <1>1, <1>5, NothingVisited
      <4> QED BY <4>1, OfNone
    <3>2. \A i \in pool : count[b.backends[i]] = k * C(i) + C(i)
      <4>1. S = V \cup {s}
        BY <1>7, <2>2
      <4>2. \A i \in pool : Of(V \cup {s}, i) = C(i)
        BY <1>1, <4>1
      <4> HIDE DEF V, C
      <4> QED BY <1>10, <4>2
    <3>3. \A i \in pool : count[b.backends[i]] = (k + 1) * C(i) + 0
      <4> HIDE DEF C
      <4> QED BY <1>1, <3>2
    <3>4. \A i \in pool : count[c.backends[i]] =
              (k + 1) * Copies(c.algorithm, c.backends[i]) + Of(Visited(S, Follower(r, n), c.current_index % n), i)
      BY <1>5, <3>1, <3>3
    <3> HIDE DEF S
    <3> QED BY <1>2, <3>4 DEF InRound
  <2> QED BY <2>1, <2>2
<1> QED
  <2> HIDE DEF S, r
  <2>1. k \in 0 .. m + 1 /\ k + 1 \in 0 .. m + 1
    OBVIOUS
  <2> QED BY <1>2, <1>5, <1>11, <2>1 DEF Rounds, S

(* Each server has been served in every whole round, and at most once more *)
(* per copy.                                                               *)
LEMMA RoundsAreEven ==
  ASSUME NEW b, NEW pool, PoolOK(b, pool), NEW m \in Nat, NEW tally, Rounds(b, pool, tally, m)
  PROVE  \E k \in 0 .. m : \A i \in pool : tally[b.backends[i]] \in
           (k * Copies(b.algorithm, b.backends[i])) .. ((k + 1) * Copies(b.algorithm, b.backends[i]))
<1> DEFINE S == Slots(b, pool)
           r == b.current_index % Cardinality(S)
           C(i) == Copies(b.algorithm, b.backends[i])
<1>1. IsFiniteSet(S) /\ \A i \in pool : C(i) \in Nat /\ Of(S, i) = C(i)
  BY SlotsOK
<1>2. CASE S = {}
  <2>1. \A i \in pool : C(i) = 0 /\ tally[b.backends[i]] = 0
    BY <1>1, <1>2, OfNone DEF Rounds
  <2>2. \A i \in pool : tally[b.backends[i]] \in (0 * C(i)) .. ((0 + 1) * C(i))
    BY <2>1
  <2>3. 0 \in 0 .. m
    OBVIOUS
  <2> QED BY <2>2, <2>3
<1>3. CASE S # {}
  <2>1. PICK k \in 0 .. m, first \in 0 .. Cardinality(S) - 1 : InRound(b, pool, tally, k, first)
    BY <1>3 DEF Rounds
  <2>2. \A i \in pool : tally[b.backends[i]] \in (k * C(i)) .. ((k + 1) * C(i))
    <3> TAKE i \in pool
    <3> DEFINE V == Visited(S, first, r)
    <3>1. tally[b.backends[i]] = k * C(i) + Of(V, i)
      BY <2>1 DEF InRound
    <3>2. V \in SUBSET S
      BY DEF Visited
    <3>3. Of(V, i) \in Nat /\ Of(V, i) <= C(i)
      <4> HIDE DEF V, S, C
      <4> QED BY <1>1, <3>2, OfBounds
    <3>4. C(i) \in Nat
      BY <1>1
    <3> HIDE DEF V, C
    <3> QED BY <3>1, <3>3, <3>4
  <2> QED BY <2>2
<1> QED BY <1>2, <1>3

-----------------------------------------------------------------------------
BalancingTyped ==
  /\ lb \in [algorithm : Algorithms, backends : Seq(Server), current_index : Nat]
  /\ \A i, j \in DOMAIN lb.backends : lb.backends[i] = lb.backends[j] => i = j
  /\ callers \subseteq Ip
  /\ healthy \in [Server -> BOOLEAN]
  /\ picks \in [Server -> Nat]
  /\ calls \in 0 .. MaxCalls

(* The servers that ip may be sent to, as positions of the list.           *)
Positions(ip) == HealthyServers(lb.backends, healthy, CountryOf[ip])

(* The premise of EvenDistribution.                                        *)
OnePool ==
  /\ lb.algorithm \in {"round_robin", "weighted_round_robin"}
  /\ \A ip, other \in callers : Pool(CountryOf[ip]) = Pool(CountryOf[other])

BalancingInv ==
  /\ BalancingTyped
  /\ OnePool => \A ip \in callers : Rounds(lb, Positions(ip), picks, calls)

LEMMA PositionsOK ==
  ASSUME NEW b \in [algorithm : Algorithms, backends : Seq(Server), current_index : Nat],
         \A i, j \in DOMAIN b.backends : b.backends[i] = b.backends[j] => i = j,
         NEW marks, NEW c
  PROVE  /\ PoolOK(b, HealthyServers(b.backends, marks, c))
         /\ \A i \in HealthyServers(b.backends, marks, c) : b.backends[i] \in Server
<1> DEFINE pool == HealthyServers(b.backends, marks, c)
<1>1. pool \subseteq 1 .. Len(b.backends) /\ IsFiniteSet(pool)
  BY PoolIsFinite
<1>2. DOMAIN b.backends = 1 .. Len(b.backends) /\ Len(b.backends) \in Nat
  BY LenProperties
<1> HIDE DEF pool
<1>3. \A i \in pool : b.backends[i] \in Server
  BY <1>1, ElementOfSeq
<1>4. \A i \in pool : b.backends[i].weight \in Nat
  BY <1>3, BalancingAssumption
<1>5. pool \in SUBSET Int
  BY <1>1, <1>2
<1>6. PoolOK(b, pool)
  BY <1>1, <1>2, <1>4, <1>5 DEF PoolOK
<1> QED BY <1>3, <1>6 DEF pool

(* Callers with one pool are served from one list.                         *)
LEMMA OnePoolOneList ==
  ASSUME BalancingTyped, OnePool, NEW ip \in callers, NEW other \in callers
  PROVE  Positions(ip) = Positions(other)
<1>1. ASSUME NEW a \in callers, NEW b \in callers, NEW i \in Positions(a)
      PROVE  i \in Positions(b)
  <2>1. lb.backends[i] \in Pool(CountryOf[a])
    BY DEF Pool, Positions
  <2>2. lb.backends[i] \in Pool(CountryOf[b])
    BY <2>1 DEF OnePool
  <2>3. PICK j \in Positions(b) : lb.backends[j] = lb.backends[i]
    BY <2>2 DEF Pool, Positions
  <2>4. i \in DOMAIN lb.backends /\ j \in DOMAIN lb.backends
    BY DEF Positions, HealthyServers
  <2> QED BY <2>3, <2>4 DEF BalancingTyped
<1> QED BY <1>1

LEMMA InitRounds == Init => BalancingInv
<1> SUFFICES ASSUME Init PROVE BalancingInv
  OBVIOUS
<1>1. BalancingTyped
  BY BalancingAssumption DEF Init, NewBalancer, NoPicks, BalancingTyped
<1>2. ASSUME NEW ip \in callers PROVE Rounds(lb, Positions(ip), picks, calls)
  <2>1. PoolOK(lb, Positions(ip)) /\ \A i \in Positions(ip) : lb.backends[i] \in Server
    BY <1>1, PositionsOK DEF BalancingTyped, Positions
  <2>2. calls \in Nat /\ \A i \in Positions(ip) : picks[lb.backends[i]] = 0
    BY <2>1 DEF Init, NoPicks
  <2> QED BY <2>1, <2>2, RoundBegins
<1> QED BY <1>1, <1>2 DEF BalancingInv

LEMMA GetServerTyped ==
  ASSUME BalancingTyped, NEW ip \in callers, GetServer(ip)
  PROVE  BalancingTyped'
<1>1. lb'.current_index \in Nat /\ lb' = [lb EXCEPT !.current_index = lb'.current_index]
  <2>1. \A b \in Server : b.weight \in Nat
    BY BalancingAssumption
  <2>2. NextIndex(lb, healthy, CountryOf[ip]) \in Nat
    BY <2>1, NextIndexType DEF BalancingTyped
  <2> QED BY <2>2 DEF GetServer, BalancingTyped
<1>2. picks' \in [Server -> Nat]
  <2> DEFINE server == Selected(lb, healthy, NoLoad, ip, CountryOf[ip])
  <2>1. picks' = picks \/ picks' = [picks EXCEPT ![server] = @ + 1]
    BY DEF GetServer
  <2> HIDE DEF server
  <2> QED BY <2>1 DEF BalancingTyped
<1>3. calls' \in 0 .. MaxCalls /\ UNCHANGED <<callers, healthy>>
  BY BalancingAssumption DEF GetServer, BalancingTyped
<1> QED BY <1>1, <1>2, <1>3 DEF BalancingTyped

(* A call visits the slot at the index.                                    *)
LEMMA GetServerRounds ==
  ASSUME BalancingInv, OnePool, NEW ip \in callers, GetServer(ip)
  PROVE  Rounds(lb', Positions(ip), picks', calls')
<1> DEFINE pool == Positions(ip)
           S == Slots(lb, pool)
           n == Cardinality(S)
           s == AtRank(S, lb.current_index % n)
           server == Selected(lb, healthy, NoLoad, ip, CountryOf[ip])
<1>1. BalancingTyped /\ Rounds(lb, pool, picks, calls) /\ calls \in Nat
  BY BalancingAssumption DEF BalancingInv, BalancingTyped
<1>2. PoolOK(lb, pool) /\ \A i \in pool : lb.backends[i] \in Server
  BY <1>1, PositionsOK DEF BalancingTyped, Positions
<1>3. /\ lb' = [lb EXCEPT !.current_index = NextIndex(lb, healthy, CountryOf[ip])]
      /\ picks' = IF server = None THEN picks ELSE [picks EXCEPT ![server] = @ + 1]
      /\ calls' = calls + 1
  BY DEF GetServer
<1>4. /\ lb'.backends = lb.backends /\ lb'.algorithm = lb.algorithm
      /\ lb'.current_index = NextIndex(lb, healthy, CountryOf[ip])
  BY <1>1, <1>3 DEF BalancingTyped
<1>5. CASE S = {}
  <2>1. server = None
    BY <1>5 DEF Selected, Positions
  <2>2. Slots(lb', pool) = {}
    BY <1>4, <1>5 DEF Slots
  <2>3. \A i \in pool : picks[lb.backends[i]] = 0
    BY <1>1, <1>5 DEF Rounds
  <2>4. \A i \in pool : picks'[lb'.backends[i]] = 0
    BY <1>3, <1>4, <2>1, <2>3
  <2> QED BY <2>2, <2>4 DEF Rounds
<1>6. CASE S # {}
  <2>1. lb'.current_index = (lb.current_index + 1) % n
    BY <1>4, <1>6 DEF NextIndex, OnePool, Positions
  <2>2. server = lb.backends[s[1]]
    BY <1>6 DEF Selected, IndexedSlot, OnePool, Positions
  <2>3. S \in SUBSET (Int \X Int) /\ IsFiniteSet(S) /\ n \in Nat /\ n # 0
    <3> HIDE DEF pool
    <3> QED BY <1>2, <1>6, SlotsOK
  <2>4. s \in S
    <3> HIDE DEF S, n
    <3>1. lb.current_index % n \in 0 .. n - 1
      BY <1>1, <2>3 DEF BalancingTyped
    <3>2. lb.current_index % n \in 0 .. Cardinality(S) - 1
      BY <3>1 DEF n
    <3> QED BY <2>3, <3>2, AtRankIsElement
  <2>5. s[1] \in pool
    <3> HIDE DEF s, pool
    <3> QED BY <2>4 DEF Slots
  <2>6. server \in Server /\ server # None
    <3> HIDE DEF s, pool, server
    <3> QED BY <1>2, <2>2, <2>5, BalancingAssumption
  <2>7. picks' = [picks EXCEPT ![lb.backends[s[1]]] = @ + 1]
    <3> HIDE DEF s, server
    <3> QED BY <1>3, <2>2, <2>6
  <2>8. \A i \in pool : picks'[lb.backends[i]] =
                         picks[lb.backends[i]] + (IF i = s[1] THEN 1 ELSE 0)
    <3> TAKE i \in pool
    <3>1. lb.backends[i] \in Server /\ picks \in [Server -> Nat]
      BY <1>1, <1>2 DEF BalancingTyped
    <3> HIDE DEF s, pool
    <3>2. CASE i = s[1]
      BY <2>7, <3>1, <3>2
    <3>3. CASE i # s[1]
      <4>1. lb.backends[i] # lb.backends[s[1]]
        BY <1>2, <2>5, <3>3 DEF PoolOK
      <4> QED BY <2>7, <3>1, <3>3, <4>1
    <3> QED BY <3>2, <3>3
  <2> HIDE DEF pool
  <2>9. Rounds(lb', pool, picks', calls + 1)
    BY <1>1, <1>2, <1>4, <1>6, <2>1, <2>8, RoundGoesOn
  <2> QED BY <1>3, <2>9 DEF pool
<1> QED BY <1>5, <1>6

LEMMA GetServerInv ==
  ASSUME BalancingInv, NEW ip \in callers, GetServer(ip)
  PROVE  BalancingInv'
<1>1. BalancingTyped /\ BalancingTyped'
  BY GetServerTyped DEF BalancingInv
<1>2. /\ lb'.backends = lb.backends /\ lb'.algorithm = lb.algorithm
      /\ UNCHANGED <<callers, healthy>>
  BY <1>1 DEF GetServer, BalancingTyped
<1>3. OnePool' => OnePool
  <2>1. \A c : Pool(c)' = Pool(c)
    BY <1>2 DEF Pool
  <2> QED BY <1>2, <2>1 DEF OnePool
<1>4. ASSUME OnePool, NEW other \in callers
      PROVE  Rounds(lb, Positions(other), picks, calls)'
  <2>1. Positions(other)' = Positions(ip)
    BY <1>1, <1>2, <1>4, OnePoolOneList DEF Positions
  <2> QED BY <1>4, <2>1, GetServerRounds
<1> QED BY <1>1, <1>2, <1>3, <1>4 DEF BalancingInv

(* With another server up, or one less, the counting starts anew.          *)
LEMMA ChangeHealthInv ==
  ASSUME BalancingInv, NEW s \in Server, ChangeHealth(s)
  PROVE  BalancingInv'
<1>1. BalancingTyped'
  BY BalancingAssumption DEF BalancingInv, BalancingTyped, ChangeHealth, NoPicks
<1>2. ASSUME NEW ip \in callers' PROVE Rounds(lb, Positions(ip), picks, calls)'
  <2>1. PoolOK(lb', Positions(ip)') /\ \A i \in Positions(ip)' : lb'.backends[i] \in Server
    BY <1>1, PositionsOK DEF BalancingTyped, Positions
  <2>2. calls' \in Nat /\ \A i \in Positions(ip)' : picks'[lb'.backends[i]] = 0
    BY <2>1 DEF ChangeHealth, NoPicks
  <2> QED BY <2>1, <2>2, RoundBegins
<1> QED BY <1>1, <1>2 DEF BalancingInv

(* Both round-robin balancers keep the count of their rounds.              *)
LEMMA RoundsInvariance == Spec => []BalancingInv
<1>1. BalancingInv /\ [Next]_vars => BalancingInv'
  <2> SUFFICES ASSUME BalancingInv, [Next]_vars PROVE BalancingInv'
    OBVIOUS
  <2>1. CASE UNCHANGED vars
    <3>1. UNCHANGED <<lb, callers, healthy, picks, calls>>
      BY <2>1 DEF vars
    <3>2. BalancingTyped'
      BY <3>1 DEF BalancingInv, BalancingTyped
    <3>3. (\A c : Pool(c)' = Pool(c)) /\ (\A ip : Positions(ip)' = Positions(ip))
      BY <3>1 DEF Pool, Positions
    <3> QED BY <3>1, <3>2, <3>3 DEF BalancingInv, OnePool
  <2> QED BY <2>1, GetServerInv, ChangeHealthInv DEF Next
<1> QED BY <1>1, InitRounds, PTL DEF Spec

(***************************************************************************)
(* RoundRobinBalancer and WeightedRoundRobinBalancer, for any backends,    *)
(* weights, countries and callers: while the callers share a pool that     *)
(* does not change, after any number of calls every server of it has been  *)
(* served its weight in each of k whole rounds and is at most one ahead.   *)
(***************************************************************************)
THEOREM RoundRobinIsEven == Spec => []EvenDistribution
<1>1. BalancingInv => EvenDistribution
  <2> SUFFICES ASSUME BalancingInv, OnePool, NEW ip \in callers
               PROVE  \E k \in 0 .. MaxCalls : \A s \in Pool(CountryOf[ip]) :
                        picks[s] \in (k * Copies(lb.algorithm, s)) .. ((k + 1) * Copies(lb.algorithm, s))
    BY DEF EvenDistribution, OnePool
  <2>1. /\ BalancingTyped /\ Rounds(lb, Positions(ip), picks, calls)
        /\ calls \in Nat /\ calls <= MaxCalls /\ MaxCalls \in Nat
    BY BalancingAssumption DEF BalancingInv, BalancingTyped
  <2>2. PoolOK(lb, Positions(ip))
    BY <2>1, PositionsOK DEF BalancingTyped, Positions
  <2>3. PICK k \in 0 .. calls : \A i \in Positions(ip) : picks[lb.backends[i]] \in
           (k * Copies(lb.algorithm, lb.backends[i])) .. ((k + 1) * Copies(lb.algorithm, lb.backends[i]))
    BY <2>1, <2>2, RoundsAreEven
  <2>4. \A s \in Pool(CountryOf[ip]) : \E i \in Positions(ip) : s = lb.backends[i]
    BY DEF Pool, Positions
  <2>5. k \in 0 .. MaxCalls
    BY <2>1
  <2> QED BY <2>3, <2>4, <2>5
<1> QED BY <1>1, RoundsInvariance, PTL
=============================================================================
