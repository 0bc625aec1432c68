------------------------- MODULE LoadBalancerProofs -------------------------
(***************************************************************************)
(* What indexing a list by ranks returns, and from it that every balancer, *)
(* whatever its algorithm, weights, countries and load, selects one of its *)
(* own healthy servers or nothing.                                         *)
(***************************************************************************)
EXTENDS LoadBalancer, FiniteSetTheorems, SequenceTheorems, TLAPS

(***************************************************************************)
(* In a finite set of pairs of numbers, the rank of an element (how many   *)
(* come before it) is below the size of the set, and no two elements have  *)
(* the same: `expanded_pool[k]' is one server.                             *)
(***************************************************************************)
LEMMA RankBounds ==
  ASSUME NEW S \in SUBSET (Int \X Int), IsFiniteSet(S), NEW s \in S
  PROVE  Rank(S, s) \in 0 .. Cardinality(S) - 1
<1> DEFINE P == {t \in S : Before(t, s)}
<1>1. ~Before(s, s)
  BY DEF Before
<1>2. P \in SUBSET (S \ {s})
  BY <1>1
<1>3. IsFiniteSet(S \ {s}) /\ Cardinality(S \ {s}) = Cardinality(S) - 1
  BY FS_RemoveElement
<1>4. IsFiniteSet(P) /\ Cardinality(P) <= Cardinality(S \ {s})
  <2> HIDE DEF P
  <2> QED BY <1>2, <1>3, FS_Subset
<1>5. Cardinality(P) \in Nat /\ Cardinality(S) \in Nat
  <2> HIDE DEF P
  <2> QED BY <1>4, FS_CardinalityType
<1> QED
  BY <1>3, <1>4, <1>5 DEF Rank

LEMMA RankIncreases ==
  ASSUME NEW S \in SUBSET (Int \X Int), IsFiniteSet(S),
         NEW s \in S, NEW t \in S, Before(s, t)
  PROVE  Rank(S, s) < Rank(S, t)
<1> DEFINE P == {u \in S : Before(u, s)}
           Q == {u \in S : Before(u, t)}
<1>1. P \in SUBSET Q
  BY DEF Before
<1>2. s \in Q /\ s \notin P
  BY DEF Before
<1>3. IsFiniteSet(Q)
  BY FS_Subset
<1>4. IsFiniteSet(P) /\ Cardinality(P) <= Cardinality(Q) /\ Cardinality(P) # Cardinality(Q)
  <2> HIDE DEF P, Q
  <2> QED BY <1>1, <1>2, <1>3, FS_Subset
<1>5. Cardinality(P) \in Nat /\ Cardinality(Q) \in Nat
  <2> HIDE DEF P, Q
  <2> QED BY <1>3, <1>4, FS_CardinalityType
<1> QED
  BY <1>4, <1>5 DEF Rank

(***************************************************************************)
(* Indexing with k below the length returns an element of the list: the    *)
(* one with k elements before it.                                          *)
(***************************************************************************)
THEOREM AtRankIsElement ==
  ASSUME NEW S \in SUBSET (Int \X Int), IsFiniteSet(S),
         NEW k \in 0 .. Cardinality(S) - 1
  PROVE  AtRank(S, k) \in S /\ Rank(S, AtRank(S, k)) = k
<1> DEFINE n == Cardinality(S)
           f == [s \in S |-> Rank(S, s)]
<1>1. n \in Nat
  BY FS_CardinalityType
<1>2. f \in [S -> 0 .. n - 1]
  BY RankBounds
<1>3. ASSUME NEW s \in S, NEW t \in S, s # t
      PROVE  f[s] # f[t]
  <2>1. Before(s, t) \/ Before(t, s)
    BY <1>3 DEF Before
  <2>2. Rank(S, s) \in Nat /\ Rank(S, t) \in Nat
    BY <1>1, RankBounds
  <2> QED
    BY <2>1, <2>2, RankIncreases
<1>4. f \in Injection(S, 0 .. n - 1)
  BY <1>2, <1>3 DEF Injection, IsInjective
<1>5. IsFiniteSet(0 .. n - 1) /\ Cardinality(0 .. n - 1) = n
  BY <1>1, FS_Interval
<1>6. f \in Surjection(S, 0 .. n - 1)
  <2> HIDE DEF f
  <2> QED BY <1>4, <1>5, FS_Injection
<1>7. \E s \in S : Rank(S, s) = k
  BY <1>6 DEF Surjection
<1> QED
  BY <1>7 DEF AtRank

-----------------------------------------------------------------------------
LEMMA PoolIsFinite ==
  ASSUME NEW T, NEW backends \in Seq(T), NEW healthy, NEW country
  PROVE  LET pool == HealthyServers(backends, healthy, country)
         IN  /\ pool \subseteq 1 .. Len(backends)
             /\ IsFiniteSet(pool)
             /\ \A i \in pool : healthy[backends[i]]
<1> DEFINE pool == HealthyServers(backends, healthy, country)
<1>1. DOMAIN backends = 1 .. Len(backends) /\ Len(backends) \in Nat
  BY LenProperties
<1>2. pool \subseteq DOMAIN backends /\ \A i \in pool : healthy[backends[i]]
  BY DEF HealthyServers
<1>3. IsFiniteSet(pool)
  <2> HIDE DEF pool
  <2>1. IsFiniteSet(1 .. Len(backends))
    BY <1>1, FS_Interval
  <2>2. pool \in SUBSET (1 .. Len(backends))
    BY <1>1, <1>2
  <2> QED BY <2>1, <2>2, FS_Subset
<1> QED
  BY <1>1, <1>2, <1>3

(***************************************************************************)
(* The weighted list is finite, and all its slots are of pool servers.     *)
(***************************************************************************)
LEMMA SlotsAreFinite ==
  ASSUME NEW lb, NEW pool \in SUBSET Int, IsFiniteSet(pool),
         \A i \in pool : lb.backends[i].weight \in Nat
  PROVE  /\ Slots(lb, pool) \in SUBSET (Int \X Int)
         /\ IsFiniteSet(Slots(lb, pool))
         /\ \A s \in Slots(lb, pool) : s[1] \in pool
<1> DEFINE Row(i) == {i} \X (1 .. Copies(lb.algorithm, lb.backends[i]))
           row == [i \in pool |-> Row(i)]
           rows == {Row(i) : i \in pool}
<1>1. \A i \in pool : Copies(lb.algorithm, lb.backends[i]) \in Nat
  BY DEF Copies
<1>2. \A i \in pool : Row(i) \in SUBSET (Int \X Int) /\ IsFiniteSet(Row(i))
  <2> TAKE i \in pool
  <2>1. IsFiniteSet({i})
    BY FS_Singleton
  <2>2. Copies(lb.algorithm, lb.backends[i]) \in Int
    BY <1>1
  <2>3. IsFiniteSet(1 .. Copies(lb.algorithm, lb.backends[i]))
    BY <2>2, FS_Interval
  <2>4. IsFiniteSet(Row(i))
    BY <2>1, <2>3, FS_Product
  <2> QED
    BY <2>4
<1>3. row \in Surjection(pool, rows)
  BY DEF Surjection
<1>4. IsFiniteSet(rows)
  <2> HIDE DEF row, rows
  <2> QED BY <1>3, FS_Surjection
<1>5. IsFiniteSet(UNION rows)
  <2>1. \A R \in rows : IsFiniteSet(R)
    BY <1>2
  <2> HIDE DEF rows
  <2> QED BY <1>4, <2>1, FS_UNION
<1> QED
  BY <1>2, <1>5 DEF Slots

(* What get_server is called with: servers of T, a caller and their loads. *)
Arguments(T, lb, ip, active) ==
  /\ lb.backends \in Seq(T) /\ \A b \in T : b.weight \in Nat
  /\ lb.current_index \in Nat /\ Hash[ip] \in Nat
  /\ active \in [T -> Nat]

(* What get_server returns is None or in the pool, and in the pool as soon *)
(* as that has a server of some weight.                                    *)
ServesPool(lb, healthy, active, ip, country) ==
  LET pool   == HealthyServers(lb.backends, healthy, country)
      server == Selected(lb, healthy, active, ip, country)
  IN  /\ server = None \/ \E i \in pool : server = lb.backends[i]
      /\ (\E i \in pool : lb.backends[i].weight # 0) => \E i \in pool : server = lb.backends[i]

(***************************************************************************)
(* get_server of all four balancers: what it returns is one of the healthy *)
(* servers of its own list, and it returns one as soon as one is left that *)
(* is not configured with weight 0.                                        *)
(***************************************************************************)
THEOREM SelectedIsHealthy ==
  ASSUME NEW T, NEW lb, NEW healthy, NEW active, NEW ip, NEW country,
         Arguments(T, lb, ip, active)
  PROVE  ServesPool(lb, healthy, active, ip, country)
<1>0. /\ lb.backends \in Seq(T) /\ \A b \in T : b.weight \in Nat
      /\ lb.current_index \in Nat /\ Hash[ip] \in Nat
      /\ active \in [T -> Nat]
  BY DEF Arguments
<1> DEFINE server == Selected(lb, healthy, active, ip, country)
           pool   == HealthyServers(lb.backends, healthy, country)
           slots  == Slots(lb, pool)
           loads  == {<<active[lb.backends[i]], i>> : i \in pool}
           index  == IF lb.algorithm = "ip_hash" THEN Hash[ip] ELSE lb.current_index
<1>1. pool \subseteq 1 .. Len(lb.backends) /\ IsFiniteSet(pool) /\ Len(lb.backends) \in Nat
  BY <1>0, PoolIsFinite, LenProperties
<1>2. \A i \in pool : lb.backends[i] \in T
  <2> HIDE DEF pool
  <2> QED BY <1>0, <1>1, ElementOfSeq
<1>3. /\ slots \in SUBSET (Int \X Int) /\ IsFiniteSet(slots)
      /\ \A s \in slots : s[1] \in pool
  <2> HIDE DEF pool
  <2> QED BY <1>0, <1>1, <1>2, SlotsAreFinite
<1>4. (\E i \in pool : lb.backends[i].weight # 0) => slots # {}
  <2> HIDE DEF pool
  <2>1. ASSUME NEW i \in pool, lb.backends[i].weight # 0
        PROVE  <<i, 1>> \in slots
    <3>1. lb.backends[i].weight \in Nat
      BY <1>0, <1>2
    <3>2. 1 \in 1 .. Copies(lb.algorithm, lb.backends[i])
      BY <2>1, <3>1 DEF Copies
    <3> QED BY <3>2 DEF Slots
  <2> QED
    BY <2>1
<1>5. ASSUME slots = {} PROVE server = None
  BY <1>5 DEF Selected
<1>6. ASSUME slots # {}, lb.algorithm = "least_connections"
      PROVE  \E i \in pool : server = lb.backends[i]
  <2>1. server = lb.backends[AtRank(loads, 0)[2]]
    BY <1>6 DEF Selected, LeastLoaded
  <2>2. loads \in SUBSET (Int \X Int) /\ \A p \in loads : p[2] \in pool
    <3>1. \A i \in pool : active[lb.backends[i]] \in Int /\ i \in Int
      BY <1>0, <1>1, <1>2
    <3> HIDE DEF pool
    <3> QED BY <3>1
  <2>3. IsFiniteSet(loads)
    <3> DEFINE f == [i \in pool |-> <<active[lb.backends[i]], i>>]
    <3>1. f \in Surjection(pool, loads)
      BY DEF Surjection
    <3> HIDE DEF f, loads, pool
    <3> QED BY <1>1, <3>1, FS_Surjection
  <2>4. loads # {}
    BY <1>3, <1>6
  <2>5. Cardinality(loads) \in Nat /\ Cardinality(loads) # 0
    <3> HIDE DEF loads
    <3> QED BY <2>3, <2>4, FS_EmptySet, FS_CardinalityType
  <2>6. AtRank(loads, 0) \in loads
    <3> HIDE DEF loads
    <3>1. 0 \in 0 .. Cardinality(loads) - 1
      BY <2>5
    <3> QED BY <2>2, <2>3, <3>1, AtRankIsElement
  <2> QED
    BY <2>1, <2>2, <2>6
<1>7. ASSUME slots # {}, lb.algorithm # "least_connections"
      PROVE  \E i \in pool : server = lb.backends[i]
  <2>1. server = lb.backends[AtRank(slots, index % Cardinality(slots))[1]]
    BY <1>7 DEF Selected, IndexedSlot
  <2>2. Cardinality(slots) \in Nat /\ Cardinality(slots) # 0
    <3> HIDE DEF slots
    <3> QED BY <1>3, <1>7, FS_EmptySet, FS_CardinalityType
  <2>3. index % Cardinality(slots) \in 0 .. Cardinality(slots) - 1
    <3> HIDE DEF slots
    <3>1. index \in Nat
      BY <1>0
    <3> QED BY <2>2, <3>1
  <2>4. AtRank(slots, index % Cardinality(slots)) \in slots
    <3> HIDE DEF slots, index
    <3> QED BY <1>3, <2>3, AtRankIsElement
  <2> QED
    BY <1>3, <2>1, <2>4
<1>8. /\ server = None \/ \E i \in pool : server = lb.backends[i]
      /\ (\E i \in pool : lb.backends[i].weight # 0) => \E i \in pool : server = lb.backends[i]
  <2> HIDE DEF server, pool, slots
  <2> QED BY <1>4, <1>5, <1>6, <1>7
<1> QED BY <1>8 DEF ServesPool

(* The next index is a number again.                                       *)
LEMMA NextIndexType ==
  ASSUME NEW T, NEW lb, lb.backends \in Seq(T), \A b \in T : b.weight \in Nat,
         lb.current_index \in Nat, NEW healthy, NEW country
  PROVE  NextIndex(lb, healthy, country) \in Nat
<1> DEFINE pool  == HealthyServers(lb.backends, healthy, country)
           slots == Slots(lb, pool)
<1>1. pool \subseteq 1 .. Len(lb.backends) /\ IsFiniteSet(pool) /\ Len(lb.backends) \in Nat
  BY PoolIsFinite, LenProperties
<1>2. \A i \in pool : lb.backends[i] \in T
  <2> HIDE DEF pool
  <2> QED BY <1>1, ElementOfSeq
<1>3. IsFiniteSet(slots)
  <2> HIDE DEF pool
  <2> QED BY <1>1, <1>2, SlotsAreFinite
<1>4. Cardinality(slots) \in Nat /\ (slots # {} => Cardinality(slots) # 0)
  <2> HIDE DEF slots
  <2> QED BY <1>3, FS_EmptySet, FS_CardinalityType
<1>5. slots # {} => (lb.current_index + 1) % Cardinality(slots) \in Nat
  <2> HIDE DEF slots
  <2> QED BY <1>4
<1> QED
  BY <1>5 DEF NextIndex

(* The i-th server has no more connections than the n-th.                  *)
NoBusier(active, backends, i, n) == active[backends[i]] <= active[backends[n]]

(* What get_server returns is in the pool and no busier than the n-th.     *)
ServesLeast(lb, healthy, active, ip, country, n) ==
  \E i \in HealthyServers(lb.backends, healthy, country) :
    /\ Selected(lb, healthy, active, ip, country) = lb.backends[i]
    /\ NoBusier(active, lb.backends, i, n)

(***************************************************************************)
(* LeastConnectionsBalancer: of the healthy servers that the caller may be *)
(* sent to, none has fewer connections than the one it is sent to.         *)
(***************************************************************************)
THEOREM SelectedIsLeastLoaded ==
  ASSUME NEW T, NEW lb, NEW healthy, NEW active, NEW ip, NEW country,
         Arguments(T, lb, ip, active), lb.algorithm = "least_connections",
         NEW n, n \in HealthyServers(lb.backends, healthy, country)
  PROVE  ServesLeast(lb, healthy, active, ip, country, n)
<1>0. lb.backends \in Seq(T) /\ active \in [T -> Nat]
  BY DEF Arguments
<1> DEFINE pool  == HealthyServers(lb.backends, healthy, country)
           loads == {<<active[lb.backends[i]], i>> : i \in pool}
           first == AtRank(loads, 0)
<1>1. pool \subseteq 1 .. Len(lb.backends) /\ IsFiniteSet(pool) /\ Len(lb.backends) \in Nat
  BY <1>0, PoolIsFinite, LenProperties
<1>2. \A i \in pool : active[lb.backends[i]] \in Nat /\ i \in Int
  <2>1. \A i \in pool : lb.backends[i] \in T
    <3> HIDE DEF pool
    <3> QED BY <1>0, <1>1, ElementOfSeq
  <2> HIDE DEF pool
  <2> QED BY <1>0, <1>1, <2>1
<1>3. <<n, 1>> \in Slots(lb, pool)
  BY DEF Slots, Copies
<1>4. Selected(lb, healthy, active, ip, country) = lb.backends[first[2]]
  BY <1>3 DEF Selected, LeastLoaded
<1>5. loads \in SUBSET (Int \X Int)
  <2> HIDE DEF pool
  <2> QED BY <1>2
<1>6. IsFiniteSet(loads)
  <2> DEFINE f == [i \in pool |-> <<active[lb.backends[i]], i>>]
  <2>1. f \in Surjection(pool, loads)
    BY DEF Surjection
  <2> HIDE DEF f, loads, pool
  <2> QED BY <1>1, <2>1, FS_Surjection
<1>7. first \in loads /\ Rank(loads, first) = 0
  <2>1. <<active[lb.backends[n]], n>> \in loads
    OBVIOUS
  <2> HIDE DEF loads
  <2>2. 0 \in 0 .. Cardinality(loads) - 1
    <3>1. Cardinality(loads) \in Nat /\ Cardinality(loads) # 0
      BY <1>6, <2>1, FS_EmptySet, FS_CardinalityType
    <3> QED BY <3>1
  <2> QED BY <1>5, <1>6, <2>2, AtRankIsElement
<1>8. \A s \in loads : ~Before(s, first)
  <2> DEFINE P == {s \in loads : Before(s, first)}
  <2>1. P \in SUBSET loads
    OBVIOUS
  <2>2. Cardinality(P) = 0
    BY <1>7 DEF Rank
  <2>3. P = {}
    <3> HIDE DEF P, loads
    <3> QED BY <1>6, <2>1, <2>2, FS_Subset, FS_EmptySet
  <2> QED BY <2>3
<1>9. PICK i \in pool : first = <<active[lb.backends[i]], i>>
  BY <1>7
<1> DEFINE mine == active[lb.backends[i]]
           least == active[lb.backends[n]]
<1>10. mine \in Nat /\ least \in Nat /\ i \in Int /\ n \in Int
  BY <1>2
<1>11. <<least, n>> \in loads /\ first = <<mine, i>>
  BY <1>9
<1>12. ~Before(<<least, n>>, <<mine, i>>)
  <2> HIDE DEF loads, first, mine, least
  <2> QED BY <1>8, <1>11
<1>13. mine <= least
  <2> HIDE DEF mine, least
  <2> QED BY <1>10, <1>12 DEF Before
<1>14. Selected(lb, healthy, active, ip, country) = lb.backends[i]
  <2>1. first[2] = i
    BY <1>9
  <2> HIDE DEF first
  <2> QED BY <1>4, <2>1
<1> QED
  <2> HIDE DEF first, loads
  <2>1. NoBusier(active, lb.backends, i, n)
    BY <1>13 DEF NoBusier
  <2> HIDE DEF pool
  <2> QED BY <1>14, <2>1 DEF ServesLeast, pool
=============================================================================
