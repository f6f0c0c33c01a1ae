-------------------------- MODULE RiskEngine_proofs --------------------------
(***************************************************************************)
(* Proofs about RiskEngine: the exposure counters are sums of positions    *)
(* after every handler, so the limits that evaluate applies to the counters*)
(* are limits on the positions.                                            *)
(***************************************************************************)
EXTENDS RiskEngine, SumTheorems

IsBook(b) ==
  /\ b = Book(b.positions, b.total_exposure, b.cluster_exposure)
  /\ IsMap(b.positions, Markets, Nat)
  /\ b.total_exposure \in Nat
  /\ IsMap(b.cluster_exposure, Clusters, Nat)

ClusterSum(p, c) == SumFunctionOnSet(p, InCluster(p, c))

\* A well-typed book whose counters are sums.
GoodBook(b) ==
  /\ IsBook(b)
  /\ b.total_exposure = SumFunction(b.positions)
  /\ \A c \in Clusters : GetOr(b.cluster_exposure, c, 0) = ClusterSum(b.positions, c)

\* Sums over parts of a position map are natural numbers.
LEMMA PositionSums ==
  ASSUME NEW p, IsMap(p, Markets, Nat), NEW W \in SUBSET DOMAIN p
  PROVE  /\ IsFiniteSet(W)
         /\ \A m \in W : p[m] \in Nat
         /\ SumFunctionOnSet(p, W) \in Nat
<1>1. IsFiniteSet(W)
  BY RiskConstants, FS_Subset DEF IsMap
<1>2. \A m \in W : p[m] \in Nat
  BY DEF IsMap
<1> QED
  BY <1>1, <1>2, SumNat

\* A map of naturals stays one when a natural is inserted, and a lookup with
\* default 0 is a natural.
LEMMA MapInsert ==
  ASSUME NEW K, NEW f, IsMap(f, K, Nat), NEW k \in K, NEW v \in Nat
  PROVE  IsMap(Insert(f, k, v), K, Nat)
BY DEF IsMap, Insert

LEMMA MapGet ==
  ASSUME NEW K, NEW f, IsMap(f, K, Nat), NEW k \in K
  PROVE  GetOr(f, k, 0) \in Nat
BY DEF IsMap, GetOr

\* The cluster of a market is a cluster.
LEMMA ClusterMember ==
  ASSUME NEW m \in Markets
  PROVE  Cluster[m] \in Clusters
BY DEF Clusters

\* Taking one market out of a part of the map takes its size out of the sum.
LEMMA PositionRemoved ==
  ASSUME NEW p, IsMap(p, Markets, Nat), NEW W \in SUBSET DOMAIN p, NEW m \in W
  PROVE  /\ SumFunctionOnSet(p, W) = p[m] + SumFunctionOnSet(p, W \ {m})
         /\ SumFunctionOnSet(p, W \ {m}) \in Nat
         /\ p[m] \in Nat
<1>1. IsFiniteSet(W) /\ (\A x \in W : p[x] \in Nat)
  BY PositionSums
<1>2. \A x \in W : p[x] \in Int
  BY <1>1
<1>3. SumFunctionOnSet(p, W) = p[m] + SumFunctionOnSet(p, W \ {m})
  BY <1>1, <1>2, SumRemove
<1>4. SumFunctionOnSet(p, W \ {m}) \in Nat
  BY PositionSums
<1> QED
  BY <1>1, <1>3, <1>4

\* After the release the counters are the sums over the other markets, and
\* neither clamp at zero has had an effect.
LEMMA ReleaseSums ==
  ASSUME NEW b, GoodBook(b), NEW m \in Markets
  PROVE  LET r == Release(b, m)
         IN  /\ r = Book(r.positions, r.total_exposure, r.cluster_exposure)
             /\ r.positions = b.positions
             /\ r.total_exposure = SumFunctionOnSet(b.positions, DOMAIN b.positions \ {m})
             /\ r.total_exposure \in Nat
             /\ IsMap(r.cluster_exposure, Clusters, Nat)
             /\ \A c \in Clusters : GetOr(r.cluster_exposure, c, 0) =
                  SumFunctionOnSet(b.positions, InCluster(b.positions, c) \ {m})
<1> DEFINE p == b.positions
           D == DOMAIN p
           r == Release(b, m)
           k == Cluster[m]
<1>1. IsMap(p, Markets, Nat) /\ IsMap(b.cluster_exposure, Clusters, Nat)
  BY DEF GoodBook, IsBook
<1>2. b.total_exposure = SumFunctionOnSet(p, D)
  BY DEF GoodBook, SumFunction
<1>3. k \in Clusters
  BY ClusterMember
<1>4. CASE m \notin D
  <2>1. r = b
    BY <1>4 DEF Release
  <2>2. D \ {m} = D /\ \A c \in Clusters : InCluster(p, c) \ {m} = InCluster(p, c)
    BY <1>4 DEF InCluster
  <2>3. \A c \in Clusters : GetOr(b.cluster_exposure, c, 0) = SumFunctionOnSet(p, InCluster(p, c))
    BY DEF GoodBook, ClusterSum
  <2>4. /\ b = Book(b.positions, b.total_exposure, b.cluster_exposure)
        /\ b.total_exposure \in Nat
    BY DEF GoodBook, IsBook
  <2> HIDE DEF p, D, r
  <2>5. \A c \in Clusters : GetOr(b.cluster_exposure, c, 0) = SumFunctionOnSet(p, InCluster(p, c) \ {m})
    BY <2>2, <2>3
  <2> QED
    BY <1>1, <1>2, <2>1, <2>2, <2>4, <2>5 DEF p, D, r
<1>5. CASE m \in D
  <2> DEFINE sz == p[m]
             old == GetOr(b.cluster_exposure, k, 0)
             rest == SumFunctionOnSet(p, InCluster(p, k) \ {m})
  <2>1. /\ SumFunctionOnSet(p, D) = sz + SumFunctionOnSet(p, D \ {m})
        /\ SumFunctionOnSet(p, D \ {m}) \in Nat /\ sz \in Nat
    BY <1>1, <1>5, PositionRemoved
  <2>2. m \in InCluster(p, k) /\ InCluster(p, k) \subseteq D
    BY <1>5 DEF InCluster
  <2>3. SumFunctionOnSet(p, InCluster(p, k)) = sz + rest /\ rest \in Nat
    <3> DEFINE W == InCluster(p, k)
    <3>1. W \in SUBSET DOMAIN p /\ m \in W
      BY <2>2
    <3> HIDE DEF p, W
    <3>2. /\ SumFunctionOnSet(p, W) = p[m] + SumFunctionOnSet(p, W \ {m})
          /\ SumFunctionOnSet(p, W \ {m}) \in Nat
      BY <1>1, <3>1, PositionRemoved
    <3> QED
      BY <3>2 DEF W
  <2>4. old = SumFunctionOnSet(p, InCluster(p, k))
    BY <1>3 DEF GoodBook, ClusterSum
  <2>5. r = Book(p, MaxOf(b.total_exposure - sz, 0),
                 Insert(b.cluster_exposure, k, MaxOf(old - sz, 0)))
    BY <1>5 DEF Release
  <2>6. MaxOf(b.total_exposure - sz, 0) = SumFunctionOnSet(p, D \ {m})
    <3> HIDE DEF sz, p, D
    <3> QED
      BY <1>2, <2>1 DEF MaxOf
  <2>7. MaxOf(old - sz, 0) = rest
    <3> HIDE DEF sz, p, D, old, rest
    <3> QED
      BY <2>3, <2>1, <2>4 DEF MaxOf
  <2>8. /\ r = Book(r.positions, r.total_exposure, r.cluster_exposure)
        /\ r.positions = p
        /\ r.total_exposure = SumFunctionOnSet(p, D \ {m})
        /\ r.cluster_exposure = Insert(b.cluster_exposure, k, rest)
    <3> HIDE DEF sz, p, D, old, rest, r
    <3> QED
      BY <2>5, <2>6, <2>7 DEF Book
  <2>9. IsMap(r.cluster_exposure, Clusters, Nat)
    <3> HIDE DEF r, rest, p, D, k
    <3> QED
      BY <1>1, <1>3, <2>3, <2>8 DEF IsMap, Insert
  <2>10. ASSUME NEW c \in Clusters
         PROVE  GetOr(r.cluster_exposure, c, 0) = SumFunctionOnSet(p, InCluster(p, c) \ {m})
    <3>1. CASE c = k
      <4> HIDE DEF r, p, k
      <4> QED
        BY <2>8, <3>1 DEF GetOr, Insert
    <3>2. CASE c # k
      <4>1. InCluster(p, c) \ {m} = InCluster(p, c)
        BY <3>2 DEF InCluster
      <4>2. GetOr(b.cluster_exposure, c, 0) = SumFunctionOnSet(p, InCluster(p, c))
        BY DEF GoodBook, ClusterSum
      <4>3. GetOr(r.cluster_exposure, c, 0) = GetOr(b.cluster_exposure, c, 0)
        <5> HIDE DEF r, p, k, rest
        <5> QED
          BY <2>8, <3>2 DEF GetOr, Insert
      <4> HIDE DEF r, p
      <4> QED
        BY <4>1, <4>2, <4>3
    <3> QED
      BY <3>1, <3>2
  <2> HIDE DEF r, p, D
  <2>11. r.total_exposure \in Nat
    BY <2>8, <2>1
  <2> QED
    BY <2>8, <2>9, <2>10, <2>11 DEF r, p, D
<1> QED
  BY <1>4, <1>5

\* Booking a size for a market on a book from which it is released makes the
\* counters sums again; releasing and booking never disturb other clusters.
LEMMA BookedGood ==
  ASSUME NEW b, GoodBook(b), NEW m \in Markets, NEW size \in Nat,
         NEW p, p = Insert(b.positions, m, size),
         NEW r, r = Release(b, m),
         NEW g, g = Book(p, r.total_exposure + size,
                         Insert(r.cluster_exposure, Cluster[m],
                                GetOr(r.cluster_exposure, Cluster[m], 0) + size))
  PROVE  GoodBook(g)
<1> DEFINE q == b.positions
           D == DOMAIN q
           k == Cluster[m]
           E == D \cup {m}
<1>1. /\ r.total_exposure = SumFunctionOnSet(q, D \ {m})
      /\ r.total_exposure \in Nat
      /\ IsMap(r.cluster_exposure, Clusters, Nat)
      /\ \A c \in Clusters : GetOr(r.cluster_exposure, c, 0) =
           SumFunctionOnSet(q, InCluster(q, c) \ {m})
  BY ReleaseSums
<1>2. IsMap(q, Markets, Nat)
  BY DEF GoodBook, IsBook
<1>3. k \in Clusters
  BY ClusterMember
<1>4. /\ DOMAIN p = E /\ p[m] = size
      /\ \A x \in D \ {m} : p[x] = q[x]
      /\ IsMap(p, Markets, Nat)
  <2> HIDE DEF q
  <2>1. p = Insert(q, m, size)
    BY DEF q
  <2> QED
    BY <1>2, <2>1 DEF Insert, IsMap
<1>5. \A W \in SUBSET (D \ {m}) : /\ SumFunctionOnSet(p, W) = SumFunctionOnSet(q, W)
                                  /\ SumFunctionOnSet(q, W) \in Nat
  <2> SUFFICES ASSUME NEW W \in SUBSET (D \ {m})
               PROVE  /\ SumFunctionOnSet(p, W) = SumFunctionOnSet(q, W)
                      /\ SumFunctionOnSet(q, W) \in Nat
    OBVIOUS
  <2>1. IsFiniteSet(W) /\ (\A x \in W : q[x] \in Nat) /\ SumFunctionOnSet(q, W) \in Nat
    BY <1>2, PositionSums
  <2>2. \A x \in W : q[x] \in Int /\ p[x] = q[x]
    BY <2>1, <1>4
  <2> QED
    BY <2>1, <2>2, SumCong
<1>6. SumFunction(p) = SumFunctionOnSet(q, D \ {m}) + size
  <2>1. SumFunctionOnSet(p, E) = p[m] + SumFunctionOnSet(p, E \ {m})
    BY <1>4, PositionRemoved
  <2>2. E \ {m} = D \ {m}
    OBVIOUS
  <2>3. /\ SumFunctionOnSet(p, D \ {m}) = SumFunctionOnSet(q, D \ {m})
        /\ SumFunctionOnSet(q, D \ {m}) \in Nat
    BY <1>5
  <2>4. SumFunction(p) = SumFunctionOnSet(p, E)
    BY <1>4 DEF SumFunction
  <2>5. SumFunctionOnSet(p, E \ {m}) = SumFunctionOnSet(q, D \ {m})
    BY <2>2, <2>3
  <2> HIDE DEF q, D, E
  <2> QED
    BY <1>4, <2>1, <2>3, <2>4, <2>5
<1>7. /\ g.positions = p
      /\ g.total_exposure = r.total_exposure + size
      /\ g.cluster_exposure = Insert(r.cluster_exposure, k,
                                     GetOr(r.cluster_exposure, k, 0) + size)
      /\ g = Book(g.positions, g.total_exposure, g.cluster_exposure)
  BY DEF Book
<1>8. IsMap(g.cluster_exposure, Clusters, Nat)
  <2>1. GetOr(r.cluster_exposure, k, 0) \in Nat
    BY <1>1, <1>3, MapGet
  <2>2. GetOr(r.cluster_exposure, k, 0) + size \in Nat
    BY <2>1
  <2> QED
    BY <1>1, <1>3, <1>7, <2>2, MapInsert
<1>9. ASSUME NEW c \in Clusters
      PROVE  GetOr(g.cluster_exposure, c, 0) = ClusterSum(p, c)
  <2>1. InCluster(p, c) \ {m} = InCluster(q, c) \ {m}
        /\ InCluster(q, c) \ {m} \subseteq D \ {m}
    <3> HIDE DEF q
    <3> QED
      BY <1>4 DEF InCluster
  <2>2. /\ SumFunctionOnSet(p, InCluster(p, c) \ {m}) = GetOr(r.cluster_exposure, c, 0)
        /\ GetOr(r.cluster_exposure, c, 0) \in Nat
    <3> HIDE DEF q, D
    <3> QED
      BY <1>1, <1>5, <2>1
  <2>3. CASE c = k
    <3>1. m \in InCluster(p, c) /\ InCluster(p, c) \subseteq E
      <4> HIDE DEF q
      <4> QED
        BY <1>4, <2>3 DEF InCluster
    <3>2. SumFunctionOnSet(p, InCluster(p, c)) = p[m] + SumFunctionOnSet(p, InCluster(p, c) \ {m})
      BY <1>4, <3>1, PositionRemoved
    <3>3. GetOr(g.cluster_exposure, c, 0) = GetOr(r.cluster_exposure, c, 0) + size
      <4> HIDE DEF k
      <4> QED
        BY <1>7, <2>3 DEF GetOr, Insert
    <3> QED
      BY <1>4, <2>2, <3>2, <3>3 DEF ClusterSum
  <2>4. CASE c # k
    <3>1. InCluster(p, c) \ {m} = InCluster(p, c)
      BY <2>4, SMTT(60) DEF InCluster
    <3>2. GetOr(g.cluster_exposure, c, 0) = GetOr(r.cluster_exposure, c, 0)
      <4> HIDE DEF k
      <4> QED
        BY <1>7, <2>4 DEF GetOr, Insert
    <3> QED
      BY <2>2, <3>1, <3>2 DEF ClusterSum
  <2> QED
    BY <2>3, <2>4
<1>10. g.total_exposure \in Nat /\ g.total_exposure = SumFunction(p)
  <2> HIDE DEF q, D
  <2> QED
    BY <1>1, <1>6, <1>7
<1> QED
  BY <1>4, <1>7, <1>8, <1>9, <1>10 DEF GoodBook, IsBook

\* Booking an approved size keeps the counters sums.
LEMMA ApproveGood ==
  ASSUME NEW b, GoodBook(b), NEW m \in Markets, NEW size \in Nat
  PROVE  LET g == Approve(Release(b, m), m, size)
         IN  GoodBook(g) /\ g.positions = Insert(b.positions, m, size)
<1> DEFINE r == Release(b, m)
           g == Approve(r, m, size)
<1>1. r.positions = b.positions
  BY ReleaseSums
<1>2. g = Book(Insert(b.positions, m, size), r.total_exposure + size,
               Insert(r.cluster_exposure, Cluster[m],
                      GetOr(r.cluster_exposure, Cluster[m], 0) + size))
  BY <1>1 DEF Approve
<1>3. GoodBook(g)
  <2> HIDE DEF g
  <2> QED
    BY <1>2, BookedGood
<1>4. g.positions = Insert(b.positions, m, size)
  <2> HIDE DEF g, r
  <2> QED
    BY <1>2 DEF Book
<1> QED
  BY <1>3, <1>4

\* Rolling a release back restores the positions, and counters that are sums.
LEMMA RollbackGood ==
  ASSUME NEW b, GoodBook(b), NEW m \in Markets
  PROVE  LET g == Rollback(Release(b, m), m)
         IN  GoodBook(g) /\ g.positions = b.positions
<1> DEFINE p == b.positions
           D == DOMAIN p
           r == Release(b, m)
           g == Rollback(r, m)
           sz == GetOr(p, m, 0)
<1>1. /\ r = Book(r.positions, r.total_exposure, r.cluster_exposure)
      /\ r.positions = p
      /\ r.total_exposure = SumFunctionOnSet(p, D \ {m})
      /\ r.total_exposure \in Nat
      /\ IsMap(r.cluster_exposure, Clusters, Nat)
      /\ \A c \in Clusters : GetOr(r.cluster_exposure, c, 0) =
           SumFunctionOnSet(p, InCluster(p, c) \ {m})
  BY ReleaseSums
<1>2. IsMap(p, Markets, Nat)
  BY DEF GoodBook, IsBook
<1>3. sz \in Nat
  BY <1>2, MapGet
<1>4. CASE sz <= 0
  <2>1. g = r
    <3> HIDE DEF r, p
    <3> QED
      BY <1>1, <1>4 DEF Rollback
  <2>2. ASSUME NEW W \in SUBSET D PROVE SumFunctionOnSet(p, W \ {m}) = SumFunctionOnSet(p, W)
    <3>1. CASE m \in W
      <4>1. /\ SumFunctionOnSet(p, W) = p[m] + SumFunctionOnSet(p, W \ {m})
            /\ SumFunctionOnSet(p, W \ {m}) \in Nat
        <5> HIDE DEF p
        <5> QED
          BY <1>2, <3>1, PositionRemoved, ZenonT(60)
      <4>2. p[m] = 0
        BY <1>3, <1>4, <3>1 DEF GetOr
      <4> HIDE DEF p
      <4> QED
        BY <4>1, <4>2
    <3>2. CASE m \notin W
      <4>1. W \ {m} = W
        BY <3>2
      <4> QED
        BY <4>1
    <3> QED
      BY <3>1, <3>2
  <2>3. r.total_exposure = SumFunction(p)
    BY <1>1, <2>2 DEF SumFunction
  <2>4. \A c \in Clusters : GetOr(r.cluster_exposure, c, 0) = ClusterSum(p, c)
    <3>1. \A c \in Clusters : InCluster(p, c) \in SUBSET D
      BY DEF InCluster
    <3> HIDE DEF p, D, r
    <3> QED
      BY <1>1, <2>2, <3>1 DEF ClusterSum
  <2> HIDE DEF p, r, g
  <2> QED
    BY <1>1, <1>2, <2>1, <2>3, <2>4 DEF GoodBook, IsBook, p, r, g
<1>5. CASE sz > 0
  <2>1. m \in D /\ sz = p[m]
    BY <1>5 DEF GetOr
  <2>2. p = Insert(p, m, sz)
    <3>1. p = [x \in D |-> p[x]]
      BY <1>2 DEF IsMap
    <3> HIDE DEF p, sz
    <3> QED
      BY <2>1, <3>1 DEF Insert, D
  <2>3. ~(sz <= 0)
    <3> HIDE DEF sz
    <3> QED
      BY <1>3, <1>5
  <2>4. g = Book(p, r.total_exposure + sz,
                 Insert(r.cluster_exposure, Cluster[m],
                        GetOr(r.cluster_exposure, Cluster[m], 0) + sz))
    <3>1. GetOr(r.positions, m, 0) = sz
      BY <1>1
    <3> HIDE DEF r, p, sz
    <3> QED
      BY <1>1, <2>3, <3>1 DEF Rollback
  <2>5. GoodBook(g)
    <3> HIDE DEF g, sz
    <3> QED
      BY <1>3, <2>2, <2>4, BookedGood
  <2>6. g.positions = p
    <3> HIDE DEF g, r, p, sz
    <3> QED
      BY <2>4 DEF Book
  <2> QED
    BY <2>5, <2>6
<1>6. sz <= 0 \/ sz > 0
  <2> HIDE DEF sz
  <2> QED
    BY <1>3
<1> QED
  BY <1>4, <1>5, <1>6

\* A book rebuilt from a portfolio update has counters that are sums, and no
\* position above the cap.
LEMMA SyncedGood ==
  ASSUME NEW pu \in Updates
  PROVE  GoodBook(Synced(pu))
<1> DEFINE p == [m \in DOMAIN pu.positions |->
                   MinOf(pu.positions[m].size, MaxPositionFraction)]
           CS == {Cluster[m] : m \in DOMAIN p}
           e == [c \in CS |-> SumFunctionOnSet(p, InCluster(p, c))]
           g == Synced(pu)
<1>1. IsMap(p, Markets, Nat)
  <2>1. /\ DOMAIN pu.positions \subseteq Markets
        /\ \A m \in DOMAIN pu.positions : pu.positions[m].size \in Nat
        /\ MaxPositionFraction \in Nat
    BY RiskConstants
  <2>2. \A m \in DOMAIN pu.positions : MinOf(pu.positions[m].size, MaxPositionFraction) \in Nat
    BY <2>1 DEF MinOf
  <2> QED
    BY <2>1, <2>2 DEF IsMap
<1>2. g = Book(p, SumFunction(p), e)
  BY DEF Synced
<1>3. /\ g.positions = p /\ g.total_exposure = SumFunction(p) /\ g.cluster_exposure = e
      /\ g = Book(g.positions, g.total_exposure, g.cluster_exposure)
  <2> HIDE DEF g, p, e
  <2> QED
    BY <1>2 DEF Book
<1>4. DOMAIN p \subseteq Markets
  BY <1>1 DEF IsMap
<1>5. CS \subseteq Clusters
  BY <1>4, ClusterMember
<1>6. \A c \in Clusters : InCluster(p, c) \in SUBSET DOMAIN p
  BY DEF InCluster
<1> HIDE DEF p
<1>7. \A c \in Clusters : SumFunctionOnSet(p, InCluster(p, c)) \in Nat
  BY <1>1, <1>6, PositionSums
<1>8. IsMap(e, Clusters, Nat)
  BY <1>5, <1>7 DEF IsMap
<1>9. SumFunction(p) \in Nat
  BY <1>1, PositionSums DEF SumFunction
<1>10. ASSUME NEW c \in Clusters PROVE GetOr(e, c, 0) = ClusterSum(p, c)
  <2>1. CASE c \in CS
    BY <2>1 DEF GetOr, ClusterSum
  <2>2. CASE c \notin CS
    <3>1. InCluster(p, c) = {}
      BY <2>2 DEF InCluster
    <3>2. SumFunctionOnSet(p, {}) = 0
      BY FS_EmptySet, SumType
    <3>3. GetOr(e, c, 0) = 0
      BY <2>2 DEF GetOr
    <3> QED
      BY <3>1, <3>2, <3>3 DEF ClusterSum
  <2> QED
    BY <2>1, <2>2
<1> HIDE DEF g, e
<1> QED
  BY <1>1, <1>3, <1>8, <1>9, <1>10 DEF GoodBook, IsBook, g

----------------------------------------------------------------------------
(***************************************************************************)
(* The size that evaluate grants.                                          *)
(***************************************************************************)

\* The characteristic bounds of integer division.
LEMMA DivBounds ==
  ASSUME NEW a \in Int, NEW d \in Nat \ {0}
  PROVE  /\ a \div d \in Int
         /\ (a \div d) * d <= a
         /\ a < (a \div d + 1) * d
BY Z3

\* Rounding up never exceeds a whole bound.
LEMMA CeilBound ==
  ASSUME NEW a \in Nat, NEW d \in Nat \ {0}, NEW n \in Nat, a <= n * d
  PROVE  CeilDiv(a, d) \in 0..n
<1> DEFINE q == (-a) \div d
<1>1. q \in Int /\ q * d <= -a /\ -a < (q + 1) * d
  BY DivBounds
<1>2. q <= 0
  <2>1. SUFFICES ASSUME q >= 1 PROVE FALSE
    BY <1>1
  <2> HIDE DEF q
  <2>2. q * d >= d
    BY <1>1, <2>1
  <2> QED
    BY <1>1, <2>2
<1>3. q >= -n
  <2>1. SUFFICES ASSUME q + 1 <= -n PROVE FALSE
    <3> HIDE DEF q
    <3> QED
      BY <1>1
  <2> HIDE DEF q
  <2>2. (q + 1) * d <= (-n) * d
    BY <1>1, <2>1
  <2>3. (-n) * d = -(n * d)
    OBVIOUS
  <2>4. n * d \in Int /\ (q + 1) * d \in Int
    BY <1>1
  <2> QED
    BY <1>1, <2>2, <2>3, <2>4
<1> HIDE DEF q
<1> QED
  BY <1>1, <1>2, <1>3 DEF CeilDiv, q

\* compute_net_edge_position_size only ever shrinks a position.
LEMMA ScaledSize ==
  ASSUME NEW base \in Nat, NEW net \in Int, NEW gross \in Nat
  PROVE  ComputeNetEdgePositionSize(base, net, gross) \in 0..base
<1>1. CASE gross <= 0
  BY <1>1 DEF ComputeNetEdgePositionSize
<1>2. CASE gross > 0
  <2> DEFINE c == Clamp(net, 0, gross)
  <2>1. c \in Nat /\ c <= gross
    BY DEF Clamp, MinOf, MaxOf
  <2> HIDE DEF c
  <2>2. base * c \in Nat /\ base * c <= base * gross
    BY <2>1
  <2>3. CeilDiv(base * c, gross) \in 0..base
    BY <1>2, <2>2, CeilBound
  <2> QED
    BY <1>2, <2>3 DEF ComputeNetEdgePositionSize, c
<1> QED
  BY <1>1, <1>2

\* Edges are integers, the gross edge a natural number.
LEMMA EdgeTypes ==
  ASSUME NEW sig \in Signals, NEW latency \in Latencies
  PROVE  GrossEdge(sig) \in Nat /\ NetEdge(sig, latency) \in Int
<1> DEFINE gross == GrossEdge(sig)
<1>1. gross \in Nat
  BY RiskConstants DEF GrossEdge, MaxOf
<1>2. /\ Decay[latency] \in Nat /\ PriceScale \in Nat \ {0}
      /\ FeeRate \in Nat /\ Spread \in Nat /\ Impact \in Nat /\ sig.position_fraction \in Nat
  BY CostConstants, RiskConstants
<1> HIDE DEF gross
<1>3. gross * Decay[latency] \in Int /\ sig.position_fraction * Impact \in Int
  BY <1>1, <1>2
<1>4. (gross * Decay[latency]) \div PriceScale \in Int
  BY <1>2, <1>3, DivBounds
<1>5. TotalCost(gross, sig.position_fraction, latency) \in Int
  BY <1>2, <1>3, <1>4 DEF TotalCost
<1>6. NetEdge(sig, latency) \in Int
  BY <1>1, <1>2, <1>5 DEF NetEdge, ComputeNetEdge, Clamp, MinOf, MaxOf, gross
<1> QED
  BY <1>1, <1>6 DEF gross

\* The size granted while there is room in both limits fits into both, into
\* the cap and into the request.
LEMMA SizeFits ==
  ASSUME NEW r, r.total_exposure \in Nat, NEW sig \in Signals, NEW latency \in Latencies,
         GetOr(r.cluster_exposure, Cluster[sig.market_id], 0) \in Nat,
         RemainingTotal(r) > 0, RemainingCluster(r, Cluster[sig.market_id]) > 0
  PROVE  LET size == ApprovedSize(r, sig, latency)
         IN  /\ size \in Nat
             /\ size <= sig.position_fraction /\ size <= MaxPositionFraction
             /\ size <= RemainingTotal(r)
             /\ size <= RemainingCluster(r, Cluster[sig.market_id])
<1> DEFINE c == Cluster[sig.market_id]
           base == MinOf(MinOf(MinOf(sig.position_fraction, MaxPositionFraction), RemainingTotal(r)),
                         RemainingCluster(r, c))
<1>1. /\ sig.position_fraction \in Nat /\ MaxPositionFraction \in Nat
      /\ RemainingTotal(r) \in Int /\ RemainingCluster(r, c) \in Int
  BY RiskConstants DEF RemainingTotal, RemainingCluster
<1>2. /\ base \in Nat
      /\ base <= sig.position_fraction /\ base <= MaxPositionFraction
      /\ base <= RemainingTotal(r) /\ base <= RemainingCluster(r, c)
  BY <1>1 DEF MinOf
<1>3. GrossEdge(sig) \in Nat /\ NetEdge(sig, latency) \in Int
  BY EdgeTypes
<1>4. ApprovedSize(r, sig, latency) \in 0..base
  <2> HIDE DEF base
  <2>1. ComputeNetEdgePositionSize(base, NetEdge(sig, latency), GrossEdge(sig)) \in 0..base
    BY <1>2, <1>3, ScaledSize
  <2> QED
    BY <2>1 DEF ApprovedSize, base
<1> HIDE DEF base, c
<1> QED
  BY <1>1, <1>2, <1>4 DEF c

\* Approval means that the gates were passed on the released book.
LEMMA ApprovedMeans ==
  ASSUME NEW b, NEW eq, NEW latency, NEW sig,
         Verdict(b, eq, latency, sig) = "Approved"
  PROVE  LET r == Release(b, sig.market_id)
         IN  /\ ~InDrawdown(eq)
             /\ ~(RemainingTotal(r) <= 0)
             /\ ~(RemainingCluster(r, Cluster[sig.market_id]) <= 0)
             /\ ~(ApprovedSize(r, sig, latency) <= 0)
<1> DEFINE r == Release(b, sig.market_id)
<1> HIDE DEF r
<1> QED
  BY DEF Verdict, r

\* Every verdict is an approval or a reason for a rejection.
LEMMA VerdictType ==
  ASSUME NEW b, NEW eq, NEW latency, NEW sig
  PROVE  Verdict(b, eq, latency, sig) \in Reasons \cup {"Approved"}
BY DEF Verdict, Reasons, ExposureReasons

----------------------------------------------------------------------------
(***************************************************************************)
(* The invariant.                                                          *)
(***************************************************************************)

\* Markets seen since the last tick have not been quiet for a tick.
SeenIsRecent == \A m \in seen_liquidity_ids : quiet[m] = 0

IInv ==
  /\ TypeOK
  /\ GoodBook(book)
  /\ CountersBalance
  /\ LiquidityFresh /\ SeenIsRecent
  /\ equity.peak >= equity.current

\* The outcome of an evaluation: a good book, with the position replaced by
\* the granted size on approval and all positions as they were on rejection.
LEMMA EvaluateGood ==
  ASSUME NEW b, GoodBook(b), NEW eq, NEW sig \in Signals, NEW latency \in Latencies
  PROVE  LET v == Verdict(b, eq, latency, sig)
             g == BookAfter(b, sig, latency, v)
             size == ApprovedSize(Release(b, sig.market_id), sig, latency)
         IN  /\ GoodBook(g)
             /\ v # "Approved" => g.positions = b.positions
             /\ v = "Approved" =>
                  /\ g.positions = Insert(b.positions, sig.market_id, size)
                  /\ size \in Nat /\ size > 0
                  /\ size <= sig.position_fraction /\ size <= MaxPositionFraction
                  /\ g.total_exposure <= MaxTotalExposure
                  /\ g.cluster_exposure[Cluster[sig.market_id]] <= MaxClusterExposure
<1> DEFINE v == Verdict(b, eq, latency, sig)
           m == sig.market_id
           k == Cluster[m]
           r == Release(b, m)
           size == ApprovedSize(r, sig, latency)
           g == BookAfter(b, sig, latency, v)
<1>1. m \in Markets
  BY RiskConstants
<1>2. k \in Clusters
  BY <1>1, ClusterMember
<1>3. /\ r.total_exposure \in Nat
      /\ IsMap(r.cluster_exposure, Clusters, Nat)
  BY <1>1, ReleaseSums
<1>4. GetOr(r.cluster_exposure, k, 0) \in Nat
  BY <1>2, <1>3, MapGet
<1>5. CASE v = "Approved"
  <2>1. /\ ~(RemainingTotal(r) <= 0)
        /\ ~(RemainingCluster(r, k) <= 0)
        /\ ~(size <= 0)
    BY <1>5, ApprovedMeans
  <2>2. RemainingTotal(r) \in Int /\ RemainingCluster(r, k) \in Int
    <3> HIDE DEF r, k
    <3> QED
      BY <1>3, <1>4, RiskConstants DEF RemainingTotal, RemainingCluster
  <2>3. RemainingTotal(r) > 0 /\ RemainingCluster(r, k) > 0
    <3> HIDE DEF r, k
    <3> QED
      BY <2>1, <2>2
  <2>4. /\ size \in Nat
        /\ size <= sig.position_fraction /\ size <= MaxPositionFraction
        /\ size <= RemainingTotal(r) /\ size <= RemainingCluster(r, k)
    BY <1>3, <1>4, <2>3, SizeFits
  <2>5. g = Approve(r, m, size)
    BY <1>5 DEF BookAfter
  <2>6. GoodBook(g) /\ g.positions = Insert(b.positions, m, size)
    <3> HIDE DEF size
    <3> QED
      BY <1>1, <2>4, <2>5, ApproveGood
  <2>7. /\ g.total_exposure = r.total_exposure + size
        /\ g.cluster_exposure[k] = GetOr(r.cluster_exposure, k, 0) + size
    <3> HIDE DEF g, r, size
    <3> QED
      BY <2>5 DEF Approve, Book, Insert
  <2>8. g.total_exposure <= MaxTotalExposure /\ g.cluster_exposure[k] <= MaxClusterExposure
    <3> HIDE DEF g, r, size, k
    <3> QED
      BY <1>3, <1>4, <2>4, <2>7, RiskConstants DEF RemainingTotal, RemainingCluster
  <2>9. size > 0
    <3> HIDE DEF size
    <3> QED
      BY <2>1, <2>4
  <2> HIDE DEF g, size, v
  <2> QED
    BY <1>5, <2>4, <2>6, <2>8, <2>9 DEF g, size, v
<1>6. CASE v # "Approved"
  <2>1. CASE v \in ExposureReasons
    <3>1. g = Rollback(r, m)
      BY <1>6, <2>1 DEF BookAfter
    <3>2. GoodBook(g) /\ g.positions = b.positions
      BY <1>1, <3>1, RollbackGood
    <3> HIDE DEF g, v
    <3> QED
      BY <1>6, <3>2 DEF g, v
  <2>2. CASE v \notin ExposureReasons
    <3>1. g = b
      BY <1>6, <2>2 DEF BookAfter
    <3> HIDE DEF g, v
    <3> QED
      BY <1>6, <3>1 DEF g, v
  <2> QED
    BY <2>1, <2>2
<1> QED
  BY <1>5, <1>6

\* Counting a verdict keeps the counters in balance.
LEMMA CountedBalance ==
  ASSUME stats \in Counters, CountersBalance, NEW v \in Reasons \cup {"Approved"},
         stats' = Counted(stats, v)
  PROVE  stats' \in Counters /\ CountersBalance'
<1>1. stats' \in Counters
  BY DEF Counted, Counters
<1>2. /\ stats'.signals_seen = stats.signals_seen + 1
      /\ stats'.trades_approved = stats.trades_approved + (IF v = "Approved" THEN 1 ELSE 0)
      /\ stats'.trades_rejected = stats.trades_rejected + (IF v = "Approved" THEN 0 ELSE 1)
      /\ stats'.cost_trades_count =
           stats.cost_trades_count + (IF v = "LowExpectedValue" THEN 0 ELSE 1)
      /\ stats'.rejected_negative_edge =
           stats.rejected_negative_edge + (IF v = "NegativeNetEdge" THEN 1 ELSE 0)
      /\ stats'.rejected_insufficient_profit =
           stats.rejected_insufficient_profit
           + (IF v = "InsufficientExpectedProfit" THEN 1 ELSE 0)
  BY DEF Counted
<1>3. CountersBalance'
  BY <1>2 DEF CountersBalance, Counters
<1> QED
  BY <1>1, <1>3

\* The invariant holds initially ...
LEMMA InitIInv == Init => IInv
<1> SUFFICES ASSUME Init PROVE IInv
  OBVIOUS
<1>1. book.positions = EmptyMap /\ book.total_exposure = 0 /\ book.cluster_exposure = EmptyMap
      /\ book = Book(book.positions, book.total_exposure, book.cluster_exposure)
  BY DEF Init, Book
<1>2. IsMap(EmptyMap, Markets, Nat) /\ IsMap(EmptyMap, Clusters, Nat) /\ DOMAIN EmptyMap = {}
  BY DEF IsMap, EmptyMap
<1>3. SumFunctionOnSet(EmptyMap, {}) = 0
  BY FS_EmptySet, SumType
<1>4. GoodBook(book)
  <2>1. \A c \in Clusters : InCluster(EmptyMap, c) = {}
    BY <1>2 DEF InCluster
  <2> QED
    BY <1>1, <1>2, <1>3, <2>1, SMTT(40) DEF GoodBook, IsBook, SumFunction, ClusterSum, GetOr
<1>5. Bankroll * PriceScale \in Int
  BY RiskConstants, CostConstants
<1>6. TypeOK
  <2>1. stats \in Counters
    BY DEF Init, Counters
  <2>2. equity \in [peak : Int, current : Int]
    BY <1>5 DEF Init
  <2> QED
    BY <1>4, <2>1, <2>2, RiskConstants DEF TypeOK, Init, GoodBook, IsBook
<1> QED
  BY <1>4, <1>5, <1>6 DEF Init, IInv, CountersBalance, LiquidityFresh, SeenIsRecent

\* ... and is kept by the evaluation of a signal (evaluate),
LEMMA SignalIInv ==
  ASSUME IInv, NEW sig \in Signals, ProcessSignal(sig)
  PROVE  IInv'
<1> DEFINE v == Verdict(book, equity, avg_latency_ms, sig)
<1>1. avg_latency_ms \in Latencies /\ GoodBook(book)
  BY DEF IInv, TypeOK
<1>2. GoodBook(book')
  BY <1>1, EvaluateGood DEF ProcessSignal
<1>3. stats' \in Counters /\ CountersBalance'
  <2>1. v \in Reasons \cup {"Approved"}
    BY VerdictType
  <2>2. stats' = Counted(stats, v)
    BY DEF ProcessSignal
  <2> HIDE DEF v
  <2> QED
    BY <2>1, <2>2, CountedBalance DEF IInv, TypeOK
<1>4. steps' \in Nat
  BY DEF ProcessSignal, Step, IInv, TypeOK
<1>5. UNCHANGED <<equity, avg_latency_ms, market_liquidity, seen_liquidity_ids, quiet>>
  BY DEF ProcessSignal
<1>6. TypeOK'
  BY <1>2, <1>3, <1>4, <1>5 DEF IInv, TypeOK, GoodBook, IsBook
<1> QED
  BY <1>2, <1>3, <1>5, <1>6 DEF IInv, LiquidityFresh, SeenIsRecent

\* by the synchronisation with the portfolio,
LEMMA PortfolioIInv ==
  ASSUME IInv, NEW pu \in Updates, OnPortfolio(pu)
  PROVE  IInv'
<1>1. GoodBook(book')
  BY SyncedGood DEF OnPortfolio
<1>2. Bankroll * PriceScale \in Int /\ pu.pnl \in Int
  BY RiskConstants, CostConstants
<1>3. /\ equity' \in [peak : Int, current : Int]
      /\ equity'.peak >= equity'.current
      /\ equity'.peak >= equity.peak
  <2> DEFINE e == Bankroll * PriceScale + pu.pnl
  <2>1. e \in Int
    BY <1>2
  <2>2. equity' = [peak |-> MaxOf(equity.peak, e), current |-> e]
    BY DEF OnPortfolio
  <2>3. equity.peak \in Int
    BY DEF IInv, TypeOK
  <2> HIDE DEF e
  <2> QED
    BY <2>1, <2>2, <2>3 DEF MaxOf
<1>4. steps' \in Nat
  BY DEF OnPortfolio, Step, IInv, TypeOK
<1>5. UNCHANGED <<stats, avg_latency_ms, market_liquidity, seen_liquidity_ids, quiet>>
  BY DEF OnPortfolio
<1>6. TypeOK'
  BY <1>1, <1>3, <1>4, <1>5 DEF IInv, TypeOK, GoodBook, IsBook
<1> QED
  BY <1>1, <1>3, <1>5, <1>6 DEF IInv, LiquidityFresh, SeenIsRecent, CountersBalance

\* by a Market event,
LEMMA MarketIInv ==
  ASSUME IInv, NEW market \in Markets, NEW liquid \in BOOLEAN, OnMarket(market, liquid)
  PROVE  IInv'
<1>1. UNCHANGED <<book, equity, stats, avg_latency_ms>>
  BY DEF OnMarket
<1>2. /\ seen_liquidity_ids' = seen_liquidity_ids \cup {market}
      /\ market_liquidity' \subseteq market_liquidity \cup {market}
      /\ quiet' = [quiet EXCEPT ![market] = 0]
      /\ steps' = steps + 1
  BY DEF OnMarket, Step
<1>3. TypeOK'
  BY <1>1, <1>2 DEF IInv, TypeOK
<1>4. LiquidityFresh' /\ SeenIsRecent'
  BY <1>2 DEF IInv, TypeOK, LiquidityFresh, SeenIsRecent
<1> QED
  BY <1>1, <1>3, <1>4 DEF IInv, CountersBalance

\* by the eviction tick,
LEMMA TickIInv ==
  ASSUME IInv, OnEvictionTick
  PROVE  IInv'
<1>1. UNCHANGED <<book, equity, stats, avg_latency_ms>>
  BY DEF OnEvictionTick
<1>2. /\ market_liquidity' = market_liquidity \cap seen_liquidity_ids
      /\ seen_liquidity_ids' = {}
      /\ quiet' = [m \in Markets |-> quiet[m] + 1]
      /\ steps' = steps + 1
  BY DEF OnEvictionTick, Step
<1>3. TypeOK'
  BY <1>1, <1>2 DEF IInv, TypeOK
<1>4. LiquidityFresh' /\ SeenIsRecent'
  BY <1>2 DEF IInv, TypeOK, LiquidityFresh, SeenIsRecent
<1> QED
  BY <1>1, <1>3, <1>4 DEF IInv, CountersBalance

\* by a latency report,
LEMMA ReportIInv ==
  ASSUME IInv, NEW latency \in Reports, OnEdgeDecayReport(latency)
  PROVE  IInv'
<1>1. UNCHANGED <<book, equity, stats, market_liquidity, seen_liquidity_ids, quiet>>
  BY DEF OnEdgeDecayReport
<1>2. avg_latency_ms' \in Latencies
  BY RiskConstants DEF OnEdgeDecayReport, IInv, TypeOK
<1>3. steps' \in Nat
  BY DEF OnEdgeDecayReport, Step, IInv, TypeOK
<1>4. TypeOK'
  BY <1>1, <1>2, <1>3 DEF IInv, TypeOK
<1> QED
  BY <1>1, <1>4 DEF IInv, CountersBalance, LiquidityFresh, SeenIsRecent

\* and so by every step.
LEMMA NextIInv == IInv /\ [Next]_vars => IInv'
<1> SUFFICES ASSUME IInv, [Next]_vars PROVE IInv'
  OBVIOUS
<1>1. ASSUME NEW sig \in Signals, OnSignal(sig) \/ OnRoutedSignal(sig) PROVE IInv'
  BY <1>1, SignalIInv DEF OnSignal, OnRoutedSignal
<1>2. ASSUME NEW pu \in Updates, OnPortfolio(pu) PROVE IInv'
  BY <1>2, PortfolioIInv
<1>3. ASSUME NEW market \in Markets, NEW liquid \in BOOLEAN, OnMarket(market, liquid) PROVE IInv'
  BY <1>3, MarketIInv
<1>4. ASSUME NEW latency \in Reports, OnEdgeDecayReport(latency) PROVE IInv'
  BY <1>4, ReportIInv
<1>5. CASE OnEvictionTick
  BY <1>5, TickIInv
<1>6. CASE UNCHANGED vars
  BY <1>6 DEF vars, IInv, TypeOK, CountersBalance, LiquidityFresh, SeenIsRecent
<1> QED
  BY <1>1, <1>2, <1>3, <1>4, <1>5, <1>6 DEF Next

----------------------------------------------------------------------------
(***************************************************************************)
(* The theorems.                                                           *)
(***************************************************************************)

\* The inductive invariant holds in every reachable state.
THEOREM RiskInvariant == Spec => []IInv
BY InitIInv, NextIInv, PTL DEF Spec

\* RiskState and the locals of run keep their types.
THEOREM RiskTypes == Spec => []TypeOK
<1>1. IInv => TypeOK
  BY DEF IInv
<1> QED
  BY <1>1, RiskInvariant, PTL

\* The exposure counters are the sums of the positions, whatever signals,
\* rejections and portfolio updates came before.
THEOREM RiskExposure == Spec => []ExposureIsSum
<1>1. IInv => ExposureIsSum
  BY DEF IInv, GoodBook, ExposureIsSum, ClusterSum
<1> QED
  BY <1>1, RiskInvariant, PTL

\* Every signal is counted exactly once.
THEOREM RiskCounters == Spec => []CountersBalance
<1>1. IInv => CountersBalance
  BY DEF IInv
<1> QED
  BY <1>1, RiskInvariant, PTL

\* Liquidity entries are at most one whole eviction period old.
THEOREM RiskLiquidity == Spec => []LiquidityFresh
<1>1. IInv => LiquidityFresh
  BY DEF IInv
<1> QED
  BY <1>1, RiskInvariant, PTL

\* Only the evaluation of a signal publishes an outcome.
LEMMA OutcomeFromSignal ==
  ASSUME Next, out'.kind # "None"
  PROVE  \E sig \in Signals : ProcessSignal(sig)
BY DEF Next, OnSignal, OnRoutedSignal, OnPortfolio, OnMarket, OnEdgeDecayReport,
       OnEvictionTick, Nothing

\* What is published carries the signal, and the size or the reason.
LEMMA PublishedFields ==
  ASSUME NEW sig, NEW v, NEW size
  PROVE  LET o == Published(sig, v, size)
         IN  /\ o.signal = sig
             /\ v = "Approved" => o.kind = "ApprovedTrade" /\ o.approved_fraction = size
             /\ v # "Approved" => o.kind = "TradeRejected" /\ o.reason = v
BY DEF Published

\* Approved trades respect the position cap and both exposure limits.
THEOREM RiskLimits == Spec => ApprovalWithinLimits
<1>1. ASSUME IInv, [Next]_vars
      PROVE  [out'.kind = "ApprovedTrade" =>
                LET m == out'.signal.market_id
                IN  /\ out'.approved_fraction = book'.positions[m]
                    /\ book'.positions[m] \in 1..MinOf(MaxPositionFraction, out'.signal.position_fraction)
                    /\ book'.total_exposure <= MaxTotalExposure
                    /\ book'.cluster_exposure[Cluster[m]] <= MaxClusterExposure]_vars
  <2> SUFFICES ASSUME Next, out'.kind = "ApprovedTrade"
               PROVE  LET m == out'.signal.market_id
                      IN  /\ out'.approved_fraction = book'.positions[m]
                          /\ book'.positions[m] \in 1..MinOf(MaxPositionFraction, out'.signal.position_fraction)
                          /\ book'.total_exposure <= MaxTotalExposure
                          /\ book'.cluster_exposure[Cluster[m]] <= MaxClusterExposure
    BY <1>1
  <2>1. PICK sig \in Signals : ProcessSignal(sig)
    BY OutcomeFromSignal
  <2> DEFINE v == Verdict(book, equity, avg_latency_ms, sig)
             size == ApprovedSize(Release(book, sig.market_id), sig, avg_latency_ms)
             m == sig.market_id
  <2>2. out' = Published(sig, v, size) /\ book' = BookAfter(book, sig, avg_latency_ms, v)
    BY <2>1 DEF ProcessSignal
  <2>3. v = "Approved"
    <3> HIDE DEF v, size
    <3> QED
      BY <2>2, PublishedFields
  <2>4. out'.signal = sig /\ out'.approved_fraction = size
    <3> HIDE DEF v, size
    <3> QED
      BY <2>2, <2>3, PublishedFields
  <2>5. avg_latency_ms \in Latencies /\ GoodBook(book)
    BY <1>1 DEF IInv, TypeOK
  <2>6. /\ book'.positions = Insert(book.positions, m, size)
        /\ size \in Nat /\ size > 0
        /\ size <= sig.position_fraction /\ size <= MaxPositionFraction
        /\ book'.total_exposure <= MaxTotalExposure
        /\ book'.cluster_exposure[Cluster[m]] <= MaxClusterExposure
    BY <2>2, <2>3, <2>5, EvaluateGood
  <2>7. book'.positions[m] = size
    <3> HIDE DEF m, size
    <3> QED
      BY <2>6 DEF Insert
  <2>8. size \in 1..MinOf(MaxPositionFraction, sig.position_fraction)
    <3>1. MaxPositionFraction \in Nat /\ sig.position_fraction \in Nat
      BY RiskConstants
    <3> HIDE DEF size
    <3> QED
      BY <2>6, <3>1 DEF MinOf
  <2> HIDE DEF size, v
  <2> QED
    BY <2>4, <2>6, <2>7, <2>8
<1> QED
  BY <1>1, RiskInvariant, PTL DEF Spec, ApprovalWithinLimits

\* Equal positions in good books mean equal exposures.
LEMMA SamePositionsSameExposure ==
  ASSUME NEW b, GoodBook(b), NEW g, GoodBook(g), g.positions = b.positions
  PROVE  /\ g.total_exposure = b.total_exposure
         /\ \A c \in Clusters : GetOr(g.cluster_exposure, c, 0) = GetOr(b.cluster_exposure, c, 0)
BY DEF GoodBook, ClusterSum, SumFunction

\* Rejected signals leave every exposure as it was.
THEOREM RiskRejection == Spec => RejectionKeepsExposure
<1>1. ASSUME IInv, [Next]_vars
      PROVE  [out'.kind = "TradeRejected" =>
                /\ book'.positions = book.positions
                /\ book'.total_exposure = book.total_exposure
                /\ \A c \in Clusters : GetOr(book'.cluster_exposure, c, 0)
                                       = GetOr(book.cluster_exposure, c, 0)]_vars
  <2> SUFFICES ASSUME Next, out'.kind = "TradeRejected"
               PROVE  /\ book'.positions = book.positions
                      /\ book'.total_exposure = book.total_exposure
                      /\ \A c \in Clusters : GetOr(book'.cluster_exposure, c, 0)
                                             = GetOr(book.cluster_exposure, c, 0)
    BY <1>1
  <2>1. PICK sig \in Signals : ProcessSignal(sig)
    BY OutcomeFromSignal
  <2> DEFINE v == Verdict(book, equity, avg_latency_ms, sig)
             size == ApprovedSize(Release(book, sig.market_id), sig, avg_latency_ms)
  <2>2. out' = Published(sig, v, size) /\ book' = BookAfter(book, sig, avg_latency_ms, v)
    BY <2>1 DEF ProcessSignal
  <2>3. v # "Approved"
    <3> HIDE DEF v, size
    <3> QED
      BY <2>2, PublishedFields
  <2>4. avg_latency_ms \in Latencies /\ GoodBook(book)
    BY <1>1 DEF IInv, TypeOK
  <2>5. GoodBook(book') /\ book'.positions = book.positions
    BY <2>2, <2>3, <2>4, EvaluateGood
  <2> QED
    BY <2>4, <2>5, SamePositionsSameExposure
<1> QED
  BY <1>1, RiskInvariant, PTL DEF Spec, RejectionKeepsExposure

\* A market's own position never makes the book too full for its signal.
THEOREM RiskFull == Spec => FullWithoutOwn
<1> DEFINE Full(o) ==
             LET m      == o.signal.market_id
                 others == DOMAIN book.positions \ {m}
             IN  /\ o.reason = "TotalExposureFull" =>
                      SumFunctionOnSet(book.positions, others) >= MaxTotalExposure
                 /\ o.reason = "ClusterExposureFull" =>
                      SumFunctionOnSet(book.positions,
                                       others \cap InCluster(book.positions, Cluster[m]))
                      >= MaxClusterExposure
<1>1. ASSUME IInv, [Next]_vars
      PROVE  [out'.kind = "TradeRejected" => Full(out')]_vars
  <2> SUFFICES ASSUME Next, out'.kind = "TradeRejected"
               PROVE  Full(out')
    BY <1>1
  <2>1. PICK sig \in Signals : ProcessSignal(sig)
    BY OutcomeFromSignal
  <2> DEFINE v == Verdict(book, equity, avg_latency_ms, sig)
             size == ApprovedSize(Release(book, sig.market_id), sig, avg_latency_ms)
             m == sig.market_id
             k == Cluster[m]
             p == book.positions
             r == Release(book, m)
             others == DOMAIN p \ {m}
  <2>2. out' = Published(sig, v, size)
    BY <2>1 DEF ProcessSignal
  <2>3. out'.signal = sig /\ out'.reason = v
    <3> HIDE DEF v, size
    <3> QED
      BY <2>2, PublishedFields
  <2>4. GoodBook(book) /\ m \in Markets
    BY <1>1, RiskConstants DEF IInv
  <2>5. k \in Clusters
    BY <2>4, ClusterMember
  <2>6. /\ r.total_exposure = SumFunctionOnSet(p, others)
        /\ r.total_exposure \in Nat
        /\ IsMap(r.cluster_exposure, Clusters, Nat)
        /\ GetOr(r.cluster_exposure, k, 0) = SumFunctionOnSet(p, InCluster(p, k) \ {m})
    <3>1. /\ r.total_exposure = SumFunctionOnSet(p, DOMAIN p \ {m})
          /\ r.total_exposure \in Nat
          /\ IsMap(r.cluster_exposure, Clusters, Nat)
          /\ \A c \in Clusters : GetOr(r.cluster_exposure, c, 0) =
               SumFunctionOnSet(p, InCluster(p, c) \ {m})
      BY <2>4, ReleaseSums, SMTT(40)
    <3> HIDE DEF r, p, k
    <3> QED
      BY <2>5, <3>1
  <2>7. others \cap InCluster(p, k) = InCluster(p, k) \ {m}
    BY DEF InCluster
  <2>8. GetOr(r.cluster_exposure, k, 0) \in Nat
    BY <2>5, <2>6, MapGet
  <2>9. /\ v = "TotalExposureFull" => RemainingTotal(r) <= 0
        /\ v = "ClusterExposureFull" => RemainingCluster(r, k) <= 0
    <3> HIDE DEF r
    <3> QED
      BY DEF Verdict, r
  <2>10. /\ v = "TotalExposureFull" => SumFunctionOnSet(p, others) >= MaxTotalExposure
         /\ v = "ClusterExposureFull" =>
              SumFunctionOnSet(p, others \cap InCluster(p, k)) >= MaxClusterExposure
    <3> DEFINE t == SumFunctionOnSet(p, others)
               u == SumFunctionOnSet(p, others \cap InCluster(p, k))
    <3>1. t = r.total_exposure /\ t \in Nat
      BY <2>6
    <3>2. u = GetOr(r.cluster_exposure, k, 0) /\ u \in Nat
      BY <2>6, <2>7, <2>8
    <3>3. RemainingTotal(r) = MaxTotalExposure - t /\ RemainingCluster(r, k) = MaxClusterExposure - u
      BY <3>1, <3>2 DEF RemainingTotal, RemainingCluster
    <3>4. MaxTotalExposure \in Nat /\ MaxClusterExposure \in Nat
      BY RiskConstants
    <3> HIDE DEF r, k, v, t, u
    <3>5. /\ v = "TotalExposureFull" => t >= MaxTotalExposure
          /\ v = "ClusterExposureFull" => u >= MaxClusterExposure
      BY <2>9, <3>1, <3>2, <3>3, <3>4
    <3> QED
      BY <3>5 DEF t, u
  <2> HIDE DEF v
  <2> QED
    BY <2>3, <2>10
<1> QED
  BY <1>1, RiskInvariant, PTL DEF Spec, FullWithoutOwn

\* No trade is approved in a drawdown, and the watermark never falls.
THEOREM RiskDrawdown == Spec => DrawdownSuspends
<1>1. ASSUME IInv, IInv', [Next]_vars
      PROVE  [/\ equity'.peak >= equity.peak /\ equity'.peak >= equity'.current
              /\ out'.kind = "ApprovedTrade" => ~InDrawdown(equity)]_vars
  <2> SUFFICES ASSUME Next
               PROVE  /\ equity'.peak >= equity.peak /\ equity'.peak >= equity'.current
                      /\ out'.kind = "ApprovedTrade" => ~InDrawdown(equity)
    BY <1>1
  <2>1. equity'.peak >= equity'.current
    BY <1>1 DEF IInv
  <2>2. equity'.peak >= equity.peak
    <3>1. equity.peak \in Int
      BY <1>1 DEF IInv, TypeOK
    <3>2. ASSUME NEW pu \in Updates, OnPortfolio(pu) PROVE equity'.peak >= equity.peak
      <4> DEFINE e == Bankroll * PriceScale + pu.pnl
      <4>1. e \in Int
        BY RiskConstants, CostConstants
      <4>2. equity'.peak = MaxOf(equity.peak, e)
        BY <3>2 DEF OnPortfolio
      <4> HIDE DEF e
      <4> QED
        BY <3>1, <4>1, <4>2 DEF MaxOf
    <3>3. equity' = equity \/ \E pu \in Updates : OnPortfolio(pu)
      BY DEF Next, OnSignal, OnRoutedSignal, ProcessSignal, OnMarket, OnEdgeDecayReport,
             OnEvictionTick
    <3> QED
      BY <3>1, <3>2, <3>3
  <2>3. ASSUME out'.kind = "ApprovedTrade" PROVE ~InDrawdown(equity)
    <3>1. PICK sig \in Signals : ProcessSignal(sig)
      BY <2>3, OutcomeFromSignal
    <3> DEFINE v == Verdict(book, equity, avg_latency_ms, sig)
               size == ApprovedSize(Release(book, sig.market_id), sig, avg_latency_ms)
    <3>2. out' = Published(sig, v, size)
      BY <3>1 DEF ProcessSignal
    <3>3. v = "Approved"
      <4> HIDE DEF v, size
      <4> QED
        BY <2>3, <3>2, PublishedFields
    <3> QED
      BY <3>3, ApprovedMeans
  <2> QED
    BY <2>1, <2>2, <2>3
<1> QED
  BY <1>1, RiskInvariant, PTL DEF Spec, DrawdownSuspends

\* The books are sound after every handler.
THEOREM RiskAccounting == Spec => []Accounting
<1>1. TypeOK /\ ExposureIsSum /\ CountersBalance /\ LiquidityFresh => Accounting
  BY DEF Accounting
<1> QED
  BY <1>1, RiskTypes, RiskExposure, RiskCounters, RiskLiquidity, PTL

\* A rejection leaves every exposure as it was, and one for a full book is for
\* a book that the other markets fill.
THEOREM RiskRejectionIsJust == Spec => RejectionIsJust
BY RiskRejection, RiskFull DEF RejectionIsJust

----------------------------------------------------------------------------
(***************************************************************************)
(* A rejection restores the book exactly, its keys included, provided that *)
(* every position has a cluster entry; it has after every handler.  The    *)
(* composition of the engines compares whole books and needs this.         *)
(***************************************************************************)
Covered(b) == \A m \in DOMAIN b.positions : Cluster[m] \in DOMAIN b.cluster_exposure

\* Reducing an entry and raising it again leaves the map as it was.
LEMMA InsertBack ==
  ASSUME NEW K, NEW f, IsMap(f, K, Nat), NEW k \in DOMAIN f, NEW v
  PROVE  /\ Insert(f, k, f[k]) = f
         /\ Insert(Insert(f, k, v), k, f[k]) = f
         /\ GetOr(Insert(f, k, v), k, 0) = v
<1>1. f = [j \in DOMAIN f |-> f[j]]
  BY DEF IsMap
<1>2. DOMAIN f \cup {k} = DOMAIN f
  OBVIOUS
<1> QED
  BY <1>1, <1>2 DEF Insert, GetOr

\* The release and rollback of a position cancel out (rollback_release).
LEMMA RollbackExact ==
  ASSUME NEW b, GoodBook(b), Covered(b), NEW m \in Markets
  PROVE  Rollback(Release(b, m), m) = b
<1> DEFINE p == b.positions
           D == DOMAIN p
           e == b.cluster_exposure
           T == b.total_exposure
           k == Cluster[m]
<1>1. /\ IsMap(p, Markets, Nat) /\ IsMap(e, Clusters, Nat) /\ T \in Nat
      /\ b = Book(p, T, e)
  BY DEF GoodBook, IsBook
<1>2. CASE m \notin D
  BY <1>2 DEF Release, Rollback, GetOr
<1>3. CASE m \in D
  <2> DEFINE sz == p[m]
  <2>1. k \in DOMAIN e /\ k \in Clusters /\ m \in InCluster(p, k) /\ InCluster(p, k) \in SUBSET D
    BY <1>3, ClusterMember DEF Covered, InCluster
  <2>2. T = SumFunctionOnSet(p, D) /\ e[k] = SumFunctionOnSet(p, InCluster(p, k))
    BY <2>1 DEF GoodBook, SumFunction, ClusterSum, GetOr
  <2>3. sz \in Nat /\ e[k] \in Nat
    BY <1>1, <1>3, <2>1 DEF IsMap
  <2>4. ASSUME NEW W \in SUBSET D, m \in W
        PROVE  sz <= SumFunctionOnSet(p, W)
    <3> HIDE DEF p
    <3>1. IsFiniteSet(W) /\ \A x \in W : p[x] \in Nat
      BY <1>1, PositionSums
    <3> QED
      BY <2>4, <3>1, SumNat
  <2>5. sz <= T /\ sz <= e[k]
    BY <1>3, <2>1, <2>2, <2>4
  <2> DEFINE f == Insert(e, k, e[k] - sz)
  <2>6. Release(b, m) = Book(p, T - sz, f)
    <3>1. Release(b, m) = Book(p, MaxOf(T - sz, 0), Insert(e, k, MaxOf(e[k] - sz, 0)))
      BY <1>3, <2>1 DEF Release, GetOr
    <3>2. MaxOf(T - sz, 0) = T - sz /\ MaxOf(e[k] - sz, 0) = e[k] - sz
      <4> HIDE DEF sz, T, e
      <4> QED
        BY <1>1, <2>3, <2>5 DEF MaxOf
    <3> QED
      BY <3>1, <3>2
  <2>7. /\ Insert(e, k, e[k]) = e /\ Insert(f, k, e[k]) = e
        /\ GetOr(f, k, 0) = e[k] - sz
    <3>1. \A v : /\ Insert(e, k, e[k]) = e
                 /\ Insert(Insert(e, k, v), k, e[k]) = e
                 /\ GetOr(Insert(e, k, v), k, 0) = v
      <4> HIDE DEF e, k
      <4> QED
        BY <1>1, <2>1, InsertBack
    <3> QED
      BY <3>1
  <2>8. e[k] - sz + sz = e[k] /\ T - sz + sz = T /\ (sz <= 0 => sz = 0 /\ e[k] - sz = e[k] /\ T - sz = T)
    <3> HIDE DEF sz, T, e
    <3> QED
      BY <1>1, <2>3
  <2>9. GetOr(p, m, 0) = sz
    BY <1>3 DEF GetOr
  <2> DEFINE r == Book(p, T - sz, f)
  <2>10. r.positions = p /\ r.total_exposure = T - sz /\ r.cluster_exposure = f
    <3> HIDE DEF p, f, sz, T
    <3> QED
      BY DEF Book
  <2>11. Rollback(r, m) = IF sz <= 0 THEN r ELSE Book(p, T - sz + sz, Insert(f, k, GetOr(f, k, 0) + sz))
    <3> HIDE DEF r, p, f, sz, T
    <3> QED
      BY <2>9, <2>10 DEF Rollback, k
  <2>12. CASE sz <= 0
    BY <1>1, <2>6, <2>7, <2>8, <2>11, <2>12
  <2>13. CASE ~(sz <= 0)
    BY <1>1, <2>6, <2>7, <2>8, <2>11, <2>13
  <2> QED
    BY <2>12, <2>13
<1> QED
  BY <1>2, <1>3

\* An evaluation keeps every position covered, and a rejection is without effect.
LEMMA EvaluateExact ==
  ASSUME NEW b, GoodBook(b), Covered(b), NEW eq, NEW sig \in Signals, NEW latency
  PROVE  LET v == Verdict(b, eq, latency, sig)
             g == BookAfter(b, sig, latency, v)
         IN  Covered(g) /\ (v # "Approved" => g = b)
<1> DEFINE v == Verdict(b, eq, latency, sig)
           m == sig.market_id
           k == Cluster[m]
           r == Release(b, m)
           size == ApprovedSize(r, sig, latency)
           g == BookAfter(b, sig, latency, v)
<1>1. m \in Markets
  BY RiskConstants
<1>2. CASE v = "Approved"
  <2>1. g = Approve(r, m, size)
    BY <1>2 DEF BookAfter
  <2>2. /\ r.positions = b.positions
        /\ DOMAIN b.cluster_exposure \subseteq DOMAIN r.cluster_exposure
    BY DEF Release, Book, Insert
  <2>3. /\ DOMAIN g.positions = DOMAIN b.positions \cup {m}
        /\ DOMAIN g.cluster_exposure = DOMAIN r.cluster_exposure \cup {k}
    <3> HIDE DEF g, r, size
    <3> QED
      BY <2>1, <2>2 DEF Approve, Book, Insert
  <2>4. Covered(g)
    <3> HIDE DEF g, r
    <3> QED
      BY <2>2, <2>3 DEF Covered
  <2> HIDE DEF v, g
  <2> QED
    BY <1>2, <2>4 DEF v, g
<1>3. CASE v # "Approved"
  <2>1. g = b
    <3>1. CASE v \in ExposureReasons
      BY <1>1, <1>3, <3>1, RollbackExact DEF BookAfter
    <3>2. CASE v \notin ExposureReasons
      BY <1>3, <3>2 DEF BookAfter
    <3> QED
      BY <3>1, <3>2
  <2> HIDE DEF v, g
  <2> QED
    BY <1>3, <2>1 DEF v, g
<1> QED
  BY <1>2, <1>3

\* A rebuilt book is covered.
LEMMA SyncedCovered ==
  ASSUME NEW pu
  PROVE  Covered(Synced(pu))
BY DEF Covered, Synced, Book
=============================================================================
