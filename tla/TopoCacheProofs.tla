-------------------------- MODULE TopoCacheProofs ---------------------------
(***************************************************************************)
(* The iterators of the topology cache are valid for any number of         *)
(* requests, roots and cache places.  TypeOK, IteratorsValid and           *)
(* CacheMatchesMap are inductive together: an eviction removes one node    *)
(* and the iterator of its root, and by IteratorsValid no other root's     *)
(* iterator denotes that node.  Moreover the push number of a root's       *)
(* iterator is its latest use, so the back of the list is the least recent *)
(* root as long as each root has one node.                                 *)
(***************************************************************************)
EXTENDS TopoCache, TLAPS

CacheInv == TypeOK /\ IteratorsValid /\ CacheMatchesMap

\* What is left before an insertion: consistent containers with old nodes only.
Consistent(left) ==
  /\ left.cache \subseteq Roots
  /\ DOMAIN left.list \subseteq 0 .. pushes - 1
  /\ \A n \in DOMAIN left.list : left.list[n] \in Roots
  /\ DOMAIN left.map = left.cache
  /\ \A r \in DOMAIN left.map :
        left.map[r] \in DOMAIN left.list /\ left.list[left.map[r]] = r

\* When CacheTaskTopo need not evict, the containers are what they were.
LEMMA UnevictedConsistent == CacheInv => Consistent(Unevicted)
  BY Zenon DEF CacheInv, TypeOK, IteratorsValid, CacheMatchesMap, Consistent, Unevicted

\* EvictOldCache drops the back of the list with its iterator and topology.
LEMMA EvictedConsistent ==
  ASSUME CacheInv, NEW n \in DOMAIN lruList
  PROVE  Consistent(EvictOldCache(n))
<1>. DEFINE left == EvictOldCache(n)
<1>1. /\ left.cache = taskTopoCache \ {lruList[n]}
      /\ left.list = Without(lruList, n)
      /\ left.map = Without(lruMap, lruList[n])
  BY Zenon DEF EvictOldCache
<1>2. /\ DOMAIN left.list = DOMAIN lruList \ {n}
      /\ \A k \in DOMAIN lruList \ {n} : left.list[k] = lruList[k]
  BY Zenon, <1>1 DEF Without
<1>3. /\ DOMAIN left.map = DOMAIN lruMap \ {lruList[n]}
      /\ \A r \in DOMAIN lruMap \ {lruList[n]} : left.map[r] = lruMap[r]
  BY Zenon, <1>1 DEF Without
<1>. HIDE DEF left
<1>4. /\ left.cache \subseteq Roots
      /\ DOMAIN left.map = left.cache
  BY Zenon, <1>1, <1>3 DEF CacheInv, TypeOK, CacheMatchesMap
<1>5. /\ DOMAIN left.list \subseteq 0 .. pushes - 1
      /\ \A k \in DOMAIN left.list : left.list[k] \in Roots
  BY Zenon, <1>2 DEF CacheInv, TypeOK
<1>6. ASSUME NEW r \in DOMAIN left.map
      PROVE  left.map[r] \in DOMAIN left.list /\ left.list[left.map[r]] = r
  <2>1. r \in DOMAIN lruMap /\ r # lruList[n] /\ left.map[r] = lruMap[r]
    BY Zenon, <1>3
  <2>2. lruMap[r] \in DOMAIN lruList /\ lruList[lruMap[r]] = r
    BY Zenon, <2>1 DEF CacheInv, IteratorsValid
  <2>. QED
    BY Zenon, <1>2, <2>1, <2>2
<1>. QED
  BY Zenon, <1>4, <1>5, <1>6 DEF Consistent, left

\* The insertion at the end of CacheTaskTopo keeps the invariant.
LEMMA InsertKeeps ==
  ASSUME CacheInv, NEW r \in Roots, NEW left, Consistent(left), Insert(r, left),
         building' \in [Threads -> SUBSET Roots], doubled' \in BOOLEAN
  PROVE  CacheInv'
<1>1. /\ DOMAIN lruList' = DOMAIN left.list \cup {pushes}
      /\ lruList'[pushes] = r
      /\ \A n \in DOMAIN left.list : n # pushes => lruList'[n] = left.list[n]
  BY Zenon DEF Insert, With
<1>2. /\ DOMAIN lruMap' = DOMAIN left.map \cup {r}
      /\ lruMap'[r] = pushes
      /\ \A q \in DOMAIN left.map : q # r => lruMap'[q] = left.map[q]
  BY Zenon DEF Insert, With
<1>3. pushes \in Nat /\ pushes' = pushes + 1 /\ pushes \notin DOMAIN left.list
  BY DEF CacheInv, TypeOK, Insert, Consistent
<1>4. lastUse' \in [Roots -> Nat]
  BY Zenon, <1>3 DEF CacheInv, TypeOK, Insert
<1>5. DOMAIN lruList' \subseteq 0 .. pushes' - 1
  <2>1. DOMAIN left.list \subseteq 0 .. pushes - 1
    BY Zenon DEF Consistent
  <2>. QED
    BY <1>1, <1>3, <2>1
<1>6. \A n \in DOMAIN lruList' : lruList'[n] \in Roots
  BY Zenon, <1>1, <1>3 DEF Consistent
<1>7. /\ taskTopoCache' = left.cache \cup {r}
      /\ left.cache \subseteq Roots
      /\ DOMAIN left.map = left.cache
  BY Zenon DEF Insert, Consistent
<1>8. TypeOK'
  BY <1>2, <1>3, <1>4, <1>5, <1>6, <1>7 DEF TypeOK
<1>9. CacheMatchesMap'
  BY Zenon, <1>2, <1>7 DEF CacheMatchesMap
<1>10. IteratorsValid'
  <2>. SUFFICES ASSUME NEW q \in DOMAIN lruMap'
                PROVE  lruMap'[q] \in DOMAIN lruList' /\ lruList'[lruMap'[q]] = q
    BY Zenon DEF IteratorsValid
  <2>1. CASE q = r
    BY Zenon, <1>1, <1>2, <2>1
  <2>2. CASE q # r
    BY <1>1, <1>2, <1>3, <2>2 DEF Consistent
  <2>. QED
    BY Zenon, <2>1, <2>2
<1>. QED
  BY Zenon, <1>8, <1>9, <1>10 DEF CacheInv

\* A hit of GetCachedTaskTopo, which calls MoveToFront, keeps the invariant.
LEMMA HitKeeps ==
  ASSUME CacheInv, NEW t \in Threads, NEW r \in Roots, Hit(t, r)
  PROVE  CacheInv'
<1>1. r \in DOMAIN lruMap /\ pushes \in Nat /\ pushes' = pushes + 1
  BY Zenon DEF CacheInv, CacheMatchesMap, TypeOK, Hit
<1>2. /\ lruList' = With(Without(lruList, lruMap[r]), pushes, r)
      /\ lruMap' = With(lruMap, r, pushes)
      /\ UNCHANGED <<taskTopoCache, doubled, building>>
  BY Zenon, <1>1 DEF Hit, MoveToFront
<1>3. /\ DOMAIN Without(lruList, lruMap[r]) = DOMAIN lruList \ {lruMap[r]}
      /\ \A n \in DOMAIN lruList \ {lruMap[r]} : Without(lruList, lruMap[r])[n] = lruList[n]
  BY Zenon DEF Without
<1>4. /\ DOMAIN lruList' = (DOMAIN lruList \ {lruMap[r]}) \cup {pushes}
      /\ lruList'[pushes] = r
      /\ \A n \in DOMAIN lruList \ {lruMap[r]} : n # pushes => lruList'[n] = lruList[n]
  BY Zenon, <1>2, <1>3 DEF With
<1>5. /\ DOMAIN lruMap' = DOMAIN lruMap
      /\ lruMap'[r] = pushes
      /\ \A q \in DOMAIN lruMap : q # r => lruMap'[q] = lruMap[q]
  BY Zenon, <1>1, <1>2 DEF With
<1>6. DOMAIN lruList \subseteq 0 .. pushes - 1
  BY Zenon DEF CacheInv, TypeOK
<1>7. DOMAIN lruList' \subseteq 0 .. pushes' - 1
  BY <1>1, <1>4, <1>6
<1>8. \A n \in DOMAIN lruList' : lruList'[n] \in Roots
  BY Zenon, <1>4 DEF CacheInv, TypeOK
<1>9. lastUse' \in [Roots -> Nat]
  BY Zenon, <1>1 DEF CacheInv, TypeOK, Hit
<1>10. TypeOK'
  BY <1>1, <1>2, <1>5, <1>7, <1>8, <1>9 DEF CacheInv, TypeOK
<1>11. CacheMatchesMap'
  BY Zenon, <1>2, <1>5 DEF CacheInv, CacheMatchesMap
<1>12. IteratorsValid'
  <2>. SUFFICES ASSUME NEW q \in DOMAIN lruMap'
                PROVE  lruMap'[q] \in DOMAIN lruList' /\ lruList'[lruMap'[q]] = q
    BY Zenon DEF IteratorsValid
  <2>1. CASE q = r
    BY Zenon, <1>4, <1>5, <2>1
  <2>2. CASE q # r
    <3>1. lruMap'[q] = lruMap[q] /\ lruMap[q] \in DOMAIN lruList /\ lruList[lruMap[q]] = q
      BY Zenon, <1>5, <2>2 DEF CacheInv, IteratorsValid
    <3>2. lruList[lruMap[r]] = r
      BY Zenon, <1>1 DEF CacheInv, IteratorsValid
    <3>3. lruMap[q] # lruMap[r] /\ lruMap[q] # pushes
      BY <1>1, <1>6, <2>2, <3>1, <3>2
    <3>. QED
      BY Zenon, <1>4, <3>1, <3>3
  <2>. QED
    BY Zenon, <2>1, <2>2
<1>. QED
  BY Zenon, <1>10, <1>11, <1>12 DEF CacheInv

\* The empty cache satisfies the invariant.
LEMMA CacheInit == Init => CacheInv
<1>. SUFFICES ASSUME Init PROVE CacheInv
  BY Zenon
<1>1. doubled \in BOOLEAN
  BY Zenon DEF Init
<1>2. TypeOK
  BY Zenon, <1>1 DEF Init, TypeOK
<1>3. IteratorsValid /\ CacheMatchesMap
  BY Zenon DEF Init, IteratorsValid, CacheMatchesMap
<1>. QED
  BY Zenon, <1>2, <1>3 DEF CacheInv

\* Every look-up and every insertion keeps the invariant.
LEMMA CacheStep == CacheInv /\ [Next]_vars => CacheInv'
<1>. SUFFICES ASSUME CacheInv, [Next]_vars PROVE CacheInv'
  BY Zenon
<1>1. ASSUME NEW t \in Threads, NEW r \in Roots, Hit(t, r) PROVE CacheInv'
  BY Zenon, <1>1, HitKeeps
<1>2. ASSUME NEW t \in Threads, NEW r \in Roots, Miss(t, r) PROVE CacheInv'
  BY Zenon, <1>2 DEF CacheInv, TypeOK, IteratorsValid, CacheMatchesMap, Miss
<1>3. ASSUME NEW t \in Threads, NEW r \in Roots, CacheTaskTopo(t, r) PROVE CacheInv'
  <2>1. building' \in [Threads -> SUBSET Roots] /\ doubled' \in BOOLEAN
    BY Zenon, <1>3 DEF CacheInv, TypeOK, CacheTaskTopo
  <2>2. CASE Insert(r, Unevicted)
    BY Zenon, <2>1, <2>2, UnevictedConsistent, InsertKeeps
  <2>3. CASE \E n \in DOMAIN lruList : Insert(r, EvictOldCache(n))
    <3>1. PICK n \in DOMAIN lruList : Insert(r, EvictOldCache(n))
      BY Zenon, <2>3
    <3>2. Consistent(EvictOldCache(n))
      BY Zenon, EvictedConsistent
    <3>. QED
      BY Zenon, <2>1, <3>1, <3>2, InsertKeeps
  <2>. QED
    BY Zenon, <1>3, <2>2, <2>3 DEF CacheTaskTopo
<1>4. CASE UNCHANGED vars
  BY Zenon, <1>4 DEF CacheInv, TypeOK, IteratorsValid, CacheMatchesMap, vars
<1>. QED
  BY Zenon, <1>1, <1>2, <1>3, <1>4 DEF Next

\* The inductive invariant: each iterator in lruMap_ denotes a live node of the
\* list with its own root, and the topologies are cached under the same roots.
THEOREM CacheInvariant == Spec => []CacheInv
  BY CacheInit, CacheStep, PTL DEF Spec

\* IteratorsValid for every number of threads and roots: lruList_.erase in
\* MoveToFront is only ever called with an iterator of a live node.
THEOREM IteratorsTheorem == Spec => []IteratorsValid
<1>1. CacheInv => IteratorsValid
  BY Zenon DEF CacheInv
<1>. QED
  BY <1>1, CacheInvariant, PTL

\* CacheMatchesMap for every number of threads and roots: lruMap_ and
\* taskTopoCache_ always have the same keys.
THEOREM CacheMatchesTheorem == Spec => []CacheMatchesMap
<1>1. CacheInv => CacheMatchesMap
  BY Zenon DEF CacheInv
<1>. QED
  BY <1>1, CacheInvariant, PTL

(***************************************************************************)
(* The order of evictions.                                                 *)
(***************************************************************************)
\* The iterator of a root is the push of its latest use.
UseIsPush(map) == \A q \in DOMAIN map : lastUse[q] = map[q]

\* A root has one node, which its iterator denotes.
OneNode(list, map) == \A n \in DOMAIN list : list[n] \in DOMAIN map /\ map[list[n]] = n

RecencyInv == UseIsPush(lruMap) /\ (~doubled => OneNode(lruList, lruMap))

\* EvictOldCache takes the node of one root and leaves the others as they are.
LEMMA EvictedRecency ==
  ASSUME NEW n \in DOMAIN lruList, UseIsPush(lruMap)
  PROVE  /\ UseIsPush(EvictOldCache(n).map)
         /\ OneNode(lruList, lruMap) => OneNode(EvictOldCache(n).list, EvictOldCache(n).map)
  BY DEF EvictOldCache, Without, UseIsPush, OneNode

\* The insertion at the end of CacheTaskTopo: the new node is the latest use.
LEMMA InsertRecency ==
  ASSUME CacheInv, NEW r \in Roots, NEW left, Consistent(left), Insert(r, left),
         UseIsPush(left.map)
  PROVE  /\ UseIsPush(lruMap)'
         /\ r \notin left.cache /\ OneNode(left.list, left.map) => OneNode(lruList, lruMap)'
<1>1. /\ DOMAIN lruList' = DOMAIN left.list \cup {pushes}
      /\ lruList'[pushes] = r
      /\ \A n \in DOMAIN left.list : n # pushes => lruList'[n] = left.list[n]
  BY Zenon DEF Insert, With
<1>2. /\ DOMAIN lruMap' = DOMAIN left.map \cup {r}
      /\ lruMap'[r] = pushes
      /\ \A q \in DOMAIN left.map : q # r => lruMap'[q] = left.map[q]
  BY Zenon DEF Insert, With
<1>3. pushes \notin DOMAIN left.list
  BY DEF CacheInv, TypeOK, Consistent
<1>4. /\ DOMAIN left.map \subseteq Roots /\ DOMAIN left.map = left.cache
      /\ lastUse'[r] = pushes /\ \A q \in Roots : q # r => lastUse'[q] = lastUse[q]
  BY Zenon DEF CacheInv, TypeOK, Insert, Consistent
<1>5. UseIsPush(lruMap)'
  BY Zenon, <1>2, <1>4 DEF UseIsPush
<1>6. ASSUME r \notin left.cache, OneNode(left.list, left.map)
      PROVE  OneNode(lruList, lruMap)'
  BY <1>1, <1>2, <1>3, <1>4, <1>6 DEF OneNode
<1>. QED
  BY Zenon, <1>5, <1>6

\* A hit makes the node of its root the newest one.
LEMMA HitRecency ==
  ASSUME CacheInv, RecencyInv, NEW t \in Threads, NEW r \in Roots, Hit(t, r)
  PROVE  RecencyInv'
<1>1. /\ r \in DOMAIN lruMap /\ doubled' = doubled
      /\ lruList' = With(Without(lruList, lruMap[r]), pushes, r)
      /\ lruMap' = With(lruMap, r, pushes)
  BY Zenon DEF CacheInv, CacheMatchesMap, Hit, MoveToFront
<1>2. /\ lastUse'[r] = pushes /\ \A q \in Roots : q # r => lastUse'[q] = lastUse[q]
      /\ DOMAIN lruMap \subseteq Roots
  BY Zenon DEF CacheInv, TypeOK, Hit
<1>3. UseIsPush(lruMap)'
  BY Zenon, <1>1, <1>2 DEF RecencyInv, UseIsPush, With
<1>4. OneNode(lruList, lruMap) => OneNode(lruList, lruMap)'
  <2>1. pushes \notin DOMAIN lruList
    BY DEF CacheInv, TypeOK
  <2>. QED  BY <1>1, <2>1 DEF OneNode, With, Without
<1>. QED
  BY Zenon, <1>1, <1>3, <1>4 DEF RecencyInv

\* Every look-up and every insertion keeps the order of uses.
LEMMA RecencyStep == CacheInv /\ RecencyInv /\ [Next]_vars => RecencyInv'
<1>. SUFFICES ASSUME CacheInv, RecencyInv, [Next]_vars PROVE RecencyInv'
  BY Zenon
<1>1. ASSUME NEW t \in Threads, NEW r \in Roots, Miss(t, r) PROVE RecencyInv'
  BY Zenon, <1>1 DEF Miss, RecencyInv, UseIsPush, OneNode
<1>2. ASSUME NEW t \in Threads, NEW r \in Roots, CacheTaskTopo(t, r) PROVE RecencyInv'
  <2>1. ~doubled' => ~doubled /\ r \notin taskTopoCache
    BY Zenon, <1>2 DEF CacheTaskTopo
  <2>2. CASE Insert(r, Unevicted)
    <3>1. Unevicted.cache = taskTopoCache /\ Unevicted.list = lruList /\ Unevicted.map = lruMap
      BY Zenon DEF Unevicted
    <3>2. Consistent(Unevicted)
      BY Zenon, UnevictedConsistent
    <3>. QED  BY <2>1, <2>2, <3>1, <3>2, InsertRecency DEF RecencyInv
  <2>3. ASSUME NEW n \in DOMAIN lruList, Insert(r, EvictOldCache(n)) PROVE RecencyInv'
    <3>1. EvictOldCache(n).cache \subseteq taskTopoCache
      BY Zenon DEF EvictOldCache
    <3>2. Consistent(EvictOldCache(n))
      BY Zenon, EvictedConsistent
    <3>. QED  BY <2>1, <2>3, <3>1, <3>2, EvictedRecency, InsertRecency DEF RecencyInv
  <2>. QED
    BY Zenon, <1>2, <2>2, <2>3 DEF CacheTaskTopo
<1>3. CASE UNCHANGED vars
  BY Zenon, <1>3 DEF RecencyInv, UseIsPush, OneNode, vars
<1>. QED
  BY Zenon, <1>1, <1>2, <1>3, HitRecency DEF Next

\* A step that drops a topology is an insertion that evicts the back of the list.
LEMMA EvictionStep ==
  ASSUME CacheInv, RecencyInv, Next, ~doubled,
         NEW r \in taskTopoCache \ taskTopoCache', NEW q \in taskTopoCache
  PROVE  lastUse[r] <= lastUse[q]
<1>1. PICK n \in DOMAIN lruList : IsBack(n) /\ r = lruList[n]
  BY DEF Next, Hit, Miss, CacheTaskTopo, Insert, Unevicted, EvictOldCache
<1>2. lastUse[r] = n
  BY Zenon, <1>1 DEF RecencyInv, UseIsPush, OneNode
<1>3. lruMap[q] \in DOMAIN lruList /\ lastUse[q] = lruMap[q]
  BY Zenon DEF CacheInv, CacheMatchesMap, IteratorsValid, RecencyInv, UseIsPush
<1>. QED
  BY Zenon, <1>1, <1>2, <1>3 DEF IsBack

\* EvictsLeastRecent for every number of threads, roots and cache places: as long
\* as no root was inserted twice, EvictOldCache drops the least recently used one.
THEOREM EvictionTheorem == Spec => EvictsLeastRecent
<1>1. Init => RecencyInv
  BY Zenon DEF Init, RecencyInv, UseIsPush, OneNode
<1>2. ASSUME CacheInv, RecencyInv, [Next]_vars
      PROVE  [~doubled => \A r \in taskTopoCache \ taskTopoCache', q \in taskTopoCache :
                              lastUse[r] <= lastUse[q]]_vars
  BY Zenon, <1>2, EvictionStep
<1>3. Spec => []RecencyInv
  BY <1>1, RecencyStep, CacheInvariant, PTL DEF Spec
<1>. QED
  BY <1>2, <1>3, CacheInvariant, PTL DEF Spec, EvictsLeastRecent
=============================================================================
