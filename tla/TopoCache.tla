----------------------------- MODULE TopoCache ------------------------------
(***************************************************************************)
(* The LRU cache of topologies in TaskControl: taskTopoCache_, lruList_    *)
(* and lruMap_, whose values are iterators into the list.  A look-up and   *)
(* an insertion each hold cacheMutex_, but the topology is built between   *)
(* the two without it, so several requests may miss on the same root and   *)
(* all insert it.                                                          *)
(*                                                                         *)
(* A list that only grows at the front is kept as the numbers of the       *)
(* pushes that are still in it: a larger number is nearer to the front,    *)
(* and a number identifies a list node the way an iterator does.           *)
(***************************************************************************)
EXTENDS Integers, FiniteSets

CONSTANTS
    Threads,          \* requests that execute tasks
    Roots,            \* root task ids
    MAX_CACHE_SIZE,   \* 10 in the code
    MAX_PUSHES        \* bound on the insertions and hits of a behaviour

ASSUME CacheAssumption ==
    /\ IsFiniteSet(Roots)
    /\ MAX_CACHE_SIZE \in Nat \ {0}
    /\ MAX_PUSHES \in Nat

VARIABLES
    taskTopoCache,  \* the roots that have a cached topology
    lruList,        \* live push number -> root
    lruMap,         \* root -> the push number its iterator denotes
    pushes,         \* pushes so far
    lastUse,        \* root -> pushes at its latest hit or insertion (history)
    doubled,        \* a root was inserted that was there already (history)
    building        \* thread -> the set with the root it builds, or {}

vars == <<taskTopoCache, lruList, lruMap, pushes, lastUse, doubled, building>>

Without(f, x) == [y \in DOMAIN f \ {x} |-> f[y]]
With(f, x, v) == [y \in DOMAIN f \cup {x} |-> IF y = x THEN v ELSE f[y]]

\* lruList_.back()
IsBack(n) == n \in DOMAIN lruList /\ \A k \in DOMAIN lruList : n <= k

Init ==
    /\ taskTopoCache = {}
    /\ lruList = [n \in {} |-> n]
    /\ lruMap = [r \in {} |-> r]
    /\ pushes = 0
    /\ lastUse = [r \in Roots |-> 0]
    /\ doubled = FALSE
    /\ building = [t \in Threads |-> {}]

\* Fault: a hit leaves the order as it is.
MoveToFrontNever(r) == UNCHANGED <<lruList, lruMap>>

MoveToFront(r) ==
    IF r \in DOMAIN lruMap
    THEN /\ lruList' = With(Without(lruList, lruMap[r]), pushes, r)
         /\ lruMap' = With(lruMap, r, pushes)
    ELSE UNCHANGED <<lruList, lruMap>>

\* GetCachedTaskTopo finds the root.
Hit(t, r) ==
    /\ building[t] = {}
    /\ r \in taskTopoCache
    /\ pushes < MAX_PUSHES
    /\ MoveToFront(r)
    /\ pushes' = pushes + 1
    /\ lastUse' = [lastUse EXCEPT ![r] = pushes]
    /\ UNCHANGED <<taskTopoCache, doubled, building>>

\* GetCachedTaskTopo fails and BuildTaskTopo starts to visit the registry.
Miss(t, r) ==
    /\ building[t] = {}
    /\ r \notin taskTopoCache
    /\ building' = [building EXCEPT ![t] = {r}]
    /\ UNCHANGED <<taskTopoCache, lruList, lruMap, pushes, lastUse, doubled>>

\* Fault: the iterator of an evicted root stays in the map.
EvictOldCacheKeepsMap(n) ==
    [cache |-> taskTopoCache \ {lruList[n]}, list |-> Without(lruList, n), map |-> lruMap]

\* What is left after EvictOldCache has removed node n and its root.
EvictOldCache(n) ==
    [cache |-> taskTopoCache \ {lruList[n]},
     list  |-> Without(lruList, n),
     map   |-> Without(lruMap, lruList[n])]

Insert(r, left) ==
    /\ taskTopoCache' = left.cache \cup {r}
    /\ lruList' = With(left.list, pushes, r)
    /\ lruMap' = With(left.map, r, pushes)
    /\ pushes' = pushes + 1
    /\ lastUse' = [lastUse EXCEPT ![r] = pushes]

MustEvict == Cardinality(taskTopoCache) >= MAX_CACHE_SIZE

\* EvictOldCache does nothing to an empty list.
NothingToEvict == ~MustEvict \/ DOMAIN lruList = {}

Unevicted == [cache |-> taskTopoCache, list |-> lruList, map |-> lruMap]

CacheTaskTopo(t, r) ==
    /\ r \in building[t]
    /\ pushes < MAX_PUSHES
    /\ \/ /\ MustEvict
          /\ \E n \in DOMAIN lruList : IsBack(n) /\ Insert(r, EvictOldCache(n))
       \/ /\ NothingToEvict
          /\ Insert(r, Unevicted)
    /\ doubled' = (doubled \/ r \in taskTopoCache)
    /\ building' = [building EXCEPT ![t] = {}]

Next == \E t \in Threads, r \in Roots : Hit(t, r) \/ Miss(t, r) \/ CacheTaskTopo(t, r)

Spec == Init /\ [][Next]_vars

(***************************************************************************)
(* Properties.                                                             *)
(***************************************************************************)
\* The three containers and the push numbers have their types.
TypeOK ==
    /\ taskTopoCache \subseteq Roots
    /\ pushes \in Nat
    /\ DOMAIN lruList \subseteq 0 .. pushes - 1
    /\ \A n \in DOMAIN lruList : lruList[n] \in Roots
    /\ DOMAIN lruMap \subseteq Roots
    /\ lastUse \in [Roots -> Nat]
    /\ doubled \in BOOLEAN
    /\ building \in [Threads -> SUBSET Roots]

\* Every iterator that lruMap_ keeps denotes a node that is still in lruList_
\* and belongs to the same root, however many requests have inserted a root at
\* once: MoveToFront never erases through an iterator that is gone.
IteratorsValid ==
    \A r \in DOMAIN lruMap : lruMap[r] \in DOMAIN lruList /\ lruList[lruMap[r]] = r

\* A cached topology always has an iterator and the other way round, so a hit
\* always renews the place of its root and an eviction leaves no orphan.
CacheMatchesMap == DOMAIN lruMap = taskTopoCache

\* As long as no two requests have built the same root at once, the root that
\* is evicted is the one that was used least recently.
EvictsLeastRecent ==
    [][~doubled =>
          \A r \in taskTopoCache \ taskTopoCache', q \in taskTopoCache :
              lastUse[r] <= lastUse[q]]_vars
=============================================================================
