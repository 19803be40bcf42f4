------------------------- MODULE ZipRequestsProofs --------------------------
(***************************************************************************)
(* NeverOlder, OldestFirst and CleanedExactly for any number of requests,  *)
(* archives and limits.  NeverOlder is not inductive: what Main will read  *)
(* must already be no older than the request's own archive while the       *)
(* request waits between the parser and the read, and the parser of        *)
(* another request must only be able to replace it by something newer.     *)
(* CleanedExactly needs an account of a clean-up under way: what it has    *)
(* still to visit and what it counts for it, with and without others that  *)
(* change the folder.                                                      *)
(***************************************************************************)
EXTENDS ZipRequests, FiniteSetTheorems, WellFoundedInduction, TLAPS

\* The places of a request.
Steps == {"idle", "list", "delete", "add"} \cup Serving

PathInv ==
  /\ clock \in Nat
  /\ path \in Nat /\ path <= clock
  /\ isZip \in [Threads -> BOOLEAN]
  /\ optPath \in [Threads -> Nat]
  /\ title \in [Threads -> Nat]
  /\ pc \in [Threads -> Steps]
  /\ \A t \in Threads : optPath[t] <= clock
  /\ \A t \in Threads : pc[t] = "title" /\ isZip[t] => optPath[t] <= path
  /\ \A t \in Threads : pc[t] \in {"list", "delete", "add", "parse"} => title[t] = 0

ZipInv == PathInv /\ NeverOlder

\* The invariant holds before the first request.
LEMMA ZipInit == Init => ZipInv
  BY SMTT(30) DEF Init, ZipInv, PathInv, NeverOlder, Steps

\* A clean-up stays on its side of the dump.
LEMMA CleanerMoves ==
  ASSUME NEW t \in Threads, CleanOldFiles(t) \/ DeleteOldestFile(t) \/ DeleteOldestDone(t)
  PROVE  \/ /\ pc[t] \in {"list", "delete"}
            /\ \E to \in {"delete", "add"} : pc' = [pc EXCEPT ![t] = to]
         \/ /\ pc[t] \in {"relist", "redelete"}
            /\ \E to \in {"redelete", "leave"} : pc' = [pc EXCEPT ![t] = to]
<1>1. PICK s \in Sites : \E from \in {s.list, s.delete}, to \in {s.delete, s.next} : Goto(t, from, to)
  BY Zenon DEF CleanOldFiles, DeleteOldestFile, DeleteOldestDone
<1>2. \/ s.list = "list" /\ s.delete = "delete" /\ s.next = "add"
      \/ s.list = "relist" /\ s.delete = "redelete" /\ s.next = "leave"
  BY DEF Sites
<1>. QED
  BY Zenon, <1>1, <1>2 DEF Goto

\* Every step of a request, of a client and of the cleaner keeps it.
LEMMA ZipStep == ZipInv /\ [Next]_vars => ZipInv'
<1>. SUFFICES ASSUME ZipInv, [Next]_vars PROVE ZipInv'
  BY Zenon
<1>. USE DEF ZipInv, PathInv, NeverOlder
<1>1. CASE Tick
  BY <1>1 DEF Tick, request
<1>2. ASSUME NEW t \in Threads, Enter(t) PROVE ZipInv'
  BY <1>2 DEF Enter, Goto, Steps, Serving
<1>3. ASSUME NEW t \in Threads, CleanOldFiles(t) \/ DeleteOldestFile(t) \/ DeleteOldestDone(t)
      PROVE  ZipInv'
  <2>1. UNCHANGED <<clock, path, isZip, optPath, title>>
    BY Zenon, <1>3 DEF CleanOldFiles, DeleteOldestFile, DeleteOldestDone, request
  <2>2. PICK to \in {"delete", "add", "redelete", "leave"} :
           /\ pc' = [pc EXCEPT ![t] = to]
           /\ to \in {"delete", "add"} => pc[t] \in {"list", "delete"}
    BY <1>3, CleanerMoves
  <2>3. to \in Steps /\ to # "title" /\ (to \in {"list", "delete", "add", "parse"} => to \in {"delete", "add"})
    BY DEF Steps, Serving
  <2>. QED
    BY Zenon, <2>1, <2>2, <2>3
<1>4. ASSUME NEW t \in Threads, AddRequestRawParam(t) PROVE ZipInv'
  BY Zenon, <1>4 DEF AddRequestRawParam, Goto, request, Steps, Serving
<1>5. ASSUME NEW t \in Threads, Leave(t) PROVE ZipInv'
  BY Zenon, <1>5 DEF Leave, Goto, request, Steps, Serving
<1>6. ASSUME NEW t \in Threads, InitHandle(t) PROVE ZipInv'
  <2>1. /\ pc[t] = "parse"
        /\ \E to \in {"title", "relist"} : pc' = [pc EXCEPT ![t] = to]
        /\ path' = IF isZip[t] THEN clock ELSE path
        /\ optPath' = [optPath EXCEPT ![t] = IF isZip[t] THEN clock ELSE 0]
        /\ UNCHANGED <<clock, isZip, title>>
    BY Zenon, <1>6 DEF InitHandle, PathMember, Goto
  <2>2. path' \in Nat /\ path <= path' /\ path' <= clock
    BY <2>1
  <2>3. /\ optPath' \in [Threads -> Nat]
        /\ optPath'[t] <= path' \/ ~isZip[t]
        /\ \A u \in Threads \ {t} : optPath'[u] = optPath[u]
        /\ optPath'[t] <= clock
    BY <2>1
  <2>4. NeverOlder'
    BY Zenon, <2>1, <2>3
  <2>5. \A u \in Threads : (pc[u] = "title" /\ isZip[u] => optPath[u] <= path)'
    BY ZenonT(60), <2>1, <2>2, <2>3
  <2>6. pc' \in [Threads -> Steps]
    BY Zenon, <2>1 DEF Steps, Serving
  <2>. QED
    BY Zenon, <2>1, <2>2, <2>3, <2>4, <2>5, <2>6
<1>7. ASSUME NEW t \in Threads, SetTitle(t) PROVE ZipInv'
  BY Zenon, <1>7 DEF SetTitle, Goto, Steps, Serving
<1>8. ASSUME NEW t \in Threads, ZipOpen(t) PROVE ZipInv'
  BY Zenon, <1>8 DEF ZipOpen, Goto, Steps, Serving
<1>9. ASSUME NEW t \in Threads, ZipClose(t) PROVE ZipInv'
  BY Zenon, <1>9 DEF ZipClose, Goto, Steps, Serving
<1>10. ASSUME NEW t \in Threads, Report(t) PROVE ZipInv'
  BY Zenon, <1>10 DEF Report, Goto, request, Steps, Serving
<1>11. CASE UNCHANGED vars
  BY Zenon, <1>11 DEF vars, request
<1>. QED
  BY Zenon, <1>1, <1>2, <1>3, <1>4, <1>5, <1>6, <1>7, <1>8, <1>9, <1>10, <1>11 DEF Next, Main

\* NeverOlder for every number of requests and every clock: the path that Main
\* hands to a client is never older than the archive the client asked for.
THEOREM NeverOlderTheorem == Spec => []NeverOlder
<1>1. ZipInv => NeverOlder
  BY Zenon DEF ZipInv
<1>. QED
  BY <1>1, ZipInit, ZipStep, PTL DEF Spec

\* A set of natural numbers that is not empty has a least element.
LEMMA MinIsLeast ==
  ASSUME NEW S, S \subseteq Nat, S # {}
  PROVE  Min(S) \in S /\ \A y \in S : Min(S) <= y
<1>1. PICK x \in S : \A y \in S : ~(<<y, x>> \in OpToRel(<, Nat))
  BY Zenon, NatLessThanWellFounded, WFMin
<1>2. \A y \in S : x <= y
  <2>. SUFFICES ASSUME NEW y \in S, ~(x <= y) PROVE FALSE
    BY Zenon
  <2>1. x \in Nat /\ y \in Nat
    BY Zenon
  <2>2. y < x
    BY <2>1
  <2>3. <<y, x>> \in OpToRel(<, Nat)
    BY Zenon, <2>1, <2>2 DEF OpToRel
  <2>. QED
    BY Zenon, <1>1, <2>3
<1>. QED
  BY Zenon, <1>2 DEF Min

FolderInv ==
  /\ archives \in [Names -> Nat]
  /\ files \in [Threads -> SUBSET Names]

\* The invariant of the archive folder holds before the first request.
LEMMA FolderInit == Init => FolderInv
  BY DEF Init, FolderInv

\* Every step keeps the invariant of the archive folder.
LEMMA FolderStep == FolderInv /\ [Next]_vars => FolderInv'
<1>. SUFFICES ASSUME FolderInv, [Next]_vars PROVE FolderInv'
  BY Zenon
<1>. USE DEF FolderInv
<1>1. CASE Tick
  BY Zenon, <1>1 DEF Tick, cleaner
<1>2. ASSUME NEW t \in Threads, Enter(t) PROVE FolderInv'
  BY Zenon, <1>2 DEF Enter, cleaner
<1>3. ASSUME NEW t \in Threads, CleanOldFiles(t) PROVE FolderInv'
  BY Zenon, <1>3 DEF CleanOldFiles, Present
<1>4. ASSUME NEW t \in Threads, DeleteOldestFile(t) PROVE FolderInv'
  BY Zenon, <1>4 DEF DeleteOldestFile
<1>5. ASSUME NEW t \in Threads, DeleteOldestDone(t) PROVE FolderInv'
  BY Zenon, <1>5 DEF DeleteOldestDone, cleaner
<1>6. ASSUME NEW t \in Threads,
             InitHandle(t) \/ SetTitle(t) \/ Report(t) \/ AddRequestRawParam(t) \/ Leave(t)
      PROVE  FolderInv'
  BY Zenon, <1>6 DEF InitHandle, SetTitle, Report, AddRequestRawParam, Leave, cleaner
<1>7. ASSUME NEW t \in Threads, ZipOpen(t) PROVE FolderInv'
  BY Zenon, <1>7 DEF ZipOpen, cleaner
<1>8. ASSUME NEW t \in Threads, ZipClose(t) PROVE FolderInv'
  <2>1. PICK s \in 1 .. MaxSize :
           archives' = [archives EXCEPT ![optPath[t]] = IF @ = 0 THEN 0 ELSE s]
    BY Zenon, <1>8 DEF ZipClose
  <2>2. s \in Nat
    BY ZipAssumption
  <2>3. archives' \in [Names -> Nat]
    BY Zenon, <2>1, <2>2
  <2>. QED
    BY Zenon, <1>8, <2>3 DEF ZipClose, cleaner
<1>9. CASE UNCHANGED vars
  BY Zenon, <1>9 DEF vars, cleaner
<1>. QED
  BY Zenon, <1>1, <1>2, <1>3, <1>4, <1>5, <1>6, <1>7, <1>8, <1>9 DEF Next, Main

RemovedInOrder ==
  \A n \in Names : archives[n] # 0 /\ archives'[n] = 0 =>
     \E t \in Threads :
        /\ pc[t] \in {"delete", "redelete"}
        /\ n \in files[t]
        /\ \A o \in 1 .. n - 1 : o \notin files[t]

\* A step that removes an archive is one of ZipFileCleaner, oldest first.
LEMMA OnlyCleanerRemoves == FolderInv /\ Next => RemovedInOrder
<1>. SUFFICES ASSUME FolderInv, Next, NEW n \in Names, archives[n] # 0, archives'[n] = 0
              PROVE  \E t \in Threads :
                        /\ pc[t] \in {"delete", "redelete"}
                        /\ n \in files[t]
                        /\ \A o \in 1 .. n - 1 : o \notin files[t]
  BY Zenon DEF RemovedInOrder
<1>1. \A t \in Threads : ~ZipOpen(t)
  BY DEF ZipOpen, FolderInv
<1>2. \A t \in Threads : ~ZipClose(t)
  BY ZipAssumption DEF ZipClose, FolderInv
<1>3. archives' # archives
  BY Zenon
<1>4. PICK t \in Threads : DeleteOldestFile(t)
  BY Zenon, <1>1, <1>2, <1>3
     DEF Next, Main, Tick, Enter, AddRequestRawParam, Leave, CleanOldFiles, DeleteOldestDone,
         InitHandle, SetTitle, Report
<1>5. /\ pc[t] \in {"delete", "redelete"}
      /\ files[t] # {}
      /\ archives' = [archives EXCEPT ![Min(files[t])] = 0]
  <2>1. \A s \in Sites : s.delete \in {"delete", "redelete"}
    BY DEF Sites
  <2>. QED
    BY Zenon, <1>4, <2>1 DEF DeleteOldestFile, OldestFile, Goto
<1>6. files[t] \subseteq Names /\ Names \subseteq Nat
  BY ZipAssumption DEF FolderInv, Names
<1>7. Min(files[t]) \in files[t] /\ \A y \in files[t] : Min(files[t]) <= y
  BY Zenon, <1>5, <1>6, MinIsLeast
<1>8. n = Min(files[t])
  BY Zenon, <1>5 DEF FolderInv
<1>9. \A o \in 1 .. n - 1 : o \notin files[t]
  BY <1>6, <1>7, <1>8
<1>. QED
  BY Zenon, <1>5, <1>7, <1>8, <1>9

\* OldestFirst for every number of requests, archives and limits: clean-ups that
\* run side by side never remove an archive while an older one of their own
\* listing is still to be visited.
THEOREM OldestFirstTheorem == Spec => OldestFirst
<1>1. FolderInv /\ [Next]_vars => [RemovedInOrder]_vars
  BY Zenon, OnlyCleanerRemoves
<1>. QED
  BY <1>1, FolderInit, FolderStep, PTL DEF Spec, OldestFirst, RemovedInOrder

(***************************************************************************)
(* The sum of the sizes.                                                   *)
(***************************************************************************)
\* Induction over the clock.
LEMMA ClockInduction ==
  ASSUME NEW S, 0 \in S, \A n \in 0 .. MaxClock - 1 : n \in S => n + 1 \in S
  PROVE  0 .. MaxClock \subseteq S
<1>. DEFINE rest == (0 .. MaxClock) \ S
<1>. SUFFICES ASSUME rest # {} PROVE FALSE
  BY Zenon
<1>1. rest \subseteq Nat
  BY ZipAssumption
<1>2. Min(rest) \in rest /\ \A y \in rest : Min(rest) <= y
  BY Zenon, <1>1, MinIsLeast
<1>. DEFINE m == Min(rest)
<1>3. m \in 0 .. MaxClock /\ m \notin S /\ \A y \in 0 .. MaxClock : y \notin S => m <= y
  BY Zenon, <1>2
<1>. HIDE DEF m
<1>4. m # 0
  BY Zenon, <1>3
<1>5. m - 1 \in 0 .. MaxClock - 1 /\ m - 1 \in 0 .. MaxClock /\ ~(m <= m - 1) /\ (m - 1) + 1 = m
  BY <1>3, <1>4, ZipAssumption
<1>6. m - 1 \in S
  BY Zenon, <1>3, <1>5
<1>. QED
  BY Zenon, <1>3, <1>5, <1>6

\* What the definition of Sums asks of a function, up to m.
IsSums(g, v, m) == g = [n \in 0 .. m |-> IF n = 0 THEN 0 ELSE g[n - 1] + v[n]]

\* There is such a function, so Sums is one.
LEMMA SumsAre ==
  ASSUME NEW v \in [Names -> Nat]
  PROVE  /\ Sums(v)[0] = 0
         /\ \A n \in 1 .. MaxClock : Sums(v)[n] = Sums(v)[n - 1] + v[n]
<1>. DEFINE S == {m \in Nat : \E g : IsSums(g, v, m)}
<1>1. 0 \in S
  <2>. DEFINE g == [n \in 0 .. 0 |-> 0]
  <2>1. IsSums(g, v, 0)
    BY DEF IsSums
  <2>. QED
    BY <2>1
<1>2. ASSUME NEW m \in 0 .. MaxClock - 1, m \in S PROVE m + 1 \in S
  <2>1. PICK g : IsSums(g, v, m)
    BY Zenon, <1>2
  <2>. DEFINE h == [n \in 0 .. m + 1 |-> IF n = m + 1 THEN g[m] + v[m + 1] ELSE g[n]]
  <2>2. m \in Nat /\ m + 1 \in Nat
    BY <1>2, ZipAssumption
  <2>3. \A n \in 0 .. m : g[n] = IF n = 0 THEN 0 ELSE g[n - 1] + v[n]
    BY Zenon, <2>1 DEF IsSums
  <2>4. \A n \in 0 .. m + 1 : h[n] = IF n = 0 THEN 0 ELSE h[n - 1] + v[n]
    BY <2>2, <2>3
  <2>5. IsSums(h, v, m + 1)
    <3>1. h = [n \in 0 .. m + 1 |-> h[n]]
      BY Zenon
    <3>. HIDE DEF h
    <3>. QED
      BY Zenon, <2>4, <3>1 DEF IsSums
  <2>. QED
    BY Zenon, <2>2, <2>5
<1>3. MaxClock \in S
  <2>1. 0 .. MaxClock \subseteq S
    <3>. HIDE DEF S
    <3>. QED
      BY Zenon, <1>1, <1>2, ClockInduction
  <2>2. MaxClock \in 0 .. MaxClock
    BY ZipAssumption
  <2>. QED
    BY Zenon, <2>1, <2>2
<1>4. IsSums(Sums(v), v, MaxClock)
  BY Zenon, <1>3 DEF Sums, IsSums
<1>5. 0 \in 0 .. MaxClock /\ \A n \in 1 .. MaxClock : n \in 0 .. MaxClock /\ n # 0
  BY ZipAssumption
<1>. QED
  BY Zenon, <1>4, <1>5 DEF IsSums

\* A sum of sizes is a number.
LEMMA SumsNat ==
  ASSUME NEW v \in [Names -> Nat]
  PROVE  \A n \in 0 .. MaxClock : Sums(v)[n] \in Nat
<1>. DEFINE S == {n \in Nat : Sums(v)[n] \in Nat}
<1>1. 0 \in S
  BY SumsAre
<1>2. ASSUME NEW n \in 0 .. MaxClock - 1, n \in S PROVE n + 1 \in S
  <2>1. n + 1 \in 1 .. MaxClock /\ (n + 1) - 1 = n /\ n + 1 \in Nat
    BY ZipAssumption
  <2>2. Sums(v)[n + 1] = Sums(v)[n] + v[n + 1] /\ v[n + 1] \in Nat
    BY Zenon, <2>1, SumsAre DEF Names
  <2>. QED
    BY <1>2, <2>1, <2>2
<1>3. 0 .. MaxClock \subseteq S
  <2>. HIDE DEF S
  <2>. QED
    BY Zenon, <1>1, <1>2, ClockInduction
<1>. QED
  BY Zenon, <1>3

\* Without one archive the sum is less by its size.
LEMMA SumsWithout ==
  ASSUME NEW v \in [Names -> Nat], NEW f \in Names, NEW w, w = [v EXCEPT ![f] = 0]
  PROVE  Sums(w)[MaxClock] = Sums(v)[MaxClock] - v[f]
<1>. DEFINE S == {n \in Nat : Sums(w)[n] = IF n < f THEN Sums(v)[n] ELSE Sums(v)[n] - v[f]}
<1>0. /\ w \in [Names -> Nat] /\ f \in 1 .. MaxClock /\ v[f] \in Nat
      /\ \A n \in 1 .. MaxClock : w[n] = IF n = f THEN 0 ELSE v[n]
  BY Zenon DEF Names
<1>1. 0 \in S
  <2>1. Sums(w)[0] = 0 /\ Sums(v)[0] = 0
    BY Zenon, <1>0, SumsAre
  <2>. QED
    BY <1>0, <2>1
<1>2. ASSUME NEW n \in 0 .. MaxClock - 1, n \in S PROVE n + 1 \in S
  <2>1. n + 1 \in 1 .. MaxClock /\ (n + 1) - 1 = n /\ n \in 0 .. MaxClock /\ n \in Nat
    BY ZipAssumption
  <2>2. /\ Sums(w)[n + 1] = Sums(w)[n] + w[n + 1] /\ Sums(v)[n + 1] = Sums(v)[n] + v[n + 1]
        /\ Sums(w)[n] \in Nat /\ Sums(v)[n] \in Nat /\ v[n + 1] \in Nat
    <3>1. \A k \in 1 .. MaxClock : Sums(w)[k] = Sums(w)[k - 1] + w[k]
      BY Zenon, <1>0, SumsAre
    <3>2. \A k \in 1 .. MaxClock : Sums(v)[k] = Sums(v)[k - 1] + v[k]
      BY Zenon, SumsAre
    <3>3. Sums(w)[n] \in Nat /\ Sums(v)[n] \in Nat /\ v[n + 1] \in Nat
      BY Zenon, <1>0, <2>1, SumsNat DEF Names
    <3>. QED
      BY Zenon, <2>1, <3>1, <3>2, <3>3
  <2>3. /\ w[n + 1] = IF n + 1 = f THEN 0 ELSE v[n + 1]
        /\ Sums(w)[n] = IF n < f THEN Sums(v)[n] ELSE Sums(v)[n] - v[f]
    BY Zenon, <1>0, <1>2, <2>1
  <2>4. Sums(w)[n + 1] = IF n + 1 < f THEN Sums(v)[n + 1] ELSE Sums(v)[n + 1] - v[f]
    BY <1>0, <2>1, <2>2, <2>3
  <2>5. n + 1 \in Nat
    BY <2>1
  <2>. QED
    BY Zenon, <2>4, <2>5
<1>3. 0 .. MaxClock \subseteq S
  <2>. HIDE DEF S
  <2>. QED
    BY Zenon, <1>1, <1>2, ClockInduction
<1>4. MaxClock \in 0 .. MaxClock /\ ~(MaxClock < f)
  BY <1>0, ZipAssumption
<1>. QED
  BY Zenon, <1>3, <1>4

\* Nothing adds up to nothing.
LEMMA SumsNothing ==
  ASSUME NEW v, v = [n \in Names |-> 0]
  PROVE  Sums(v)[MaxClock] = 0
<1>. DEFINE S == {n \in Nat : Sums(v)[n] = 0}
<1>0. v \in [Names -> Nat] /\ \A n \in 1 .. MaxClock : v[n] = 0
  BY DEF Names
<1>1. 0 \in S
  BY <1>0, SumsAre
<1>2. ASSUME NEW n \in 0 .. MaxClock - 1, n \in S PROVE n + 1 \in S
  <2>1. n + 1 \in 1 .. MaxClock /\ (n + 1) - 1 = n /\ n + 1 \in Nat
    BY ZipAssumption
  <2>2. Sums(v)[n + 1] = Sums(v)[n] + v[n + 1]
    BY ZenonT(60), <1>0, <2>1, SumsAre
  <2>. QED
    BY <1>0, <1>2, <2>1, <2>2
<1>3. 0 .. MaxClock \subseteq S
  <2>. HIDE DEF S
  <2>. QED
    BY Zenon, <1>1, <1>2, ClockInduction
<1>4. MaxClock \in 0 .. MaxClock
  BY ZipAssumption
<1>. QED
  BY Zenon, <1>3, <1>4

\* The files of a listing, by size.
LEMMA Sizes ==
  ASSUME NEW a \in [Names -> Nat], NEW S \in SUBSET Names
  PROVE  [n \in Names |-> IF n \in S THEN a[n] ELSE 0] \in [Names -> Nat]
  BY Zenon, 0 \in Nat

\* DeleteOldestFiles takes the size of the file off the total ...
LEMMA TotalWithout ==
  ASSUME NEW a \in [Names -> Nat], NEW S \in SUBSET Names, NEW f \in S
  PROVE  Total(a, S \ {f}) = Total(a, S) - a[f]
<1>. DEFINE v == [n \in Names |-> IF n \in S THEN a[n] ELSE 0]
            w == [n \in Names |-> IF n \in S \ {f} THEN a[n] ELSE 0]
<1>1. v \in [Names -> Nat] /\ v[f] = a[f] /\ f \in Names
  BY Zenon, Sizes
<1>2. w = [v EXCEPT ![f] = 0]
  BY Zenon
<1>3. Total(a, S) = Sums(v)[MaxClock] /\ Total(a, S \ {f}) = Sums(w)[MaxClock]
  BY Zenon DEF Total
<1>. HIDE DEF v, w
<1>. QED
  BY ZenonT(60), <1>1, <1>2, <1>3, SumsWithout

\* ... which GetDirTotalSize adds up from the files there are.
LEMMA TotalPresent ==
  ASSUME NEW a \in [Names -> Nat]
  PROVE  Total(a, Names) = Total(a, Present(a))
<1>1. [n \in Names |-> IF n \in Names THEN a[n] ELSE 0]
        = [n \in Names |-> IF n \in Present(a) THEN a[n] ELSE 0]
  BY Zenon DEF Present
<1>. QED
  BY Zenon, <1>1 DEF Total

\* An empty folder fits the limits.
LEMMA NothingFits ==
  ASSUME NEW a \in [Names -> Nat]
  PROVE  Fits(a, {})
<1>1. [n \in Names |-> IF n \in {} THEN a[n] ELSE 0] = [n \in Names |-> 0]
  BY Zenon
<1>2. Total(a, {}) = 0
  BY Zenon, <1>1, SumsNothing DEF Total
<1>3. Cardinality({}) = 0
  BY Zenon, FS_EmptySet
<1>. QED
  BY <1>2, <1>3, ZipAssumption DEF Fits

\* A total is a number.
LEMMA TotalNat ==
  ASSUME NEW a \in [Names -> Nat], NEW S \in SUBSET Names
  PROVE  Total(a, S) \in Nat
<1>. DEFINE v == [n \in Names |-> IF n \in S THEN a[n] ELSE 0]
<1>1. v \in [Names -> Nat]
  BY Zenon, Sizes
<1>2. MaxClock \in 0 .. MaxClock
  BY ZipAssumption
<1>3. Total(a, S) = Sums(v)[MaxClock]
  BY Zenon DEF Total
<1>. HIDE DEF v
<1>. QED
  BY Zenon, <1>1, <1>2, <1>3, SumsNat

\* The numbers of files.
LEMMA NamesFinite == IsFiniteSet(Names) /\ Names \subseteq Nat
<1>1. 1 \in Int /\ MaxClock \in Int /\ Names \subseteq Nat
  BY ZipAssumption DEF Names
<1>. QED
  BY Zenon, <1>1, FS_Interval DEF Names

(***************************************************************************)
(* What a clean-up leaves.                                                 *)
(***************************************************************************)
\* The archives of a that are not older than k.
Since(a, k) == {n \in Present(a) : n >= k}

Deleting == {"delete", "redelete"}

\* DeleteOldestFiles between two turns, whatever the others do to the folder:
\* what it has still to visit are the newest archives of its listing, and it
\* counts no less for them than they are.
ListingInv(t) ==
    /\ known[t] \in [Names -> Nat] /\ ~UnderThreshold(known[t])
    /\ files[t] \subseteq Present(known[t])
    /\ \A f \in files[t], n \in Present(known[t]) : f <= n => n \in files[t]
    /\ size[t] \in Int /\ Total(known[t], files[t]) <= size[t]
    /\ count[t] \in Int /\ Cardinality(files[t]) <= count[t]

\* When nobody else touches the folder, they are all that is left of it, size
\* and count are theirs, and nothing that would have fitted has been touched.
UndisturbedInv(t) ==
    /\ archives = [n \in Names |-> IF n \in files[t] THEN known[t][n] ELSE 0]
    /\ size[t] = Total(known[t], files[t]) /\ count[t] = Cardinality(files[t])
    /\ \A k \in 1 .. MaxClock + 1 :
          Fits(known[t], Since(known[t], k)) => Since(known[t], k) \subseteq files[t]

\* Every archive that has to go was visited.
VisitedBy(t) == ~UnderThreshold(known[t]) => files[t] \subseteq Newest(known[t])

CleanedBy(t) ==
    Present(archives) = IF UnderThreshold(known[t]) THEN Present(known[t]) ELSE Newest(known[t])

\* The account of the last clean-up of a request, under way or over.
AccountInv(t) ==
    /\ IF pc[t] \in Deleting THEN ListingInv(t) ELSE VisitedBy(t)
    /\ alone[t] /\ pc[t] \in Deleting => UndisturbedInv(t)
    /\ alone[t] /\ pc[t] \in {"add", "leave"} => CleanedBy(t)

CleanInv ==
    /\ DOMAIN pc = Threads /\ DOMAIN alone = Threads /\ DOMAIN known = Threads
    /\ DOMAIN size = Threads /\ DOMAIN count = Threads
    /\ \A t \in Threads : AccountInv(t)

\* The two orders of the definitions.
LEMMA GeIsLe == \A m, n \in Nat : m >= n <=> n <= m
  OBVIOUS

\* What a listing consists of.
LEMMA ListedFiles ==
  ASSUME NEW t \in Threads, ListingInv(t)
  PROVE  /\ Present(known[t]) \subseteq Names /\ files[t] \subseteq Names
         /\ files[t] \subseteq Nat /\ IsFiniteSet(files[t])
<1>1. Present(known[t]) \subseteq Names
  BY Zenon DEF Present
<1>2. files[t] \subseteq Names
  BY Zenon, <1>1 DEF ListingInv
<1>. QED
  BY Zenon, <1>1, <1>2, NamesFinite, FS_Subset

\* A listing that is too large: the deletion starts with all of it.
LEMMA DeletionBegins ==
  ASSUME FolderInv, CleanInv, NEW t \in Threads, CleanOldFiles(t), ~UnderThreshold(archives)
  PROVE  ListingInv(t)' /\ UndisturbedInv(t)'
<1>1. /\ known'[t] = archives /\ files'[t] = Present(archives) /\ archives' = archives
      /\ size'[t] = Total(archives, Names) /\ count'[t] = Cardinality(Present(archives))
      /\ archives \in [Names -> Nat]
  BY Zenon DEF CleanOldFiles, FolderInv, CleanInv
<1>2. archives = [n \in Names |-> IF n \in Present(archives) THEN archives[n] ELSE 0]
  BY Zenon, <1>1 DEF Present
<1>3. \A k : Since(archives, k) \subseteq Present(archives)
  BY Zenon DEF Since
<1>4. Present(archives) \subseteq Names
  BY Zenon DEF Present
<1>5. IsFiniteSet(Present(archives))
  BY Zenon, <1>4, NamesFinite, FS_Subset
<1>6. Total(archives, Present(archives)) \in Nat /\ Cardinality(Present(archives)) \in Nat
  BY Zenon, <1>1, <1>4, <1>5, TotalNat, FS_CardinalityType
<1>7. \A n \in Nat : n \in Int /\ n <= n
  OBVIOUS
<1>8. Total(archives, Names) = Total(archives, Present(archives))
  BY Zenon, <1>1, TotalPresent
<1>9. ListingInv(t)'
  BY Zenon, <1>1, <1>6, <1>7, <1>8 DEF ListingInv
<1>10. UndisturbedInv(t)'
  BY ZenonT(60), <1>1, <1>2, <1>3, <1>8 DEF UndisturbedInv
<1>. QED
  BY Zenon, <1>9, <1>10

\* A turn of the loop: the oldest file of the listing is visited.
LEMMA TurnOfLoop ==
  ASSUME FolderInv, CleanInv, NEW t \in Threads, DeleteOldestFile(t), ListingInv(t)
  PROVE  /\ Min(files[t]) \in files[t] /\ \A g \in files[t] : Min(files[t]) <= g
         /\ archives' = [archives EXCEPT ![Min(files[t])] = 0]
         /\ files'[t] = files[t] \ {Min(files[t])} /\ known' = known
         /\ IF archives[Min(files[t])] # 0
            THEN size'[t] = size[t] - known[t][Min(files[t])] /\ count'[t] = count[t] - 1
            ELSE size'[t] = size[t] /\ count'[t] = count[t]
         /\ Total(known[t], files[t] \ {Min(files[t])})
              = Total(known[t], files[t]) - known[t][Min(files[t])]
         /\ Cardinality(files[t] \ {Min(files[t])}) = Cardinality(files[t]) - 1
<1>1. files[t] # {}
  BY Zenon DEF DeleteOldestFile
<1>2. Min(files[t]) \in files[t] /\ \A g \in files[t] : Min(files[t]) <= g
  BY Zenon, <1>1, ListedFiles, MinIsLeast
<1>3. /\ archives' = [archives EXCEPT ![Min(files[t])] = 0]
      /\ files'[t] = files[t] \ {Min(files[t])} /\ known' = known
      /\ IF archives[Min(files[t])] # 0
         THEN size'[t] = size[t] - known[t][Min(files[t])] /\ count'[t] = count[t] - 1
         ELSE size'[t] = size[t] /\ count'[t] = count[t]
  BY Zenon DEF DeleteOldestFile, OldestFile, CleanInv, FolderInv
<1>4. Total(known[t], files[t] \ {Min(files[t])})
        = Total(known[t], files[t]) - known[t][Min(files[t])]
  <2>1. known[t] \in [Names -> Nat] /\ files[t] \in SUBSET Names
    BY Zenon, ListedFiles DEF ListingInv
  <2>. QED
    BY Zenon, <1>2, <2>1, TotalWithout
<1>5. Cardinality(files[t] \ {Min(files[t])}) = Cardinality(files[t]) - 1
  BY Zenon, <1>2, ListedFiles, FS_RemoveElement
<1>. QED
  BY Zenon, <1>2, <1>3, <1>4, <1>5

\* A file that was there is taken off size and count, one that the others have
\* removed is not: they never fall below what is still to be visited.
LEMMA ListingGoesOn ==
  ASSUME FolderInv, CleanInv, NEW t \in Threads, DeleteOldestFile(t), ListingInv(t)
  PROVE  ListingInv(t)'
<1>. DEFINE f == Min(files[t])
            a == known[t]
<1>1. /\ a \in [Names -> Nat] /\ ~UnderThreshold(a) /\ files[t] \subseteq Present(a)
      /\ \A g \in files[t], n \in Present(a) : g <= n => n \in files[t]
      /\ size[t] \in Int /\ Total(a, files[t]) <= size[t]
      /\ count[t] \in Int /\ Cardinality(files[t]) <= count[t]
  BY Zenon DEF ListingInv
<1>2. /\ f \in files[t] /\ \A g \in files[t] : f <= g
      /\ files'[t] = files[t] \ {f} /\ known' = known
      /\ \/ size'[t] = size[t] - a[f] /\ count'[t] = count[t] - 1
         \/ size'[t] = size[t] /\ count'[t] = count[t]
      /\ Total(a, files'[t]) = Total(a, files[t]) - a[f]
      /\ Cardinality(files'[t]) = Cardinality(files[t]) - 1
  BY Zenon, TurnOfLoop
<1>3. Present(a) \subseteq Names /\ files[t] \subseteq Names /\ files[t] \subseteq Nat /\ IsFiniteSet(files[t])
  BY Zenon, ListedFiles
<1>4. Total(a, files[t]) \in Nat /\ Cardinality(files[t]) \in Nat /\ a[f] \in Nat
  BY Zenon, <1>1, <1>2, <1>3, TotalNat, FS_CardinalityType
<1>. HIDE DEF f, a
<1>5. /\ size'[t] \in Int /\ Total(a, files'[t]) <= size'[t]
      /\ count'[t] \in Int /\ Cardinality(files'[t]) <= count'[t]
  BY <1>1, <1>2, <1>4
<1>6. \A g \in files'[t], n \in Present(a) : g <= n => n \in files'[t]
  <2>. SUFFICES ASSUME NEW g \in files'[t], NEW n \in Present(a), g <= n PROVE n \in files'[t]
    BY Zenon
  <2>1. g \in files[t] /\ g # f /\ n \in files[t]
    BY Zenon, <1>1, <1>2
  <2>2. f <= g /\ f \in Nat /\ g \in Nat /\ n \in Nat
    BY Zenon, <1>2, <1>3, <2>1
  <2>3. n # f
    BY <2>1, <2>2
  <2>. QED
    BY Zenon, <1>2, <2>1, <2>3
<1>. QED
  BY Zenon, <1>1, <1>2, <1>5, <1>6 DEF ListingInv, a

\* Undisturbed, the oldest file goes because the files from it on do not fit.
LEMMA UndisturbedGoesOn ==
  ASSUME FolderInv, CleanInv, NEW t \in Threads, DeleteOldestFile(t), ListingInv(t), UndisturbedInv(t)
  PROVE  UndisturbedInv(t)'
<1>. DEFINE f == Min(files[t])
            a == known[t]
<1>1. /\ files[t] \subseteq Present(a) /\ Present(a) \subseteq Names /\ Names \subseteq Nat
      /\ archives = [n \in Names |-> IF n \in files[t] THEN a[n] ELSE 0]
      /\ size[t] = Total(a, files[t]) /\ count[t] = Cardinality(files[t])
      /\ \A k \in 1 .. MaxClock + 1 : Fits(a, Since(a, k)) => Since(a, k) \subseteq files[t]
  BY Zenon, ListedFiles, NamesFinite DEF ListingInv, UndisturbedInv
<1>2. f \in files[t] /\ f \in Names /\ \A g \in files[t] : f <= g
  BY Zenon, <1>1, TurnOfLoop
<1>3. archives[f] # 0
  BY Zenon, <1>1, <1>2 DEF Present
<1>4. /\ archives' = [archives EXCEPT ![f] = 0] /\ files'[t] = files[t] \ {f} /\ known' = known
      /\ size'[t] = Total(a, files'[t]) /\ count'[t] = Cardinality(files'[t])
  BY ZenonT(60), <1>1, <1>3, TurnOfLoop
<1>5. ~Fits(a, files[t])
  BY Zenon, <1>1 DEF DeleteOldestFile, Enough, Fits
<1>. HIDE DEF f, a
<1>6. archives' = [n \in Names |-> IF n \in files'[t] THEN a[n] ELSE 0]
  BY Zenon, <1>1, <1>2, <1>4
<1>7. \A k \in 1 .. MaxClock + 1 : Fits(a, Since(a, k)) => Since(a, k) \subseteq files'[t]
  <2>. SUFFICES ASSUME NEW k \in 1 .. MaxClock + 1, Fits(a, Since(a, k)), f \in Since(a, k)
                PROVE  FALSE
    BY Zenon, <1>1, <1>4
  <2>1. \A g \in files[t] : g \in Since(a, k)
    <3>. SUFFICES ASSUME NEW g \in files[t] PROVE g \in Since(a, k)
      BY Zenon
    <3>0. k \in Nat
      BY ZipAssumption
    <3>1. f >= k /\ f <= g /\ f \in Nat /\ g \in Nat
      BY Zenon, <1>1, <1>2 DEF Since
    <3>2. g >= k
      BY <3>0, <3>1
    <3>. QED
      BY Zenon, <1>1, <3>2 DEF Since
  <2>2. Since(a, k) = files[t]
    BY Zenon, <1>1, <2>1
  <2>. QED
    BY Zenon, <1>5, <2>2
<1>. QED
  BY Zenon, <1>4, <1>6, <1>7 DEF UndisturbedInv, a

\* The deletion ends only when the rest of the listing fits, so it has visited
\* everything older than the newest archives that fit ...
LEMMA DeletionEnds ==
  ASSUME NEW t \in Threads, ListingInv(t), files[t] = {} \/ Enough(t)
  PROVE  /\ VisitedBy(t)
         /\ UndisturbedInv(t) => CleanedBy(t)
<1>. DEFINE a == known[t]
            from == {k \in 1 .. MaxClock + 1 : Fits(a, Since(a, k))}
<1>1. /\ a \in [Names -> Nat] /\ ~UnderThreshold(a) /\ files[t] \subseteq Present(a)
      /\ \A g \in files[t], n \in Present(a) : g <= n => n \in files[t]
      /\ size[t] \in Int /\ Total(a, files[t]) <= size[t]
      /\ count[t] \in Int /\ Cardinality(files[t]) <= count[t]
  BY Zenon DEF ListingInv
<1>2. Newest(a) = Since(a, Min(from))
  BY Zenon DEF Newest, Since
<1>3. Present(a) \subseteq Names /\ files[t] \subseteq Names /\ Names \subseteq Nat /\ IsFiniteSet(files[t])
  BY Zenon, ListedFiles, NamesFinite
<1>. HIDE DEF a, from
<1>4. Fits(a, files[t])
  <2>1. CASE files[t] = {}
    BY Zenon, <1>1, <2>1, NothingFits
  <2>2. CASE Enough(t)
    <3>1. Total(a, files[t]) \in Nat /\ Cardinality(files[t]) \in Nat
      BY Zenon, <1>1, <1>3, TotalNat, FS_CardinalityType
    <3>2. size[t] <= ZIP_TARGET_SIZE /\ count[t] <= LOGFILE_MAX
      BY Zenon, <2>2 DEF Enough
    <3>3. Total(a, files[t]) <= ZIP_TARGET_SIZE /\ Cardinality(files[t]) <= LOGFILE_MAX
      BY <1>1, <3>1, <3>2, ZipAssumption
    <3>. QED
      BY Zenon, <3>3 DEF Fits
  <2>. QED
    BY Zenon, <2>1, <2>2
<1>6. from \subseteq Nat /\ MaxClock + 1 \in 1 .. MaxClock + 1
  BY ZipAssumption DEF from
<1>7. MaxClock + 1 \in from
  <2>1. ASSUME NEW n \in Present(a) PROVE ~(n >= MaxClock + 1)
    <3>1. n \in 1 .. MaxClock
      BY Zenon, <1>3 DEF Names
    <3>. QED
      BY <3>1, ZipAssumption
  <2>2. Since(a, MaxClock + 1) = {}
    BY Zenon, <2>1 DEF Since
  <2>. QED
    BY Zenon, <1>1, <1>6, <2>2, NothingFits DEF from
<1>8. Min(from) \in from /\ \A k \in from : Min(from) <= k
  BY Zenon, <1>6, <1>7, MinIsLeast
<1>9. files[t] \subseteq Since(a, Min(from))
  <2>. SUFFICES ASSUME NEW g \in files[t] PROVE g \in Since(a, Min(from))
    BY Zenon
  <2>. DEFINE f == Min(files[t])
  <2>1. files[t] \subseteq Nat
    BY Zenon, <1>3
  <2>2. f \in files[t] /\ \A h \in files[t] : f <= h
    BY Zenon, <2>1, MinIsLeast
  <2>. HIDE DEF f
  <2>3. Since(a, f) \subseteq files[t]
    <3>. SUFFICES ASSUME NEW n \in Present(a), n >= f PROVE n \in files[t]
      BY Zenon DEF Since
    <3>1. f <= n
      BY Zenon, <1>3, <2>1, <2>2, GeIsLe
    <3>. QED
      BY Zenon, <1>1, <2>2, <3>1
  <2>4. files[t] \subseteq Since(a, f)
    <3>. SUFFICES ASSUME NEW n \in files[t] PROVE n >= f
      BY Zenon, <1>1 DEF Since
    <3>. QED
      BY Zenon, <2>1, <2>2, GeIsLe
  <2>5. f \in 1 .. MaxClock
    BY Zenon, <1>3, <2>2 DEF Names
  <2>6. f \in 1 .. MaxClock + 1
    BY <2>5, ZipAssumption
  <2>7. f \in from
    <3>1. Since(a, f) = files[t]
      BY Zenon, <2>3, <2>4
    <3>. QED
      BY Zenon, <1>4, <2>6, <3>1 DEF from
  <2>8. Min(from) <= f /\ f <= g /\ Min(from) \in Nat /\ f \in Nat /\ g \in Nat
    BY Zenon, <1>6, <1>8, <2>1, <2>2, <2>7
  <2>9. g >= Min(from)
    BY <2>8
  <2>. QED
    BY Zenon, <1>1, <2>9 DEF Since
<1>10. VisitedBy(t)
  BY Zenon, <1>2, <1>9 DEF VisitedBy, a
<1>11. ASSUME UndisturbedInv(t) PROVE CleanedBy(t)
  <2>1. /\ archives = [n \in Names |-> IF n \in files[t] THEN a[n] ELSE 0]
        /\ \A k \in from : Since(a, k) \subseteq files[t]
    BY Zenon, <1>11 DEF UndisturbedInv, a, from
  <2>2. Present(archives) = files[t]
    BY Zenon, <1>1, <2>1 DEF Present
  <2>. QED
    BY Zenon, <1>1, <1>2, <1>8, <1>9, <2>1, <2>2 DEF CleanedBy, a
<1>. QED
  BY Zenon, <1>10, <1>11

\* No request has begun.
LEMMA CleanInit == Init => CleanInv
  BY DEF Init, CleanInv, AccountInv, VisitedBy, Deleting

\* A step of t leaves the account of the others alone, or they are not alone.
LEMMA OthersKeep ==
  ASSUME CleanInv, NEW t \in Threads, NEW to, pc' = [pc EXCEPT ![t] = to],
         DOMAIN alone' = Threads, DOMAIN known' = Threads, DOMAIN size' = Threads,
         DOMAIN count' = Threads,
         \A u \in Threads \ {t} :
            /\ files'[u] = files[u] /\ known'[u] = known[u]
            /\ size'[u] = size[u] /\ count'[u] = count[u]
            /\ alone'[u] => alone[u] /\ archives' = archives,
         AccountInv(t)'
  PROVE  CleanInv'
<1>1. DOMAIN pc' = Threads
  BY Zenon DEF CleanInv
<1>2. ASSUME NEW u \in Threads \ {t} PROVE AccountInv(u)'
  <2>1. pc'[u] = pc[u]
    BY Zenon DEF CleanInv
  <2>2. AccountInv(u)
    BY Zenon DEF CleanInv
  <2>3. ListingInv(u) => ListingInv(u)'
    BY Zenon DEF ListingInv
  <2>4. VisitedBy(u) => VisitedBy(u)'
    BY Zenon DEF VisitedBy
  <2>5. alone'[u] /\ UndisturbedInv(u) => UndisturbedInv(u)'
    BY Zenon DEF UndisturbedInv
  <2>6. alone'[u] /\ CleanedBy(u) => CleanedBy(u)'
    BY Zenon DEF CleanedBy
  <2>. QED
    BY Zenon, <2>1, <2>2, <2>3, <2>4, <2>5, <2>6 DEF AccountInv
<1>. QED
  BY Zenon, <1>1, <1>2 DEF CleanInv

\* The steps outside the clean-ups keep what the last one has visited.
LEMMA MainClean ==
  ASSUME CleanInv, NEW t \in Threads,
         Enter(t) \/ AddRequestRawParam(t) \/ Leave(t) \/ Main(t)
  PROVE  CleanInv'
<1>1. /\ files' = files /\ known' = known /\ size' = size /\ count' = count
      /\ DOMAIN alone' = Threads
      /\ \A u \in Threads \ {t} : alone'[u] => alone[u] /\ archives' = archives
  <2>1. CASE Enter(t)
    BY Zenon, <2>1 DEF Enter, cleaner, CleanInv
  <2>2. CASE AddRequestRawParam(t) \/ Leave(t) \/ InitHandle(t) \/ SetTitle(t) \/ Report(t)
    BY Zenon, <2>2 DEF AddRequestRawParam, Leave, InitHandle, SetTitle, Report, request, cleaner, CleanInv
  <2>3. CASE ZipOpen(t) \/ ZipClose(t)
    BY Zenon, <2>3 DEF ZipOpen, ZipClose, Touches, cleaner
  <2>. QED
    BY Zenon, <2>1, <2>2, <2>3 DEF Main
<1>2. PICK from \in {"idle", "add", "parse", "title", "open", "close", "report", "leave"},
           to \in {"idle", "list", "add", "parse", "title", "open", "close", "report", "relist"} :
         Goto(t, from, to) /\ (to = "add" => alone'[t] = FALSE)
  <2>1. CASE Enter(t)
    BY Zenon, <2>1 DEF Enter, CleanInv
  <2>2. CASE AddRequestRawParam(t) \/ Leave(t) \/ ZipOpen(t) \/ ZipClose(t) \/ Report(t)
    <3>1. "parse" # "add" /\ "idle" # "add" /\ "close" # "add" /\ "report" # "add" /\ "relist" # "add"
      OBVIOUS
    <3>. QED
      BY Zenon, <2>2, <3>1 DEF AddRequestRawParam, Leave, ZipOpen, ZipClose, Report
  <2>3. CASE InitHandle(t) \/ SetTitle(t)
    <3>1. "title" # "add" /\ "relist" # "add" /\ "open" # "add" /\ "report" # "add"
      OBVIOUS
    <3>. QED
      BY Zenon, <2>3, <3>1 DEF InitHandle, SetTitle
  <2>. QED
    BY Zenon, <2>1, <2>2, <2>3 DEF Main
<1>3. from \notin Deleting /\ to \notin Deleting /\ to # "leave"
  BY DEF Deleting
<1>4. pc[t] = from /\ pc' = [pc EXCEPT ![t] = to] /\ pc'[t] = to
  BY Zenon, <1>2 DEF Goto, CleanInv
<1>5. VisitedBy(t)'
  BY Zenon, <1>1, <1>3, <1>4 DEF VisitedBy, CleanInv, AccountInv
<1>6. AccountInv(t)'
  BY Zenon, <1>2, <1>3, <1>4, <1>5 DEF AccountInv
<1>. QED
  BY Zenon, <1>1, <1>4, <1>6, OthersKeep DEF CleanInv

\* The names of the steps of a clean-up.
LEMMA SiteSteps ==
  \A s \in Sites :
     /\ s.delete \in Deleting /\ s.list \notin Deleting /\ s.next \notin Deleting
     /\ s.delete \notin {"add", "leave"}
  BY DEF Sites, Deleting

\* Every step keeps the account of the clean-ups.
LEMMA CleanStep == FolderInv /\ CleanInv /\ [Next]_vars => CleanInv'
<1>. SUFFICES ASSUME FolderInv, CleanInv, [Next]_vars PROVE CleanInv'
  BY Zenon
<1>1. CASE Tick \/ UNCHANGED vars
  <2>1. /\ archives' = archives /\ pc' = pc /\ alone' = alone /\ files' = files
        /\ known' = known /\ size' = size /\ count' = count
    BY Zenon, <1>1 DEF Tick, vars, request, cleaner
  <2>. QED
    BY ZenonT(60), <2>1 DEF CleanInv, AccountInv, ListingInv, UndisturbedInv, VisitedBy, CleanedBy
<1>2. ASSUME NEW t \in Threads, Enter(t) \/ AddRequestRawParam(t) \/ Leave(t) \/ Main(t) PROVE CleanInv'
  BY Zenon, <1>2, MainClean
<1>3. ASSUME NEW t \in Threads, CleanOldFiles(t) PROVE CleanInv'
  <2>1. PICK s \in Sites : Goto(t, s.list, IF UnderThreshold(archives) THEN s.next ELSE s.delete)
    BY Zenon, <1>3 DEF CleanOldFiles
  <2>. DEFINE to == IF UnderThreshold(archives) THEN s.next ELSE s.delete
  <2>2. /\ pc' = [pc EXCEPT ![t] = to] /\ pc'[t] = to
        /\ archives' = archives /\ known'[t] = archives
        /\ DOMAIN alone' = Threads /\ DOMAIN known' = Threads
        /\ DOMAIN size' = Threads /\ DOMAIN count' = Threads
        /\ \A u \in Threads \ {t} :
              /\ files'[u] = files[u] /\ known'[u] = known[u]
              /\ size'[u] = size[u] /\ count'[u] = count[u] /\ alone'[u] = alone[u]
    BY ZenonT(60), <1>3, <2>1 DEF CleanOldFiles, Goto, CleanInv, FolderInv
  <2>3. CASE UnderThreshold(archives)
    <3>1. to \notin Deleting
      BY Zenon, <2>3, SiteSteps
    <3>2. VisitedBy(t)' /\ CleanedBy(t)'
      BY Zenon, <2>2, <2>3 DEF VisitedBy, CleanedBy
    <3>. HIDE DEF to
    <3>. QED
      BY Zenon, <2>2, <3>1, <3>2, OthersKeep DEF AccountInv
  <2>4. CASE ~UnderThreshold(archives)
    <3>1. to \in Deleting /\ to \notin {"add", "leave"}
      BY Zenon, <2>4, SiteSteps
    <3>2. ListingInv(t)' /\ UndisturbedInv(t)'
      BY Zenon, <1>3, <2>4, DeletionBegins
    <3>. HIDE DEF to
    <3>. QED
      BY ZenonT(60), <2>2, <3>1, <3>2, OthersKeep DEF AccountInv
  <2>. QED
    BY Zenon, <2>3, <2>4
<1>4. ASSUME NEW t \in Threads, DeleteOldestFile(t) PROVE CleanInv'
  <2>1. PICK s \in Sites : Goto(t, s.delete, s.delete)
    BY Zenon, <1>4 DEF DeleteOldestFile
  <2>2. /\ pc[t] = s.delete /\ pc' = [pc EXCEPT ![t] = s.delete] /\ pc'[t] = s.delete
        /\ (alone'[t] => alone[t])
        /\ DOMAIN alone' = Threads /\ DOMAIN known' = Threads
        /\ DOMAIN size' = Threads /\ DOMAIN count' = Threads
    BY Zenon, <1>4, <2>1 DEF DeleteOldestFile, Touches, Goto, CleanInv
  <2>3. \A u \in Threads \ {t} :
           /\ files'[u] = files[u] /\ known'[u] = known[u]
           /\ size'[u] = size[u] /\ count'[u] = count[u]
           /\ alone'[u] => alone[u] /\ archives' = archives
    BY ZenonT(60), <1>4 DEF DeleteOldestFile, Touches, CleanInv, FolderInv
  <2>4. ListingInv(t) /\ (alone[t] => UndisturbedInv(t))
    BY Zenon, <2>2, SiteSteps DEF CleanInv, AccountInv
  <2>5. ListingInv(t)' /\ (alone[t] => UndisturbedInv(t)')
    BY Zenon, <1>4, <2>4, ListingGoesOn, UndisturbedGoesOn
  <2>6. AccountInv(t)'
    BY Zenon, <2>2, <2>5, SiteSteps DEF AccountInv
  <2>. QED
    BY Zenon, <2>2, <2>3, <2>6, OthersKeep
<1>5. ASSUME NEW t \in Threads, DeleteOldestDone(t) PROVE CleanInv'
  <2>1. PICK s \in Sites : Goto(t, s.delete, s.next)
    BY Zenon, <1>5 DEF DeleteOldestDone
  <2>2. /\ pc[t] = s.delete /\ pc' = [pc EXCEPT ![t] = s.next] /\ pc'[t] = s.next
        /\ alone' = alone /\ archives' = archives
        /\ files' = files /\ known' = known /\ size' = size /\ count' = count
        /\ files[t] = {} \/ Enough(t)
    BY Zenon, <1>5, <2>1 DEF DeleteOldestDone, Goto, request, cleaner, CleanInv
  <2>3. ListingInv(t) /\ (alone[t] => UndisturbedInv(t))
    BY Zenon, <2>2, SiteSteps DEF CleanInv, AccountInv
  <2>4. VisitedBy(t) /\ (alone[t] => CleanedBy(t))
    BY Zenon, <2>2, <2>3, DeletionEnds
  <2>5. VisitedBy(t)' /\ (alone'[t] => CleanedBy(t)')
    BY Zenon, <2>2, <2>4 DEF VisitedBy, CleanedBy
  <2>6. AccountInv(t)'
    BY Zenon, <2>2, <2>5, SiteSteps DEF AccountInv
  <2>. QED
    BY Zenon, <2>2, <2>6, OthersKeep DEF CleanInv
<1>. QED
  BY Zenon, <1>1, <1>2, <1>3, <1>4, <1>5 DEF Next

\* CleanedExactly for any limits, any sizes and any number of requests: a
\* clean-up (ZipFileCleaner::CleanOldFiles), before or after a dump, visits every
\* archive of its listing that has to go, whatever the others do meanwhile, and
\* leaves exactly the newest ones that fit when nobody else touches the folder.
THEOREM CleanedTheorem == Spec => []CleanedExactly
<1>1. CleanInv => CleanedExactly
  <2>1. "add" \notin Deleting /\ "leave" \notin Deleting
    BY DEF Deleting
  <2>. QED
    BY Zenon, <2>1 DEF CleanInv, AccountInv, VisitedBy, CleanedBy, CleanedExactly
<1>. QED
  BY <1>1, FolderInit, FolderStep, CleanInit, CleanStep, PTL DEF Spec
=============================================================================
