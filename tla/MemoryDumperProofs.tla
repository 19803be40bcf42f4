------------------------- MODULE MemoryDumperProofs -------------------------
(***************************************************************************)
(* The plugin is held and the collector is done in time, proved of         *)
(* MemoryDumper for any number of requests, whatever they dump and         *)
(* whatever the application, the library or the files do.  The places of   *)
(* a request tell whether its MemoryInfo object exists; the references to  *)
(* the plugin are counted against the set of objects.                      *)
(***************************************************************************)
EXTENDS MemoryDumper, SequenceTheorems, FiniteSetTheorems, NaturalsInduction, TLAPS

\* The places of a request while its MemoryInfo object exists.
InObject == {"sigint", "begin", "loop", "rearm", "bypid", "init", "usage", "get", "destruct"}

\* The object of a request exists exactly in those places, and a constructor is
\* only reached by a kind of request that has one.
Places ==
    /\ DOMAIN pc = Requests
    /\ live = {r \in Requests : pc[r] \in InObject}
    /\ \A r \in Requests : pc[r] = "construct" => Kind(r) \in DOMAIN Entry

Counted ==
    /\ IsFiniteSet(live)
    /\ g_refCount \in Nat
    /\ PluginHeld

PluginInv == Places /\ Counted

\* There is no object and no reference at the start.
LEMMA PluginInit == Init => PluginInv
<1>. SUFFICES ASSUME Init PROVE PluginInv
  BY Zenon
<1>1. Places
  BY Zenon DEF Init, Places, InObject
<1>2. Counted
  BY Zenon, FS_EmptySet DEF Init, Counted, PluginHeld
<1>. QED
  BY Zenon, <1>1, <1>2 DEF PluginInv

\* A constructor adds its object and a reference, or leaves a failure behind.
LEMMA LoadPluginKeeps ==
    ASSUME PluginInv, NEW r \in Requests, LoadPlugin(r)
    PROVE  PluginInv'
<1>1. r \notin live /\ Kind(r) \in DOMAIN Entry
  BY Zenon DEF PluginInv, Places, LoadPlugin, Goto, InObject
<1>2. Entry[Kind(r)] \in InObject
  BY <1>1 DEF Entry, InObject
<1>3. Places'
  BY Zenon, <1>1, <1>2 DEF PluginInv, Places, LoadPlugin, Goto, Kind, InObject
<1>4. IsFiniteSet(live') /\ Cardinality(live') = Cardinality(live) + 1
  BY Zenon, <1>1, FS_AddElement DEF PluginInv, Counted, LoadPlugin
<1>5. Counted'
  BY <1>4 DEF PluginInv, Counted, PluginHeld, LoadPlugin
<1>. QED
  BY Zenon, <1>3, <1>5 DEF PluginInv

\* A destructor takes its object and its reference away.
LEMMA UnloadPluginKeeps ==
    ASSUME PluginInv, NEW r \in Requests, UnloadPlugin(r)
    PROVE  PluginInv'
<1>1. r \in live
  BY Zenon DEF PluginInv, Places, UnloadPlugin, Goto, InObject
<1>2. Places'
  BY Zenon DEF PluginInv, Places, UnloadPlugin, Goto, Kind, InObject
<1>3. /\ IsFiniteSet(live') /\ Cardinality(live') = Cardinality(live) - 1
      /\ Cardinality(live) \in Nat /\ Cardinality(live') \in Nat
  BY Zenon, <1>1, FS_RemoveElement, FS_CardinalityType DEF PluginInv, Counted, UnloadPlugin
<1>4. Counted'
  BY <1>3 DEF PluginInv, Counted, PluginHeld, UnloadPlugin
<1>. QED
  BY Zenon, <1>2, <1>4 DEF PluginInv

\* The moves of a request between places on the same side.
Moved(r) ==
    \/ pc' = pc /\ pc[r] \in {"loop", "usage"}
    \/ \E from, to \in InObject : Goto(r, from, to)
    \/ /\ Kind(r) \in DOMAIN Entry
       /\ Goto(r, "start", "construct")
    \/ \E from \in {"start", "join", "arkts", "leak", "heap"}, to \in {"join", "leak", "heap", "done"} :
         Goto(r, from, to)

\* A step of a request that makes or destroys no object moves it so.
LEMMA OtherMoves ==
    ASSUME NEW r \in Requests, RequestStep(r), ~LoadPlugin(r), ~UnloadPlugin(r)
    PROVE  Moved(r)
  BY Zenon DEF RequestStep, LibraryMissing, Execute, StartFetches, Join, GetMemSmapsByPid,
         SetReceivedSigInt, TimeIntervalBegins, Round, LoopEnds, Rearm, GetMemoryInfoInit,
         GetMemoryUsageInfo, PruneEnds, DealResult, DealCategories, GetMemByPid,
         MergeArktsHeapResult, MergeLeakThreadResult, HeapExecute, HeapAfterExecute,
         InObject, Entry, Moved

\* No other step makes or destroys an object.
LEMMA OthersKeep ==
    ASSUME PluginInv, NEW r \in Requests, RequestStep(r), ~LoadPlugin(r), ~UnloadPlugin(r)
    PROVE  PluginInv'
<1>1. g_refCount' = g_refCount /\ loadFailed' = loadFailed /\ live' = live /\ scenario' = scenario
  BY Zenon DEF RequestStep, LibraryMissing, Execute, StartFetches, Join, GetMemSmapsByPid,
         SetReceivedSigInt, TimeIntervalBegins, Round, LoopEnds, Rearm, GetMemoryInfoInit,
         GetMemoryUsageInfo, PruneEnds, DealResult, DealCategories, GetMemByPid,
         MergeArktsHeapResult, MergeLeakThreadResult, HeapExecute, HeapAfterExecute,
         shared, object
<1>2. Moved(r)
  BY Zenon, OtherMoves
<1>3. Places'
  BY <1>1, <1>2 DEF PluginInv, Places, Goto, Kind, InObject, Moved
<1>4. Counted'
  BY Zenon, <1>1 DEF PluginInv, Counted, PluginHeld
<1>. QED
  BY Zenon, <1>3, <1>4 DEF PluginInv

\* Every step keeps the invariant.
LEMMA PluginStep == PluginInv /\ [Next]_vars => PluginInv'
<1>. SUFFICES ASSUME PluginInv, [Next]_vars PROVE PluginInv'
  BY Zenon
<1>1. ASSUME NEW r \in Requests, RequestStep(r) PROVE PluginInv'
  BY Zenon, <1>1, LoadPluginKeeps, UnloadPluginKeeps, OthersKeep
<1>2. ASSUME UNCHANGED <<scenario, pc, g_refCount, loadFailed, live>> PROVE PluginInv'
  BY Zenon, <1>2 DEF PluginInv, Places, Counted, PluginHeld, Kind
<1>3. ASSUME NEW r \in Requests, CollectorStep(r) PROVE PluginInv'
  BY Zenon, <1>2, <1>3 DEF CollectorStep, CollectorCopies, GetSmapsInfoNoPid, CollectorSets, shared, object
<1>4. ASSUME NEW f \in Fetches, DumpMem(f) \/ WaitForResult(f) \/ OnMemDumpDone(f) PROVE PluginInv'
  BY Zenon, <1>2, <1>4 DEF DumpMem, WaitForResult, OnMemDumpDone, shared, object
<1>5. CASE UNCHANGED vars
  BY Zenon, <1>2, <1>5 DEF vars, shared, object
<1>. QED
  BY Zenon, <1>1, <1>3, <1>4, <1>5 DEF Next, ThreadStep

\* While no load has failed, the plugin stays loaded for every MemoryInfo
\* object there is, however many requests load and unload it in whatever order
\* (LoadPlugin, UnloadPlugin): a reference is counted for each object.
THEOREM PluginTheorem == Spec => []PluginHeld
<1>1. PluginInv => PluginHeld
  BY Zenon DEF PluginInv, Counted
<1>. QED
  BY PluginInit, PluginStep, <1>1, PTL DEF Spec

(***************************************************************************)
(* The collector.                                                          *)
(***************************************************************************)
\* Once a request has its figures of /proc/meminfo it stands at the future,
\* inside its object, or the future has been set.
FutureAwaited(r) ==
    info[r].meminfo # <<>> =>
        \/ pc[r] = "get"
        \/ pc[r] \in {"destruct", "arkts", "leak", "done"} /\ collector[r].at = "set"

CollectorInv ==
    /\ DOMAIN info = Requests /\ DOMAIN collector = Requests
    /\ \A r \in Requests : /\ "meminfo" \in DOMAIN info[r]
                           /\ "at" \in DOMAIN collector[r]
                           /\ FutureAwaited(r)

\* There are no figures at the start.
LEMMA CollectorInit == Init => CollectorInv
  BY DEF Init, NoInfo, CollectorInv, FutureAwaited

\* A step that leaves the object's figures and the collector alone moves its
\* request on, and never from behind the future back before it.
LEMMA MovesKeep ==
    ASSUME PluginInv, CollectorInv, NEW r \in Requests,
           \/ LoadPlugin(r) \/ UnloadPlugin(r) \/ LibraryMissing(r) \/ Execute(r) \/ Join(r)
           \/ GetMemSmapsByPid(r) \/ SetReceivedSigInt(r) \/ TimeIntervalBegins(r)
           \/ LoopEnds(r) \/ Rearm(r) \/ PruneEnds(r) \/ DealCategories(r)
           \/ MergeArktsHeapResult(r) \/ MergeLeakThreadResult(r) \/ HeapAfterExecute(r)
    PROVE  CollectorInv'
<1>1. UNCHANGED <<info, collector>>
  BY Zenon DEF LoadPlugin, UnloadPlugin, LibraryMissing, Execute, Join, GetMemSmapsByPid,
         SetReceivedSigInt, TimeIntervalBegins, LoopEnds, Rearm, PruneEnds, DealCategories,
         MergeArktsHeapResult, MergeLeakThreadResult, HeapAfterExecute, object
<1>2. DOMAIN pc = Requests
  BY Zenon DEF PluginInv, Places
<1>3. /\ \/ pc[r] \notin {"get", "destruct", "arkts", "leak"}
         \/ pc[r] = "get" /\ pc'[r] = "destruct" /\ collector[r].at = "set"
         \/ pc[r] \in {"destruct", "arkts", "leak"} /\ pc'[r] \in {"arkts", "leak", "done"}
      /\ pc[r] # "done"
      /\ \A q \in Requests : q # r => pc'[q] = pc[q]
  BY <1>2, Zenon DEF LoadPlugin, UnloadPlugin, LibraryMissing, Execute, Join, GetMemSmapsByPid,
         SetReceivedSigInt, TimeIntervalBegins, LoopEnds, Rearm, PruneEnds, DealCategories,
         MergeArktsHeapResult, MergeLeakThreadResult, HeapAfterExecute, FutureReady, Goto
<1>. QED
  BY Zenon, <1>1, <1>3 DEF CollectorInv, FutureAwaited

\* A step that changes other members of the object runs before the future.
LEMMA MembersKeep ==
    ASSUME PluginInv, CollectorInv, NEW r \in Requests,
           \/ StartFetches(r) \/ Round(r) \/ GetMemoryUsageInfo(r) \/ GetMemByPid(r)
           \/ HeapExecute(r)
    PROVE  CollectorInv'
<1>1. /\ collector' = collector /\ DOMAIN info' = Requests
      /\ \A q \in Requests : q # r => info'[q] = info[q]
      /\ "meminfo" \in DOMAIN info'[r] /\ info'[r].meminfo = info[r].meminfo
  <2>1. CASE StartFetches(r)
    BY <2>1 DEF StartFetches, CollectorInv
  <2>2. CASE Round(r)
    <3>1. PICK mem, pssValues, lines :
               info' = [info EXCEPT ![r].mem = mem, ![r].pssValues = pssValues,
                                    ![r].prevLineCount = lines]
      BY Zenon, <2>2 DEF Round
    <3>2. collector' = collector
      BY Zenon, <2>2 DEF Round
    <3>. QED
      BY Zenon, <3>1, <3>2 DEF CollectorInv
  <2>3. CASE GetMemoryUsageInfo(r)
    <3> DEFINE pid == Head(info[r].pids)
               usage(source) == GetMemByProcessPid(info[r].usage, pid, source, Kind(r) = "prune")
               rows(source) == IF source.own = Bad THEN info[r].memUsages_
                               ELSE Append(info[r].memUsages_, usage(source))
               failed(source) == info[r].failed \cup
                   { <<pid, part>> : part \in { p \in {"gl", "graph"} : source[p] = Bad } }
    <3>1. PICK source \in Readings(pid) :
               info' = [info EXCEPT ![r].pids = Tail(@), ![r].usage = usage(source),
                                    ![r].memUsages_ = rows(source), ![r].failed = failed(source)]
      BY <2>3, Zenon DEF GetMemoryUsageInfo
    <3>2. collector' = collector
      BY <2>3, Zenon DEF GetMemoryUsageInfo
    <3> HIDE DEF usage, rows, failed
    <3>. QED
      BY Zenon, <3>1, <3>2 DEF CollectorInv
  <2>4. CASE GetMemByPid(r)
    BY Zenon, <2>4 DEF GetMemByPid, CollectorInv
  <2>5. CASE HeapExecute(r)
    BY Zenon, <2>5 DEF HeapExecute, CollectorInv
  <2>. QED
    BY Zenon, <2>1, <2>2, <2>3, <2>4, <2>5
<1>2. /\ pc[r] \in {"start", "loop", "usage", "bypid"}
      /\ \E to : pc' = pc \/ pc' = [pc EXCEPT ![r] = to]
  BY Zenon DEF StartFetches, Round, GetMemoryUsageInfo, GetMemByPid, HeapExecute, Goto
<1>3. DOMAIN pc = Requests
  BY Zenon DEF PluginInv, Places
<1>. QED
  BY ZenonT(60), <1>1, <1>2, <1>3 DEF CollectorInv, FutureAwaited

\* The collector starts before there are figures; with them the request goes
\* to the future.
LEMMA DealKeeps ==
    ASSUME PluginInv, CollectorInv, NEW r \in Requests, GetMemoryInfoInit(r) \/ DealResult(r)
    PROVE  CollectorInv'
<1>1. DOMAIN pc = Requests
  BY Zenon DEF PluginInv, Places
<1>2. CASE GetMemoryInfoInit(r)
  BY <1>1, <1>2 DEF GetMemoryInfoInit, CollectorInv, FutureAwaited, Goto
<1>3. CASE DealResult(r)
  BY ZenonT(60), <1>1, <1>3 DEF DealResult, CollectorInv, FutureAwaited, Goto
<1>. QED
  BY Zenon, <1>2, <1>3

\* The thread of the collector never unsets the future.
LEMMA CollectorKeeps ==
    ASSUME CollectorInv, NEW r \in Requests, CollectorStep(r)
    PROVE  CollectorInv'
<1>1. /\ UNCHANGED <<pc, info>> /\ DOMAIN collector' = Requests
      /\ \A q \in Requests : q # r => collector'[q] = collector[q]
      /\ "at" \in DOMAIN collector'[r]
  BY Zenon DEF CollectorStep, CollectorCopies, GetSmapsInfoNoPid, CollectorSets, CollectorInv, object
<1>2. collector[r].at # "set"
  BY Zenon DEF CollectorStep, CollectorCopies, GetSmapsInfoNoPid, CollectorSets
<1>. QED
  BY Zenon, <1>1, <1>2 DEF CollectorInv, FutureAwaited

\* Every step keeps the invariant.
LEMMA CollectorStepKeeps == PluginInv /\ CollectorInv /\ [Next]_vars => CollectorInv'
<1>. SUFFICES ASSUME PluginInv, CollectorInv, [Next]_vars PROVE CollectorInv'
  BY Zenon
<1>1. ASSUME NEW r \in Requests, RequestStep(r) PROVE CollectorInv'
  BY Zenon, <1>1, MovesKeep, MembersKeep, DealKeeps DEF RequestStep
<1>2. ASSUME UNCHANGED <<pc, info, collector>> PROVE CollectorInv'
  BY Zenon, <1>2 DEF CollectorInv, FutureAwaited
<1>3. ASSUME NEW f \in Fetches, DumpMem(f) \/ WaitForResult(f) \/ OnMemDumpDone(f)
      PROVE  CollectorInv'
  BY Zenon, <1>2, <1>3 DEF DumpMem, WaitForResult, OnMemDumpDone, object
<1>4. CASE UNCHANGED vars
  BY Zenon, <1>2, <1>4 DEF vars, object
<1>. QED
  BY Zenon, <1>1, <1>3, <1>4, CollectorKeeps DEF Next, ThreadStep

\* A dump of all processes that got as far as its system-wide figures never
\* leaves a collector behind that still reads the object's pids_ (DealResult
\* waits for the future before the object goes).
THEOREM CollectorTheorem == Spec => []CollectorDoneFirst
<1>1. PluginInv /\ CollectorInv => CollectorDoneFirst
  BY Zenon DEF PluginInv, Places, InObject, CollectorInv, FutureAwaited, CollectorDoneFirst
<1>. QED
  BY PluginInit, PluginStep, CollectorInit, CollectorStepKeeps, <1>1, PTL DEF Spec

(***************************************************************************)
(* The answers of the applications.                                        *)
(***************************************************************************)
\* A sequence whose elements may be anything: sections of an output.
IsSeq(s) == s \in Seq({s[i] : i \in DOMAIN s})

AnswerKinds == {"leakthread:", "arktsheap:"}

\* A sequence is one over its own elements.
LEMMA SeqIsSeq ==
  ASSUME NEW T, NEW s \in Seq(T)
  PROVE  IsSeq(s)
<1>1. s \in [1..Len(s) -> T] /\ Len(s) \in Nat
  BY Zenon, LenProperties
<1>. QED
  BY <1>1, IsASeq, SeqDef DEF IsSeq

\* What appending sections does to an output, whatever the sections are.
LEMMA ConcatAny ==
  ASSUME NEW s, NEW t, IsSeq(s), IsSeq(t)
  PROVE  /\ IsSeq(s \o t)
         /\ DOMAIN s = 1..Len(s) /\ Len(s) \in Nat
         /\ DOMAIN t = 1..Len(t) /\ Len(t) \in Nat
         /\ DOMAIN (s \o t) = 1..(Len(s) + Len(t))
         /\ \A i \in DOMAIN (s \o t) : (s \o t)[i] = IF i \in DOMAIN s THEN s[i] ELSE t[i - Len(s)]
<1>. DEFINE T == {s[i] : i \in DOMAIN s} \cup {t[i] : i \in DOMAIN t}
<1>1. s \in Seq(T) /\ t \in Seq(T)
  BY Zenon, SeqMonotonic DEF IsSeq
<1>. HIDE DEF T
<1>2. /\ s \o t \in Seq(T) /\ Len(s \o t) = Len(s) + Len(t)
      /\ \A i \in 1 .. Len(s) + Len(t) : (s \o t)[i] = IF i <= Len(s) THEN s[i] ELSE t[i - Len(s)]
  BY Zenon, <1>1, ConcatProperties
<1>3. /\ DOMAIN s = 1..Len(s) /\ Len(s) \in Nat /\ DOMAIN t = 1..Len(t) /\ Len(t) \in Nat
      /\ DOMAIN (s \o t) = 1..(Len(s) + Len(t))
  BY Zenon, <1>1, <1>2, LenProperties
<1>4. ASSUME NEW i \in DOMAIN (s \o t)
      PROVE  (s \o t)[i] = IF i \in DOMAIN s THEN s[i] ELSE t[i - Len(s)]
  BY <1>2, <1>3, <1>4
<1>5. IsSeq(s \o t)
  BY Zenon, <1>2, SeqIsSeq
<1>. QED
  BY Zenon, <1>3, <1>4, <1>5

\* What appending one element does.
LEMMA AppendAny ==
  ASSUME NEW s, IsSeq(s), NEW e
  PROVE  /\ IsSeq(Append(s, e)) /\ Len(s) \in Nat /\ DOMAIN s = 1..Len(s)
         /\ DOMAIN Append(s, e) = 1..(Len(s) + 1) /\ Append(s, e)[Len(s) + 1] = e
         /\ \A i \in DOMAIN s : Append(s, e)[i] = s[i]
<1>. DEFINE T == {s[i] : i \in DOMAIN s} \cup {e}
<1>1. s \in Seq(T) /\ e \in T
  BY Zenon, SeqMonotonic DEF IsSeq
<1>. HIDE DEF T
<1>2. /\ Append(s, e) \in Seq(T) /\ Len(Append(s, e)) = Len(s) + 1
      /\ \A i \in 1..Len(s) : Append(s, e)[i] = s[i]
      /\ Append(s, e)[Len(s) + 1] = e
  BY <1>1, AppendProperties
<1>3. /\ DOMAIN s = 1..Len(s) /\ Len(s) \in Nat
      /\ DOMAIN Append(s, e) = 1..(Len(s) + 1)
  BY Zenon, <1>1, <1>2, LenProperties
<1>4. IsSeq(Append(s, e))
  BY Zenon, <1>2, SeqIsSeq
<1>. QED
  BY Zenon, <1>2, <1>3, <1>4

\* What is known of a fetch and its callback, wherever it is: once it has ended,
\* its result is the answer that came while it waited.
Answered(f) ==
    /\ {"at", "result"} \subseteq DOMAIN fetch[f]
    /\ fetch[f].at \in {"none", "ask", "wait"} \cup Ended
    /\ fetch[f].at \in Ended => fetch[f].result = inTime[f]
    /\ fetch[f].at # "done" => fetch[f].result = Silence
    /\ fetch[f].at = "wait" =>
         inTime[f] = IF callback[f].completed_ THEN callback[f].dumpResult_ ELSE Silence
    /\ fetch[f].at \in {"none", "ask"} => inTime[f] = Silence /\ ~callback[f].completed_

\* The sections about a fetch that has ended tell the answer that came in time.
SectionShown(r, s) ==
    /\ s.k = "leakthread:" =>
         /\ fetch[<<r, "leak">>].at \in Ended
         /\ s.data = IF inTime[<<r, "leak">>] = Silence THEN <<>> ELSE << inTime[<<r, "leak">>] >>
    /\ s.k = "arktsheap:" =>
         /\ fetch[<<r, "arkts">>].at \in Ended
         /\ s.data = AppendArktsHeapData(inTime[<<r, "arkts">>])

\* A request that has not begun has asked and written nothing.
Fresh(r) == out[r] = <<>> /\ \A k \in {"arkts", "leak", "heap"} : fetch[<<r, k>>].at = "none"

AnswerInv ==
    /\ DOMAIN fetch = Fetches /\ DOMAIN callback = Fetches /\ DOMAIN inTime = Fetches
    /\ DOMAIN out = Requests /\ DOMAIN pc = Requests
    /\ \A f \in Fetches : Answered(f)
    /\ \A r \in Requests :
         /\ IsSeq(out[r]) /\ \A i \in DOMAIN out[r] : SectionShown(r, out[r][i])
         /\ pc[r] = "start" => Fresh(r)

\* Nothing was asked and nothing was written at the start.
LEMMA AnswerInit == Init => AnswerInv
<1>. SUFFICES ASSUME Init PROVE AnswerInv
  BY Zenon
<1>1. \A f \in Fetches : Answered(f)
  BY Zenon DEF Init, Answered, Idle, Empty, Ended
<1>2. IsSeq(<<>>)
  BY ZenonT(60), EmptySeq, SeqIsSeq
<1>3. \A r \in Requests : Fresh(r)
  BY Zenon DEF Init, Fresh, Idle, Fetches
<1>. QED
  BY <1>1, <1>2, <1>3 DEF Init, AnswerInv

\* The sections stay true as long as a fetch that has ended stays as it is.
LEMMA ShownKept ==
    ASSUME NEW r \in Requests, NEW s, SectionShown(r, s),
           \A f \in Fetches : fetch[f].at \in Ended => fetch'[f].at \in Ended /\ inTime'[f] = inTime[f]
    PROVE  SectionShown(r, s)'
<1>1. <<r, "leak">> \in Fetches /\ <<r, "arkts">> \in Fetches /\ <<r, "heap">> \in Fetches
  BY Zenon DEF Fetches
<1>. QED
  BY Zenon, <1>1 DEF SectionShown

\* The thread of a fetch and the answer to it.
LEMMA FetchKeeps ==
    ASSUME AnswerInv, NEW f \in Fetches, DumpMem(f) \/ WaitForResult(f) \/ OnMemDumpDone(f)
    PROVE  AnswerInv'
<1>1. UNCHANGED <<pc, out>>
  BY Zenon DEF DumpMem, WaitForResult, OnMemDumpDone
<1>2. /\ DOMAIN fetch = Fetches /\ DOMAIN callback = Fetches /\ DOMAIN inTime = Fetches
      /\ \A g \in Fetches : Answered(g)
  BY Zenon DEF AnswerInv
<1>3. /\ DOMAIN fetch' = Fetches /\ DOMAIN callback' = Fetches /\ DOMAIN inTime' = Fetches
      /\ \A g \in Fetches \ {f} :
           fetch'[g] = fetch[g] /\ callback'[g] = callback[g] /\ inTime'[g] = inTime[g]
  BY Zenon, <1>2 DEF DumpMem, WaitForResult, OnMemDumpDone
<1>4. fetch[f].at \in {"ask", "wait", "timeout"}
  BY Zenon DEF DumpMem, WaitForResult, WaitEnds, OnMemDumpDone
<1>5. Answered(f)' /\ (fetch[f].at = "timeout" => fetch'[f].at = "timeout" /\ inTime'[f] = inTime[f])
  <2>1. CASE DumpMem(f)
    BY <1>2, <2>1 DEF DumpMem, Answered, Ended
  <2>2. CASE WaitForResult(f)
    BY Zenon, <1>2, <2>2 DEF WaitForResult, WaitEnds, Answered, Ended
  <2>3. CASE OnMemDumpDone(f)
    BY <1>2, <2>3 DEF OnMemDumpDone, Answered, Ended
  <2>. QED
    BY Zenon, <2>1, <2>2, <2>3
<1>6. \A g \in Fetches : Answered(g)'
  BY <1>2, <1>3, <1>5 DEF Answered
<1>7. \A g \in Fetches : fetch[g].at \in Ended => fetch'[g].at \in Ended /\ inTime'[g] = inTime[g]
  BY Zenon, <1>3, <1>4, <1>5 DEF Ended
<1>8. ASSUME NEW r \in Requests
      PROVE  /\ IsSeq(out[r]) /\ \A i \in DOMAIN out[r] : SectionShown(r, out[r][i])'
             /\ pc[r] = "start" => Fresh(r)'
  <2>1. \A i \in DOMAIN out[r] : SectionShown(r, out[r][i])'
    BY Zenon, <1>1, <1>7, ShownKept DEF AnswerInv
  <2>2. ASSUME pc[r] = "start" PROVE Fresh(r)'
    <3>1. \A k \in {"arkts", "leak", "heap"} : <<r, k>> \in Fetches /\ fetch[<<r, k>>].at = "none"
      BY Zenon, <2>2 DEF AnswerInv, Fresh, Fetches
    <3>2. \A k \in {"arkts", "leak", "heap"} : <<r, k>> # f
      BY Zenon, <1>4, <3>1
    <3>. QED
      BY ZenonT(60), <1>1, <1>3, <2>2, <3>1, <3>2 DEF AnswerInv, Fresh
  <2>. QED
    BY Zenon, <2>1, <2>2 DEF AnswerInv
<1>. QED
  BY Zenon, <1>1, <1>3, <1>6, <1>8 DEF AnswerInv

\* The places of the other requests are left alone, and the request does not
\* begin again.
BegunOnce(r) ==
    /\ DOMAIN pc' = Requests /\ pc'[r] # "start"
    /\ \A q \in Requests \ {r} : pc'[q] = pc[q]

\* No step lets a request begin twice.
LEMMA Begun ==
    ASSUME Places, NEW r \in Requests, RequestStep(r)
    PROVE  BegunOnce(r)
<1>1. DOMAIN pc = Requests
  BY Zenon DEF Places
<1>2. CASE LoadPlugin(r)
  <2>1. Entry[Kind(r)] # "start"
    BY <1>2 DEF LoadPlugin, Goto, Places, Entry
  <2>. QED
    BY Zenon, <1>1, <1>2, <2>1 DEF LoadPlugin, Goto, BegunOnce
<1>3. CASE UnloadPlugin(r)
  BY Zenon, <1>1, <1>3 DEF UnloadPlugin, Goto, BegunOnce
<1>4. CASE Moved(r)
  BY Zenon, <1>1, <1>4 DEF Moved, Goto, InObject, BegunOnce
<1>. QED
  BY Zenon, <1>2, <1>3, <1>4, OtherMoves

\* Nothing is written and no fetch is touched.
LEMMA QuietKeeps ==
    ASSUME AnswerInv, UNCHANGED <<out, fetches>>, DOMAIN pc' = Requests,
           \A q \in Requests : pc'[q] = "start" => pc[q] = "start"
    PROVE  AnswerInv'
<1>1. fetch' = fetch /\ callback' = callback /\ inTime' = inTime /\ out' = out
  BY Zenon DEF fetches
<1>2. \A f \in Fetches : Answered(f)'
  BY Zenon, <1>1 DEF AnswerInv, Answered
<1>3. \A q \in Requests : /\ IsSeq(out'[q]) /\ \A i \in DOMAIN out'[q] : SectionShown(q, out'[q][i])
                          /\ pc[q] = "start" => Fresh(q)
  BY Zenon DEF AnswerInv
<1>4. \A q \in Requests : \A s : SectionShown(q, s) => SectionShown(q, s)'
  <2>1. ASSUME NEW q \in Requests, NEW s, SectionShown(q, s) PROVE SectionShown(q, s)'
    BY <1>1, <2>1 DEF SectionShown
  <2>. QED
    BY Zenon, <2>1
<1>5. \A q \in Requests : Fresh(q) => Fresh(q)'
  BY Zenon, <1>1 DEF Fresh
<1>. QED
  BY Zenon, <1>1, <1>2, <1>3, <1>4, <1>5 DEF AnswerInv

\* Sections are written that are true.
LEMMA WriteKeeps ==
    ASSUME AnswerInv, NEW r \in Requests, BegunOnce(r), UNCHANGED fetches,
           NEW lines, IsSeq(lines), \A i \in DOMAIN lines : SectionShown(r, lines[i]),
           Write(r, lines)
    PROVE  AnswerInv'
<1>1. UNCHANGED <<fetch, callback, inTime>>
  BY Zenon DEF fetches
<1>2. DOMAIN out' = Requests /\ out'[r] = out[r] \o lines /\ \A q \in Requests \ {r} : out'[q] = out[q]
  BY Zenon DEF Write, AnswerInv
<1>3. /\ IsSeq(out'[r])
      /\ DOMAIN out[r] = 1..Len(out[r]) /\ Len(out[r]) \in Nat
      /\ DOMAIN lines = 1..Len(lines) /\ Len(lines) \in Nat
      /\ DOMAIN out'[r] = 1..(Len(out[r]) + Len(lines))
      /\ \A i \in DOMAIN out'[r] :
           out'[r][i] = IF i \in DOMAIN out[r] THEN out[r][i] ELSE lines[i - Len(out[r])]
  <2>1. IsSeq(out[r])
    BY Zenon DEF AnswerInv
  <2>. QED
    BY <1>2, <2>1, ConcatAny
<1>4. ASSUME NEW i \in DOMAIN out'[r] PROVE SectionShown(r, out'[r][i])
  <2>1. CASE i \in DOMAIN out[r]
    BY Zenon, <1>3, <2>1 DEF AnswerInv
  <2>2. CASE i \notin DOMAIN out[r]
    <3>1. i - Len(out[r]) \in DOMAIN lines
      BY <1>3, <2>2
    <3>. QED
      BY Zenon, <1>3, <2>2, <3>1
  <2>. QED
    BY Zenon, <2>1, <2>2
<1>5. \A q \in Requests : /\ IsSeq(out'[q])
                          /\ \A i \in DOMAIN out'[q] : SectionShown(q, out'[q][i])
  BY ZenonT(60), <1>2, <1>3, <1>4 DEF AnswerInv
<1>6. \A q \in Requests : pc'[q] = "start" => Fresh(q)'
  BY Zenon, <1>1, <1>2 DEF AnswerInv, Fresh, BegunOnce
<1>7. \A q \in Requests : \A s : SectionShown(q, s) => SectionShown(q, s)'
  BY <1>1 DEF SectionShown
<1>. QED
  BY ZenonT(60), <1>1, <1>2, <1>5, <1>6, <1>7 DEF AnswerInv, Answered, BegunOnce

\* One section is a sequence.
LEMMA OneSection ==
    ASSUME NEW s PROVE IsSeq(<<s>>) /\ DOMAIN <<s>> = 1..1 /\ <<s>>[1] = s
<1>1. <<s>> \in Seq({s})
  OBVIOUS
<1>2. IsSeq(<<s>>)
  BY ZenonT(60), <1>1, SeqIsSeq
<1>. QED
  BY <1>2

\* A section about no fetch is true.
LEMMA OtherSection ==
    ASSUME NEW r, NEW s, s.k \notin AnswerKinds
    PROVE  SectionShown(r, s)
  BY Zenon DEF AnswerKinds, SectionShown

\* The dumps that ask no application write about none.
LEMMA DumpKeeps ==
    ASSUME AnswerInv, NEW r \in Requests, BegunOnce(r),
           \/ GetMemSmapsByPid(r) \/ Round(r) \/ GetMemoryInfoInit(r) \/ GetMemoryUsageInfo(r)
           \/ DealResult(r) \/ DealCategories(r) \/ GetMemByPid(r)
    PROVE  AnswerInv'
<1>1. UNCHANGED fetches
  BY Zenon DEF GetMemSmapsByPid, Round, GetMemoryInfoInit, GetMemoryUsageInfo, DealResult,
     DealCategories, GetMemByPid
<1>2. ASSUME NEW s, s.k \notin AnswerKinds, Write(r, <<s>>) PROVE AnswerInv'
  <2>1. \A i \in DOMAIN <<s>> : SectionShown(r, <<s>>[i])
    BY <1>2, OneSection, OtherSection
  <2>. QED
    BY Zenon, <1>1, <1>2, <2>1, OneSection, WriteKeeps
<1>3. ASSUME UNCHANGED out PROVE AnswerInv'
  BY Zenon, <1>1, <1>3, QuietKeeps DEF BegunOnce
<1>4. CASE GetMemSmapsByPid(r)
  <2>1. \/ UNCHANGED out
        \/ \E d, t : Write(r, << [k |-> "smaps", detail |-> d, table |-> t] >>)
    BY Zenon, <1>4 DEF GetMemSmapsByPid
  <2>. QED
    BY Zenon, <1>2, <1>3, <2>1 DEF AnswerKinds
<1>5. CASE Round(r)
  <2>1. \/ UNCHANGED out
        \/ \E n, t : Write(r, << [k |-> "times", times |-> n, lines |-> t] >>)
    BY Zenon, <1>5 DEF Round, RedirectMemoryInfo
  <2>. QED
    BY Zenon, <1>2, <1>3, <2>1 DEF AnswerKinds
<1>6. CASE GetMemoryInfoInit(r)
  <2>1. \E c : Write(r, << [k |-> "title", columns |-> c] >>)
    BY Zenon, <1>6 DEF GetMemoryInfoInit
  <2>. QED
    BY Zenon, <1>2, <2>1 DEF AnswerKinds
<1>7. CASE GetMemoryUsageInfo(r)
  <2>1. UNCHANGED out \/ \E row : Write(r, << [k |-> "PID", row |-> row] >>)
    BY Zenon, <1>7 DEF GetMemoryUsageInfo
  <2>. QED
    BY Zenon, <1>2, <1>3, <2>1 DEF AnswerKinds
<1>8. CASE GetMemByPid(r)
  <2>1. \E d, l : Write(r, << [k |-> "pid", detail |-> d, lines |-> l] >>)
    BY Zenon, <1>8 DEF GetMemByPid
  <2>. QED
    BY Zenon, <1>2, <2>1 DEF AnswerKinds
<1>9. CASE DealResult(r) /\ ~UNCHANGED out
  <2>1. PICK a, b : Write(r, << [k |-> "Size", rows |-> a], [k |-> "adj", rows |-> b] >>)
    BY Zenon, <1>9 DEF DealResult
  <2>. DEFINE s == [k |-> "Size", rows |-> a]
              t == [k |-> "adj", rows |-> b]
  <2>2. Write(r, <<s, t>>) /\ s.k \notin AnswerKinds /\ t.k \notin AnswerKinds
    BY Zenon, <2>1 DEF AnswerKinds
  <2>. HIDE DEF s, t
  <2>3. <<s, t>> \in Seq({s, t}) /\ DOMAIN <<s, t>> = 1..2 /\ <<s, t>>[1] = s /\ <<s, t>>[2] = t
    OBVIOUS
  <2>4. \A i \in DOMAIN <<s, t>> : SectionShown(r, <<s, t>>[i])
    BY <2>2, <2>3, OtherSection
  <2>. QED
    BY Zenon, <1>1, <2>2, <2>3, <2>4, SeqIsSeq, WriteKeeps
<1>10. CASE DealCategories(r)
  <2>1. PICK a, g, m, l, x, y, p :
          Write(r, << [k |-> "category", rows |-> a],
                      [k |-> "ram", groups |-> g, meminfo |-> m, lines |-> l],
                      [k |-> "usage", regs |-> x, lines |-> y],
                      [k |-> "purg", purg |-> p] >>)
    BY ZenonT(60), <1>10 DEF DealCategories
  <2>. DEFINE s == [k |-> "category", rows |-> a]
              t == [k |-> "ram", groups |-> g, meminfo |-> m, lines |-> l]
              u == [k |-> "usage", regs |-> x, lines |-> y]
              v == [k |-> "purg", purg |-> p]
  <2>2. Write(r, <<s, t, u, v>>) /\ \A e \in {s, t, u, v} : e.k \notin AnswerKinds
    BY <2>1 DEF AnswerKinds
  <2>. HIDE DEF s, t, u, v
  <2>3. <<s, t, u, v>> \in Seq({s, t, u, v}) /\ DOMAIN <<s, t, u, v>> = 1..4
    OBVIOUS
  <2>4. \A i \in 1..4 : <<s, t, u, v>>[i].k \notin AnswerKinds
    BY <2>2
  <2>5. \A i \in DOMAIN <<s, t, u, v>> : SectionShown(r, <<s, t, u, v>>[i])
    BY Zenon, <2>3, <2>4, OtherSection
  <2>. QED
    BY Zenon, <1>1, <2>2, <2>3, <2>5, SeqIsSeq, WriteKeeps
<1>. QED
  BY Zenon, <1>3, <1>4, <1>5, <1>6, <1>7, <1>8, <1>9, <1>10

\* What is shown of an application is the result of a fetch that has ended.
LEMMA MergeKeeps ==
    ASSUME AnswerInv, NEW r \in Requests, BegunOnce(r),
           MergeArktsHeapResult(r) \/ MergeLeakThreadResult(r) \/ HeapAfterExecute(r)
    PROVE  AnswerInv'
<1>1. UNCHANGED fetches
  BY Zenon DEF MergeArktsHeapResult, MergeLeakThreadResult, HeapAfterExecute
<1>2. \A k \in {"arkts", "leak", "heap"} :
        /\ <<r, k>> \in Fetches
        /\ fetch[<<r, k>>].at \in Ended => fetch[<<r, k>>].result = inTime[<<r, k>>]
        /\ fetch[<<r, k>>].at # "done" => fetch[<<r, k>>].result = Silence
  BY Zenon DEF AnswerInv, Answered, Fetches
<1>3. ASSUME NEW s, SectionShown(r, s), Write(r, <<s>>) PROVE AnswerInv'
  <2>1. \A i \in DOMAIN <<s>> : SectionShown(r, <<s>>[i])
    BY <1>3, OneSection
  <2>. QED
    BY Zenon, <1>1, <1>3, <2>1, OneSection, WriteKeeps
<1>4. CASE MergeArktsHeapResult(r) /\ ~UNCHANGED out
  <2>. DEFINE s == [k |-> "arktsheap:", data |-> AppendArktsHeapData(fetch[<<r, "arkts">>].result)]
  <2>1. Write(r, <<s>>) /\ fetch[<<r, "arkts">>].at \in Ended
    BY ZenonT(60), <1>4 DEF MergeArktsHeapResult
  <2>2. SectionShown(r, s)
    BY Zenon, <1>2, <2>1 DEF SectionShown
  <2>. QED
    BY Zenon, <1>3, <2>1, <2>2
<1>5. CASE MergeLeakThreadResult(r) /\ ~UNCHANGED out
  <2>. DEFINE s == [k |-> "leakthread:",
                    data |-> IF fetch[<<r, "leak">>].result = Silence THEN <<>>
                             ELSE << fetch[<<r, "leak">>].result >>]
  <2>1. Write(r, <<s>>) /\ fetch[<<r, "leak">>].at \in Ended
    BY Zenon, <1>5 DEF MergeLeakThreadResult
  <2>2. SectionShown(r, s)
    BY ZenonT(60), <1>2, <2>1 DEF SectionShown
  <2>. QED
    BY Zenon, <1>3, <2>1, <2>2
<1>6. CASE HeapAfterExecute(r) /\ ~UNCHANGED out
  <2>1. PICK d : Write(r, << [k |-> "heap", data |-> d] >>)
    BY Zenon, <1>6 DEF HeapAfterExecute
  <2>. DEFINE s == [k |-> "heap", data |-> d]
  <2>2. Write(r, <<s>>) /\ s.k \notin AnswerKinds
    BY <2>1 DEF AnswerKinds
  <2>. HIDE DEF s
  <2>. QED
    BY Zenon, <1>3, <2>2, OtherSection
<1>. QED
  BY Zenon, <1>1, <1>4, <1>5, <1>6, QuietKeeps DEF BegunOnce

\* A fetch is started by a request that begins, before any of its sections.
LEMMA AskKeeps ==
    ASSUME AnswerInv, NEW r \in Requests, BegunOnce(r), StartFetches(r) \/ HeapExecute(r)
    PROVE  AnswerInv'
<1>1. UNCHANGED <<out, callback, inTime>> /\ pc[r] = "start"
  BY Zenon DEF StartFetches, HeapExecute, Goto
<1>2. \A k \in {"arkts", "leak", "heap"} : <<r, k>> \in Fetches /\ fetch[<<r, k>>].at = "none"
  BY Zenon, <1>1 DEF AnswerInv, Fresh, Fetches
<1>3. /\ DOMAIN fetch = Fetches /\ DOMAIN fetch' = Fetches
      /\ \A f \in Fetches : \/ fetch'[f] = fetch[f]
                            \/ /\ fetch'[f] = [fetch[f] EXCEPT !.at = "ask"]
                               /\ f \in {<<r, "arkts">>, <<r, "leak">>, <<r, "heap">>}
  BY Zenon DEF AnswerInv, StartFetches, HeapExecute
<1>4. ASSUME NEW f \in Fetches
      PROVE  Answered(f)' /\ (fetch[f].at \in Ended => fetch'[f] = fetch[f])
  <2>1. Answered(f)
    BY ZenonT(60) DEF AnswerInv
  <2>2. CASE fetch'[f] = fetch[f]
    BY Zenon, <1>1, <2>1, <2>2 DEF Answered
  <2>3. CASE fetch'[f] # fetch[f]
    <3>1. fetch'[f] = [fetch[f] EXCEPT !.at = "ask"] /\ fetch[f].at = "none"
      BY Zenon, <1>2, <1>3, <2>3
    <3>. QED
      BY Zenon, <1>1, <2>1, <3>1 DEF Answered, Ended
  <2>. QED
    BY Zenon, <2>2, <2>3
<1>5. \A q \in Requests : \A i \in DOMAIN out[q] : SectionShown(q, out[q][i])'
  BY Zenon, <1>1, <1>4, ShownKept DEF AnswerInv
<1>6. ASSUME NEW q \in Requests, pc'[q] = "start" PROVE Fresh(q)'
  <2>1. q # r /\ Fresh(q)
    BY Zenon, <1>6 DEF BegunOnce, AnswerInv
  <2>2. \A k \in {"arkts", "leak", "heap"} : <<q, k>> \in Fetches /\ fetch'[<<q, k>>] = fetch[<<q, k>>]
    BY Zenon, <1>3, <2>1 DEF Fetches
  <2>. QED
    BY Zenon, <1>1, <2>1, <2>2 DEF Fresh
<1>. QED
  BY Zenon, <1>1, <1>3, <1>4, <1>5, <1>6 DEF AnswerInv, BegunOnce

\* Every step keeps the invariant.
LEMMA AnswerStep == PluginInv /\ AnswerInv /\ [Next]_vars => AnswerInv'
<1>. SUFFICES ASSUME PluginInv, AnswerInv, [Next]_vars PROVE AnswerInv'
  BY Zenon
<1>1. ASSUME NEW r \in Requests, RequestStep(r) PROVE AnswerInv'
  <2>1. BegunOnce(r)
    BY Zenon, <1>1, Begun DEF PluginInv
  <2>2. CASE \/ LoadPlugin(r) \/ UnloadPlugin(r) \/ LibraryMissing(r) \/ Execute(r) \/ Join(r)
             \/ SetReceivedSigInt(r) \/ TimeIntervalBegins(r) \/ LoopEnds(r) \/ Rearm(r)
             \/ PruneEnds(r)
    <3>1. UNCHANGED <<out, fetches>>
      BY Zenon, <2>2 DEF LoadPlugin, UnloadPlugin, LibraryMissing, Execute, Join, SetReceivedSigInt,
         TimeIntervalBegins, LoopEnds, Rearm, PruneEnds
    <3>. QED
      BY Zenon, <2>1, <3>1, QuietKeeps DEF BegunOnce
  <2>. QED
    BY Zenon, <1>1, <2>1, <2>2, DumpKeeps, MergeKeeps, AskKeeps DEF RequestStep
<1>2. ASSUME UNCHANGED <<pc, out, fetches>> PROVE AnswerInv'
  <2>1. DOMAIN pc' = Requests /\ pc' = pc
    BY Zenon, <1>2 DEF AnswerInv
  <2>. QED
    BY Zenon, <1>2, <2>1, QuietKeeps
<1>3. ASSUME NEW r \in Requests, CollectorStep(r) PROVE AnswerInv'
  BY Zenon, <1>2, <1>3 DEF CollectorStep, CollectorCopies, GetSmapsInfoNoPid, CollectorSets
<1>4. CASE UNCHANGED vars
  BY Zenon, <1>2, <1>4 DEF vars
<1>. QED
  BY Zenon, <1>1, <1>3, <1>4, FetchKeeps DEF Next, ThreadStep

\* What a heap dump asked: one that waits is for leaked objects, and one that
\* does not is never answered.
HeapAsked(r) ==
    LET f == <<r, "heap">>
    IN  /\ info[r].opts.isSync <=> Kind(r) = "heap" /\ info[r].opts.needLeakobj
        /\ ~info[r].opts.isSync => fetch[f].at \notin {"none", "wait", "timeout"}
                                   /\ fetch[f].result = Silence

\* The line of a heap dump that is done.
HeapLine(r) ==
    IF inTime[<<r, "heap">>] = Silence THEN <<>>
    ELSE << [k |-> "heap", data |-> << inTime[<<r, "heap">>] >>] >>

\* A heap dump writes nothing but its line, when its fetch has ended.
HeapShown(r) ==
    /\ pc[r] \in {"start", "heap", "done"}
    /\ pc[r] # "done" => out[r] = <<>>
    /\ pc[r] # "start" => HeapAsked(r)
    /\ pc[r] = "done" => fetch[<<r, "heap">>].at \in Ended /\ out[r] = HeapLine(r)

HeapInv ==
    /\ DOMAIN info = Requests
    /\ \A r \in Requests : "opts" \in DOMAIN info[r]
    /\ \A r \in Requests : Kind(r) \in HeapKinds => HeapShown(r)

\* No heap dump has begun at the start.
LEMMA HeapInit == Init => HeapInv
<1>. SUFFICES ASSUME Init PROVE HeapInv
  BY Zenon
<1>1. "opts" \in DOMAIN NoInfo
  BY ZenonT(60) DEF NoInfo
<1>2. \A r \in Requests : Kind(r) \in HeapKinds => pc[r] = "start" /\ out[r] = <<>>
  BY Zenon DEF Init, Kind, HeapKinds
<1>. QED
  BY Zenon, <1>1, <1>2 DEF Init, HeapInv, HeapShown

\* The fetches of other requests, and what a fetch that has ended got, are left
\* alone by the other steps.
LEMMA HeapKept ==
    ASSUME HeapInv, scenario' = scenario, DOMAIN info' = Requests,
           \A q \in Requests : "opts" \in DOMAIN info'[q],
           \A q \in Requests : Kind(q) \in HeapKinds =>
               /\ pc'[q] = pc[q] /\ out'[q] = out[q] /\ info'[q].opts = info[q].opts
               /\ fetch'[<<q, "heap">>] = fetch[<<q, "heap">>]
               /\ inTime'[<<q, "heap">>] = inTime[<<q, "heap">>]
    PROVE  HeapInv'
<1>1. ASSUME NEW q \in Requests, Kind(q) \in HeapKinds PROVE HeapShown(q)'
  <2>1. /\ pc'[q] = pc[q] /\ out'[q] = out[q] /\ info'[q].opts = info[q].opts
        /\ fetch'[<<q, "heap">>] = fetch[<<q, "heap">>]
        /\ inTime'[<<q, "heap">>] = inTime[<<q, "heap">>] /\ Kind(q)' = Kind(q)
    BY Zenon, <1>1 DEF Kind
  <2>2. HeapShown(q)
    BY Zenon, <1>1 DEF HeapInv
  <2>3. HeapLine(q)' = HeapLine(q)
    BY ZenonT(60), <2>1 DEF HeapLine
  <2>4. HeapAsked(q) => HeapAsked(q)'
    BY ZenonT(60), <2>1 DEF HeapAsked
  <2>. QED
    BY ZenonT(60), <2>1, <2>2, <2>3, <2>4 DEF HeapShown
<1>. QED
  BY Zenon, <1>1 DEF HeapInv, Kind

\* The thread of a fetch of a heap dump and the answer to it.
LEMMA HeapFetchKeeps ==
    ASSUME AnswerInv, HeapInv, NEW f \in Fetches, DumpMem(f) \/ WaitForResult(f) \/ OnMemDumpDone(f)
    PROVE  HeapInv'
<1>1. UNCHANGED <<scenario, pc, out, info>>
  BY Zenon DEF DumpMem, WaitForResult, OnMemDumpDone, object
<1>2. \A g \in Fetches \ {f} : fetch'[g] = fetch[g] /\ inTime'[g] = inTime[g]
  BY Zenon DEF DumpMem, WaitForResult, OnMemDumpDone, AnswerInv
<1>3. ASSUME NEW q \in Requests, Kind(q) \in HeapKinds PROVE HeapShown(q)'
  <2>. DEFINE g == <<q, "heap">>
  <2>1. HeapShown(q) /\ g \in Fetches /\ Answered(g) /\ DOMAIN fetch = Fetches /\ DOMAIN inTime = Fetches
    BY Zenon, <1>3 DEF HeapInv, AnswerInv, Fetches
  <2>2. Kind(q)' = Kind(q) /\ pc'[q] = pc[q] /\ out'[q] = out[q] /\ info'[q] = info[q]
    BY Zenon, <1>1 DEF Kind
  <2>3. pc[q] = "done" => fetch'[g].at \in Ended /\ inTime'[g] = inTime[g]
    <3>1. ASSUME pc[q] = "done", g = f PROVE fetch'[g].at \in Ended /\ inTime'[g] = inTime[g]
      <4>1. fetch[f].at \in Ended
        BY Zenon, <2>1, <3>1 DEF HeapShown
      <4>. QED
        BY Zenon, <2>1, <3>1, <4>1 DEF DumpMem, WaitForResult, WaitEnds, OnMemDumpDone, Ended
    <3>. QED
      BY Zenon, <1>2, <2>1, <3>1 DEF HeapShown
  <2>4. HeapLine(q)' = IF inTime'[g] = Silence THEN <<>>
                       ELSE << [k |-> "heap", data |-> << inTime'[g] >>] >>
    BY Zenon DEF HeapLine
  <2>5. pc[q] # "start" => HeapAsked(q)'
    <3>1. CASE g # f
      BY Zenon, <1>2, <2>1, <2>2, <3>1 DEF HeapShown, HeapAsked
    <3>2. ASSUME g = f, pc[q] # "start", ~info[q].opts.isSync
          PROVE  fetch'[f].at \notin {"none", "wait", "timeout"} /\ fetch'[f].result = Silence
      <4>1. fetch[f].at \notin {"none", "wait", "timeout"} /\ fetch[f].result = Silence
        BY Zenon, <2>1, <3>2 DEF HeapShown, HeapAsked
      <4>2. DumpMem(f)
        BY Zenon, <4>1 DEF WaitForResult, WaitEnds, OnMemDumpDone
      <4>3. ~IsSync(f)
        BY <3>2 DEF IsSync
      <4>4. fetch' = [fetch EXCEPT ![f].at = "refused"] \/ fetch' = [fetch EXCEPT ![f].at = "done"]
        BY Zenon, <4>2, <4>3 DEF DumpMem
      <4>. QED
        BY <2>1, <3>2, <4>1, <4>4 DEF Answered
    <3>3. pc[q] # "start" => (info[q].opts.isSync <=> Kind(q) = "heap" /\ info[q].opts.needLeakobj)
      BY Zenon, <2>1 DEF HeapShown, HeapAsked
    <3>. QED
      BY Zenon, <2>2, <3>1, <3>2, <3>3 DEF HeapAsked
  <2>. QED
    BY Zenon, <2>1, <2>2, <2>3, <2>4, <2>5 DEF HeapShown, HeapLine
<1>. QED
  BY Zenon, <1>1, <1>3 DEF HeapInv, Kind

\* A heap dump begins: what it asks follows from its options, and only a native
\* heap has leaked objects to list.
LEMMA HeapBegins ==
    ASSUME AnswerInv, HeapInv, NEW r \in Requests, HeapExecute(r)
    PROVE  HeapInv'
<1>1. /\ UNCHANGED <<scenario, out, inTime>> /\ pc[r] = "start" /\ Kind(r) \in HeapKinds
      /\ DOMAIN pc = Requests /\ DOMAIN info = Requests /\ DOMAIN fetch = Fetches
      /\ <<r, "heap">> \in Fetches /\ Answered(<<r, "heap">>) /\ "opts" \in DOMAIN info[r]
      /\ fetch[<<r, "heap">>].at = "none"
  BY Zenon DEF HeapExecute, Goto, AnswerInv, HeapInv, Fetches, Fresh
<1>2. /\ pc' = [pc EXCEPT ![r] = "heap"] /\ fetch' = [fetch EXCEPT ![<<r, "heap">>].at = "ask"]
  BY Zenon DEF HeapExecute, Goto
<1>3. PICK o \in HeapOpts :
         info' = [info EXCEPT ![r].opts = CASE Kind(r) = "heap"   -> HeapInfo(o)
                                            [] Kind(r) = "jsheap" -> JsHeapInfo(o)
                                            [] Kind(r) = "cjheap" -> CjHeapInfo(o)]
  BY Zenon DEF HeapExecute
<1>4. info'[r].opts = CASE Kind(r) = "heap"   -> HeapInfo(o)
                        [] Kind(r) = "jsheap" -> JsHeapInfo(o)
                        [] Kind(r) = "cjheap" -> CjHeapInfo(o)
  BY Zenon, <1>1, <1>3
<1>5. info'[r].opts.isSync <=> Kind(r) = "heap" /\ info'[r].opts.needLeakobj
  <2>1. CASE Kind(r) = "heap"
    <3>1. info'[r].opts = HeapInfo(o)
      BY <1>4, <2>1
    <3>2. o.leakobj => DetermineDumpType(o) = "NATIVE"
      <4>1. o.leakobj => o.types = {"native"}
        BY Zenon, HeapOptsAssumption
      <4>. QED
        BY <4>1 DEF DetermineDumpType
    <3>3. /\ HeapInfo(o).isSync = (DetermineDumpType(o) = "NATIVE" /\ o.leakobj)
          /\ HeapInfo(o).needLeakobj = o.leakobj
      BY Zenon DEF HeapInfo
    <3>. QED
      BY Zenon, <2>1, <3>1, <3>2, <3>3
  <2>2. CASE Kind(r) = "jsheap"
    <3>1. info'[r].opts = JsHeapInfo(o)
      BY <1>4, <2>2
    <3>. QED
      BY <2>2, <3>1 DEF JsHeapInfo
  <2>3. CASE Kind(r) = "cjheap"
    <3>1. info'[r].opts = CjHeapInfo(o)
      BY <1>4, <2>3
    <3>. QED
      BY <2>3, <3>1 DEF CjHeapInfo
  <2>. QED
    BY Zenon, <1>1, <2>1, <2>2, <2>3 DEF HeapKinds
<1>6. fetch'[<<r, "heap">>].at = "ask" /\ fetch'[<<r, "heap">>].result = Silence
  BY <1>1, <1>2 DEF Answered
<1>7. pc'[r] = "heap" /\ Kind(r)' = Kind(r) /\ out'[r] = <<>>
  BY Zenon, <1>1, <1>2 DEF Kind, HeapInv, HeapShown
<1>8. HeapShown(r)'
  BY Zenon, <1>5, <1>6, <1>7 DEF HeapShown, HeapAsked
<1>9. /\ DOMAIN info' = Requests /\ \A q \in Requests : "opts" \in DOMAIN info'[q]
      /\ \A q \in Requests \ {r} : info'[q] = info[q] /\ pc'[q] = pc[q]
  BY Zenon, <1>1, <1>2, <1>3 DEF HeapInv
<1>10. \A q \in Requests \ {r} : fetch'[<<q, "heap">>] = fetch[<<q, "heap">>]
  <2>1. \A q \in Requests \ {r} : <<q, "heap">> # <<r, "heap">> /\ <<q, "heap">> \in Fetches
    BY Zenon DEF Fetches
  <2>. QED
    BY Zenon, <1>1, <1>2, <2>1
<1>11. ASSUME NEW q \in Requests \ {r}, Kind(q) \in HeapKinds PROVE HeapShown(q)'
  <2>1. HeapShown(q)
    BY Zenon, <1>11 DEF HeapInv
  <2>2. HeapAsked(q) => HeapAsked(q)'
    BY ZenonT(60), <1>1, <1>9, <1>10 DEF HeapAsked, Kind
  <2>3. HeapLine(q)' = HeapLine(q) /\ pc'[q] = pc[q] /\ out'[q] = out[q]
    BY Zenon, <1>1, <1>9 DEF HeapLine
  <2>. QED
    BY ZenonT(60), <1>10, <2>1, <2>2, <2>3 DEF HeapShown
<1>. QED
  BY Zenon, <1>1, <1>8, <1>9, <1>11 DEF HeapInv, Kind

\* A heap dump is done: it writes the answer it waited for, or nothing.
LEMMA HeapEnds ==
    ASSUME AnswerInv, HeapInv, NEW r \in Requests, Kind(r) \in HeapKinds, HeapAfterExecute(r)
    PROVE  HeapInv'
<1>. DEFINE f == <<r, "heap">>
<1>1. /\ UNCHANGED <<scenario, info, fetch, inTime>> /\ pc[r] = "heap" /\ fetch[f].at \in Ended
      /\ DOMAIN pc = Requests /\ DOMAIN out = Requests /\ pc' = [pc EXCEPT ![r] = "done"]
  BY Zenon DEF HeapAfterExecute, Goto, AnswerInv, object, fetches
<1>2. out[r] = <<>> /\ HeapAsked(r)
  BY Zenon, <1>1 DEF HeapInv, HeapShown
<1>3. fetch[f].result = inTime[f] /\ (fetch[f].at # "done" => fetch[f].result = Silence)
  BY Zenon, <1>1 DEF AnswerInv, Answered, Fetches
<1>4. out'[r] = HeapLine(r)
  <2>. DEFINE executed == fetch[f].at = "done" /\ (info[r].opts.isSync => fetch[f].result # Silence)
              shown == executed /\ Kind(r) = "heap" /\ info[r].opts.needLeakobj
  <2>1. shown <=> inTime[f] # Silence
    BY Zenon, <1>2, <1>3 DEF HeapAsked
  <2>2. CASE inTime[f] # Silence
    <3>1. Write(r, << [k |-> "heap", data |-> << inTime[f] >>] >>)
      BY Zenon, <1>3, <2>1, <2>2 DEF HeapAfterExecute
    <3>2. out'[r] = <<>> \o << [k |-> "heap", data |-> << inTime[f] >>] >>
      BY Zenon, <1>1, <1>2, <3>1 DEF Write
    <3>. PICK s : s = [k |-> "heap", data |-> << inTime[f] >>]
      BY Zenon
    <3>3. <<>> \o <<s>> = <<s>>
      OBVIOUS
    <3>. QED
      BY Zenon, <2>2, <3>2, <3>3 DEF HeapLine
  <2>3. CASE inTime[f] = Silence
    BY Zenon, <1>2, <2>1, <2>3 DEF HeapAfterExecute, HeapLine
  <2>. QED
    BY Zenon, <2>2, <2>3
<1>5. \A q \in Requests \ {r} : pc'[q] = pc[q] /\ out'[q] = out[q]
  BY Zenon, <1>1 DEF HeapAfterExecute, Write
<1>6. \A q \in Requests : /\ Kind(q)' = Kind(q) /\ (HeapAsked(q) => HeapAsked(q)')
                          /\ HeapLine(q)' = HeapLine(q)
  BY ZenonT(60), <1>1 DEF Kind, HeapAsked, HeapLine
<1>7. HeapShown(r)'
  BY Zenon, <1>1, <1>2, <1>4, <1>6 DEF HeapShown
<1>8. ASSUME NEW q \in Requests \ {r}, Kind(q) \in HeapKinds PROVE HeapShown(q)'
  BY ZenonT(60), <1>1, <1>5, <1>6, <1>8 DEF HeapInv, HeapShown
<1>. QED
  BY Zenon, <1>1, <1>6, <1>7, <1>8 DEF HeapInv

\* A request that is no heap dump changes the members of its own object only.
LEMMA OwnMembers ==
    ASSUME HeapInv, NEW r \in Requests, RequestStep(r)
    PROVE  /\ DOMAIN info' = Requests /\ \A q \in Requests : "opts" \in DOMAIN info'[q]
           /\ \A q \in Requests \ {r} : info'[q] = info[q]
<1>1. DOMAIN info = Requests /\ \A q \in Requests : "opts" \in DOMAIN info[q]
  BY Zenon DEF HeapInv
<1>2. ASSUME NEW x, \/ info' = [info EXCEPT ![r].opts = x]
                   \/ info' = [info EXCEPT ![r].mem = x]
                   \/ info' = [info EXCEPT ![r].meminfo = x]
                   \/ info' = [info EXCEPT ![r].pids = x]
                   \/ UNCHANGED info
      PROVE  /\ DOMAIN info' = Requests /\ \A q \in Requests : "opts" \in DOMAIN info'[q]
             /\ \A q \in Requests \ {r} : info'[q] = info[q]
  BY Zenon, <1>1, <1>2
<1>3. CASE \/ StartFetches(r) \/ GetMemByPid(r) \/ DealResult(r) \/ HeapExecute(r)
           \/ GetMemoryInfoInit(r)
  <2>1. \E x : \/ info' = [info EXCEPT ![r].opts = x]
              \/ info' = [info EXCEPT ![r].mem = x]
              \/ info' = [info EXCEPT ![r].meminfo = x]
              \/ info' = [info EXCEPT ![r].pids = x]
              \/ UNCHANGED info
    BY Zenon, <1>3 DEF StartFetches, GetMemByPid, DealResult, HeapExecute, GetMemoryInfoInit
  <2>. QED
    BY Zenon, <1>2, <2>1
<1>4. CASE Round(r)
  <2>1. PICK x, y, z :
          info' = [info EXCEPT ![r].mem = x, ![r].pssValues = y, ![r].prevLineCount = z]
    BY Zenon, <1>4 DEF Round
  <2>. QED
    BY Zenon, <1>1, <2>1
<1>5. CASE GetMemoryUsageInfo(r)
  <2>. DEFINE pid == Head(info[r].pids)
              usage(source) == GetMemByProcessPid(info[r].usage, pid, source, Kind(r) = "prune")
              rows(source) == IF source.own = Bad THEN info[r].memUsages_
                              ELSE Append(info[r].memUsages_, usage(source))
              failed(source) == info[r].failed \cup
                  { <<pid, part>> : part \in { p \in {"gl", "graph"} : source[p] = Bad } }
  <2>1. PICK source \in Readings(pid) :
             info' = [info EXCEPT ![r].pids = Tail(@), ![r].usage = usage(source),
                                  ![r].memUsages_ = rows(source), ![r].failed = failed(source)]
    BY Zenon, <1>5 DEF GetMemoryUsageInfo
  <2>. HIDE DEF usage, rows, failed
  <2>. QED
    BY Zenon, <1>1, <2>1
<1>6. CASE ~(\/ StartFetches(r) \/ GetMemByPid(r) \/ DealResult(r) \/ HeapExecute(r)
             \/ GetMemoryInfoInit(r) \/ Round(r) \/ GetMemoryUsageInfo(r))
  <2>1. UNCHANGED info
    BY Zenon, <1>6 DEF RequestStep, LoadPlugin, UnloadPlugin, LibraryMissing, Execute, Join,
       GetMemSmapsByPid, SetReceivedSigInt, TimeIntervalBegins, LoopEnds, Rearm, PruneEnds,
       DealCategories, MergeArktsHeapResult, MergeLeakThreadResult, HeapAfterExecute, object
  <2>. QED
    BY Zenon, <1>2, <2>1
<1>. QED
  BY Zenon, <1>3, <1>4, <1>5, <1>6

\* The steps of the other requests leave the heap dumps alone.
LEMMA OthersKeepHeap ==
    ASSUME PluginInv, AnswerInv, HeapInv, NEW r \in Requests, RequestStep(r), ~HeapExecute(r),
           ~(Kind(r) \in HeapKinds /\ HeapAfterExecute(r))
    PROVE  HeapInv'
<1>1. Kind(r) \notin HeapKinds
  <2>. SUFFICES ASSUME Kind(r) \in HeapKinds PROVE FALSE
    BY Zenon
  <2>1. pc[r] \in {"start", "heap", "done"} /\ ~HeapAfterExecute(r)
    BY Zenon DEF HeapInv, HeapShown
  <2>2. Kind(r) \notin DOMAIN Entry \cup {"sigint", "repeat", "smaps", "all", "prune", "pid"}
    BY DEF Entry, HeapKinds
  <2>. QED
    BY Zenon, <2>1, <2>2 DEF RequestStep, LoadPlugin, UnloadPlugin, LibraryMissing, Execute,
       StartFetches, Join, GetMemSmapsByPid, SetReceivedSigInt, TimeIntervalBegins, Round, LoopEnds,
       Rearm, GetMemoryInfoInit, GetMemoryUsageInfo, PruneEnds, DealResult, DealCategories,
       GetMemByPid, MergeArktsHeapResult, MergeLeakThreadResult, Goto
<1>2. scenario' = scenario /\ inTime' = inTime
  BY Zenon DEF RequestStep, LoadPlugin, UnloadPlugin, LibraryMissing, Execute, StartFetches, Join,
     GetMemSmapsByPid, SetReceivedSigInt, TimeIntervalBegins, Round, LoopEnds, Rearm,
     GetMemoryInfoInit, GetMemoryUsageInfo, PruneEnds, DealResult, DealCategories, GetMemByPid,
     MergeArktsHeapResult, MergeLeakThreadResult, HeapAfterExecute, fetches
<1>3. \A q \in Requests \ {r} : pc'[q] = pc[q]
  BY Zenon, Begun DEF PluginInv, BegunOnce
<1>4. UNCHANGED out \/ \E lines : Write(r, lines)
  BY Zenon DEF RequestStep, LoadPlugin, UnloadPlugin, LibraryMissing, Execute, StartFetches, Join,
     GetMemSmapsByPid, SetReceivedSigInt, TimeIntervalBegins, Round, RedirectMemoryInfo, LoopEnds,
     Rearm, GetMemoryInfoInit, GetMemoryUsageInfo, PruneEnds, DealResult, DealCategories,
     GetMemByPid, MergeArktsHeapResult, MergeLeakThreadResult, HeapAfterExecute
<1>5. \A q \in Requests \ {r} : out'[q] = out[q]
  BY Zenon, <1>4 DEF Write, AnswerInv
<1>6. \A q \in Requests : fetch'[<<q, "heap">>] = fetch[<<q, "heap">>]
  <2>1. CASE StartFetches(r)
    <3>1. \A q \in Requests : /\ <<q, "heap">> \in Fetches /\ <<q, "heap">> # <<r, "arkts">>
                              /\ <<q, "heap">> # <<r, "leak">>
      BY Zenon DEF Fetches
    <3>. QED
      BY Zenon, <2>1, <3>1 DEF StartFetches
  <2>2. CASE ~StartFetches(r)
    BY Zenon, <2>2 DEF RequestStep, LoadPlugin, UnloadPlugin, LibraryMissing, Execute, Join,
       GetMemSmapsByPid, SetReceivedSigInt, TimeIntervalBegins, Round, LoopEnds, Rearm,
       GetMemoryInfoInit, GetMemoryUsageInfo, PruneEnds, DealResult, DealCategories, GetMemByPid,
       MergeArktsHeapResult, MergeLeakThreadResult, HeapAfterExecute, fetches
  <2>. QED
    BY Zenon, <2>1, <2>2
<1>7. /\ DOMAIN info' = Requests /\ \A q \in Requests : "opts" \in DOMAIN info'[q]
      /\ \A q \in Requests \ {r} : info'[q] = info[q]
  BY Zenon, OwnMembers
<1>8. \A q \in Requests : Kind(q) \in HeapKinds =>
        /\ pc'[q] = pc[q] /\ out'[q] = out[q] /\ info'[q].opts = info[q].opts
        /\ fetch'[<<q, "heap">>] = fetch[<<q, "heap">>]
        /\ inTime'[<<q, "heap">>] = inTime[<<q, "heap">>]
  BY Zenon, <1>1, <1>2, <1>3, <1>5, <1>6, <1>7
<1>. QED
  BY Zenon, <1>2, <1>7, <1>8, HeapKept

\* Every step keeps the invariant.
LEMMA HeapStep == PluginInv /\ AnswerInv /\ HeapInv /\ [Next]_vars => HeapInv'
<1>. SUFFICES ASSUME PluginInv, AnswerInv, HeapInv, [Next]_vars PROVE HeapInv'
  BY Zenon
<1>1. ASSUME NEW r \in Requests, RequestStep(r), ~HeapExecute(r),
             ~(Kind(r) \in HeapKinds /\ HeapAfterExecute(r))
      PROVE  HeapInv'
  BY Zenon, <1>1, OthersKeepHeap
<1>2. ASSUME UNCHANGED <<scenario, pc, out, info, fetch, inTime>> PROVE HeapInv'
  BY Zenon, <1>2, HeapKept DEF HeapInv
<1>3. ASSUME NEW r \in Requests, CollectorStep(r) PROVE HeapInv'
  BY Zenon, <1>2, <1>3 DEF CollectorStep, CollectorCopies, GetSmapsInfoNoPid, CollectorSets, object, fetches
<1>4. CASE UNCHANGED vars
  BY Zenon, <1>2, <1>4 DEF vars, object, fetches
<1>. QED
  BY Zenon, <1>1, <1>3, <1>4, HeapBegins, HeapEnds, HeapFetchKeeps DEF Next, ThreadStep

\* AnswersShown for any number of requests and whatever the applications answer,
\* and when: what a dump shows of an application is the answer that came while
\* the fetch waited, and a late answer changes nothing; a heap dump shows the
\* answer it waited for and nothing else.
THEOREM AnswersTheorem == Spec => []AnswersShown
<1>1. AnswerInv /\ HeapInv => AnswersShown
  <2>1. AnswerInv => \A r \in Requests :
          /\ \A i \in Sections(r, "leakthread:") :
               out[r][i].data = IF inTime[<<r, "leak">>] = Silence THEN <<>>
                                ELSE << inTime[<<r, "leak">>] >>
          /\ \A i \in Sections(r, "arktsheap:") :
               out[r][i].data = AppendArktsHeapData(inTime[<<r, "arkts">>])
    BY Zenon DEF AnswerInv, SectionShown, Sections
  <2>2. HeapInv => \A r \in Requests :
          Kind(r) \in HeapKinds /\ pc[r] = "done" => out[r] = HeapLine(r)
    BY Zenon DEF HeapInv, HeapShown
  <2>. QED
    BY Zenon, <2>1, <2>2 DEF AnswersShown, HeapLine
<1>. QED
  BY <1>1, PluginInit, PluginStep, AnswerInit, AnswerStep, HeapInit, HeapStep, PTL DEF Spec

(***************************************************************************)
(* The rows of the processes.                                              *)
(***************************************************************************)
\* Places in a sequence have a last one.
LEMMA MaxIsGreatest ==
  ASSUME NEW n \in Nat, NEW places, places \subseteq 1..n, places # {}
  PROVE  Max(places) \in places
<1>. DEFINE T == {n - i : i \in places}
<1>1. T \subseteq Nat /\ T # {}
  <2>1. \A i \in 1..n : n - i \in Nat
    OBVIOUS
  <2>2. \A i \in places : n - i \in Nat
    BY Zenon, <2>1
  <2>. QED
    BY Zenon, <2>2
<1>2. PICK x \in T : \A y \in T : ~(<<y, x>> \in OpToRel(<, Nat))
  BY Zenon, <1>1, NatLessThanWellFounded, WFMin
<1>3. PICK m \in places : x = n - m
  BY Zenon
<1>4. ASSUME NEW i \in places PROVE m >= i
  <2>1. n - i \in Nat /\ x \in Nat /\ n - i \in T /\ i \in Int /\ m \in Int
    BY <1>1
  <2>2. ~(n - i < x)
    BY Zenon, <1>2, <2>1 DEF OpToRel
  <2>. QED
    BY <1>3, <2>1, <2>2
<1>. QED
  BY Zenon, <1>4 DEF Max

\* The figures of a rollup are numbers.
LEMMA RollupIsNumbers ==
  ASSUME NEW lines \in Rollups
  PROVE  /\ GetMemInfo(lines).rss \in Nat /\ GetMemInfo(lines).pss \in Nat
         /\ GetMemInfo(lines).swapPss \in Nat
         /\ GetMemInfo(lines).privateClean \in Nat /\ GetMemInfo(lines).privateDirty \in Nat
<1>. USE DEF Rollups
<1>. DEFINE of(type) == {i \in DOMAIN lines : lines[i][1] = type}
            value(type) == IF of(type) = {} THEN 0 ELSE lines[Max(of(type))][2]
<1>1. ASSUME NEW type PROVE value(type) \in Nat
  <2>1. DOMAIN lines = 1..Len(lines) /\ Len(lines) \in Nat
    BY Zenon, LenProperties
  <2>2. CASE of(type) # {}
    <3>1. Max(of(type)) \in of(type)
      BY ZenonT(60), <2>1, <2>2, MaxIsGreatest
    <3>2. Max(of(type)) \in DOMAIN lines
      BY Zenon, <3>1
    <3>3. lines[Max(of(type))] \in STRING \X Nat
      BY Zenon, <2>1, <3>2, ElementOfSeq
    <3>. QED
      BY Zenon, <2>2, <3>3
  <2>. QED
    BY Zenon, <2>2
<1>. HIDE DEF value
<1>2. GetMemInfo(lines) = [rss |-> value("Rss"), pss |-> value("Pss"), swapPss |-> value("SwapPss"),
         privateClean |-> value("Private_Clean"), privateDirty |-> value("Private_Dirty")]
  BY ZenonT(60) DEF GetMemInfo, value
<1>. QED
  BY <1>1, <1>2

UsageMembers == {"pid", "vss", "rss", "uss", "pss", "swapPss", "gl", "graph", "dma", "adjLabel"}

\* The figures of a row, from what was read of its process.
Figures(u, pid, source, prune) ==
    LET own   == GetMemInfo(source.own)
        gl    == IF source.gl = Bad THEN 0 ELSE source.gl
        graph == IF prune \/ source.graph = Bad THEN 0 ELSE source.graph
    IN  /\ u.pid = pid /\ u.pss = own.pss + gl + graph /\ u.swapPss = own.swapPss
        /\ ~prune => /\ u.uss = own.privateClean + own.privateDirty + gl + graph
                     /\ u.rss = own.rss + gl + graph /\ u.vss = GetVss(source)

\* Whatever is left in the usage that is used again, the figures a row shows are
\* those of the process whose rollup was read.
LEMMA RowComputed ==
  ASSUME NEW usage, UsageMembers \subseteq DOMAIN usage, NEW pid, NEW source, NEW prune \in BOOLEAN,
         source.own # Bad, source.own \in Rollups,
         source.gl \in Nat \cup {Bad}, source.graph \in Nat \cup {Bad}
  PROVE  Figures(GetMemByProcessPid(usage, pid, source, prune), pid, source, prune)
<1>. PICK own, gl, graph : /\ own = GetMemInfo(source.own)
                           /\ gl = IF source.gl = Bad THEN 0 ELSE source.gl
                           /\ graph = IF prune \/ source.graph = Bad THEN 0 ELSE source.graph
  BY Zenon
<1>1. /\ own.rss \in Nat /\ own.pss \in Nat
      /\ own.privateClean \in Nat /\ own.privateDirty \in Nat
  BY Zenon, RollupIsNumbers
<1>. PICK a : a = FromRollup(usage, pid, source, prune)
  BY Zenon
<1>2. /\ UsageMembers \subseteq DOMAIN a
      /\ a.pid = pid /\ a.pss = own.pss /\ a.swapPss = own.swapPss
      /\ ~prune => /\ a.uss = own.privateClean + own.privateDirty
                   /\ a.rss = own.rss /\ a.vss = GetVss(source)
  BY Zenon DEF FromRollup, UsageMembers
<1>. PICK b : b = FromGL(a, source, prune)
  BY Zenon
<1>3. /\ UsageMembers \subseteq DOMAIN b
      /\ b.pid = pid /\ b.pss = own.pss + gl /\ b.swapPss = own.swapPss
      /\ ~prune => /\ b.uss = own.privateClean + own.privateDirty + gl
                   /\ b.rss = own.rss + gl /\ b.vss = GetVss(source)
  BY <1>1, <1>2 DEF FromGL, UsageMembers
<1>. PICK u : u = FromGraph(b, source, prune)
  BY Zenon
<1>4. /\ u.pid = pid /\ u.pss = own.pss + gl + graph /\ u.swapPss = own.swapPss
      /\ ~prune => /\ u.uss = own.privateClean + own.privateDirty + gl + graph
                   /\ u.rss = own.rss + gl + graph /\ u.vss = GetVss(source)
  BY <1>1, <1>3 DEF FromGraph, UsageMembers
<1>5. Figures(u, pid, source, prune)
  BY Zenon, <1>4 DEF Figures
<1>. QED
  BY Zenon, <1>5 DEF GetMemByProcessPid

\* The graphics columns are those that were read, and the others stay.
Carried(u, usage, source, prune) ==
    /\ source.gl = Bad => u.gl = usage.gl
    /\ source.gl # Bad => u.gl = source.gl
    /\ prune \/ source.graph = Bad => u.graph = usage.graph /\ u.dma = usage.dma
    /\ ~prune /\ source.graph # Bad => u.graph = source.graph /\ u.dma = source.graph

\* What a process makes of the graphics columns of the usage that is used again.
LEMMA GraphicsComputed ==
  ASSUME NEW usage, UsageMembers \subseteq DOMAIN usage, NEW pid, NEW source, NEW prune
  PROVE  Carried(GetMemByProcessPid(usage, pid, source, prune), usage, source, prune)
<1>. PICK a : a = FromRollup(usage, pid, source, prune)
  BY Zenon
<1>1. /\ UsageMembers \subseteq DOMAIN a
      /\ a.gl = usage.gl /\ a.graph = usage.graph /\ a.dma = usage.dma
  BY Zenon DEF FromRollup, UsageMembers
<1>. PICK b : b = FromGL(a, source, prune)
  BY Zenon
<1>2. /\ UsageMembers \subseteq DOMAIN b
      /\ source.gl = Bad => b.gl = usage.gl
      /\ source.gl # Bad => b.gl = source.gl
      /\ b.graph = usage.graph /\ b.dma = usage.dma
  BY ZenonT(60), <1>1 DEF FromGL, UsageMembers
<1>. PICK u : u = FromGraph(b, source, prune)
  BY Zenon
<1>3. Carried(u, usage, source, prune)
  <2>1. CASE prune \/ source.graph = Bad
    BY Zenon, <1>2, <2>1 DEF FromGraph, Carried
  <2>2. CASE ~(prune \/ source.graph = Bad)
    BY ZenonT(60), <1>2, <2>2 DEF FromGraph, UsageMembers, Carried
  <2>. QED
    BY Zenon, <2>1, <2>2
<1>. QED
  BY Zenon, <1>3 DEF GetMemByProcessPid

\* The figure read last is told by the failures of the processes up to there.
LEMMA LastReadKept ==
  ASSUME NEW v, NEW n, NEW part, NEW f, NEW g, LastRead(v, n, part, f),
         \A k \in 1..n : <<Pids[k], part>> \in f <=> <<Pids[k], part>> \in g
  PROVE  LastRead(v, n, part, g)
<1>1. {i \in 1..n : <<Pids[i], part>> \notin f} = {i \in 1..n : <<Pids[i], part>> \notin g}
  BY Zenon
<1>. QED
  BY Zenon, <1>1 DEF LastRead

\* It stays when the next process fails.
LEMMA LastReadStays ==
  ASSUME NEW v, NEW n \in Nat, NEW part, NEW f, LastRead(v, n, part, f),
         <<Pids[n + 1], part>> \in f
  PROVE  LastRead(v, n + 1, part, f)
<1>1. 1..(n + 1) = 1..n \cup {n + 1}
  OBVIOUS
<1>2. {i \in 1..n : <<Pids[i], part>> \notin f} = {i \in 1..(n + 1) : <<Pids[i], part>> \notin f}
  BY Zenon, <1>1
<1>. QED
  BY Zenon, <1>2 DEF LastRead

\* It is the next process's when that can be read.
LEMMA LastReadNext ==
  ASSUME NEW n \in Nat, NEW part, NEW f, <<Pids[n + 1], part>> \notin f
  PROVE  LastRead(Sources[Pids[n + 1]][part], n + 1, part, f)
<1>1. n + 1 \in 1..(n + 1) /\ \A j \in 1..(n + 1) : j <= n + 1
  OBVIOUS
<1>. QED
  BY Zenon, <1>1 DEF LastRead

\* The pids that were gone through, in a listing of which some are left.
Passed(pids) == {Pids[k] : k \in 1..(Len(Pids) - Len(pids))}

\* What RowsOwn says of one row.
RowOwn(u, failed, prune) ==
    /\ SumsOwn(u, failed, prune)
    /\ \E n \in DOMAIN Pids : Pids[n] = u.pid /\ GraphicsColumns(u, n, failed, prune)

\* The members of an object that the rows are made with: the pids left are the end
\* of the listing, and rows and failures are of the pids before them.
RowInv(i, prune) ==
    /\ {"pids", "usage", "memUsages_", "failed"} \subseteq DOMAIN i
    /\ UsageMembers \subseteq DOMAIN i.usage
    /\ IsSeq(i.pids) /\ Len(i.pids) <= Len(Pids)
    /\ \A k \in 1..Len(i.pids) : i.pids[k] = Pids[Len(Pids) - Len(i.pids) + k]
    /\ IsSeq(i.memUsages_)
    /\ \A x \in i.failed : x[1] \in Passed(i.pids)
    /\ \A k \in DOMAIN i.memUsages_ :
         /\ RowOwn(i.memUsages_[k], i.failed, prune)
         /\ i.memUsages_[k].pid \in Passed(i.pids)
         /\ \A l \in DOMAIN i.memUsages_ : i.memUsages_[k].pid = i.memUsages_[l].pid => k = l

\* The places before the listing, where there are no rows.
Early == {"start", "construct", "init"}

NoRows(i) == i.memUsages_ = <<>> /\ i.failed = {} /\ i.usage = InitMemUsage

\* The graphics columns of the usage are those read last of the pids gone through.
UsageInv(i, prune) == GraphicsColumns(i.usage, Len(Pids) - Len(i.pids), i.failed, prune)

RowsInv ==
    /\ DOMAIN info = Requests
    /\ \A r \in Requests : /\ RowInv(info[r], Kind(r) = "prune")
                           /\ pc[r] \in Early => NoRows(info[r])
                           /\ pc[r] = "usage" => UsageInv(info[r], Kind(r) = "prune")

\* There are no rows at the start.
LEMMA RowsInit == Init => RowsInv
<1>. SUFFICES ASSUME Init PROVE RowsInv
  BY Zenon
<1>1. /\ {"pids", "usage", "memUsages_", "failed"} \subseteq DOMAIN NoInfo
      /\ NoInfo.pids = <<>> /\ NoInfo.usage = InitMemUsage /\ NoRows(NoInfo)
  BY ZenonT(60) DEF NoInfo, NoRows
<1>2. UsageMembers \subseteq DOMAIN InitMemUsage
  BY Zenon DEF InitMemUsage, UsageMembers
<1>3. IsSeq(<<>>) /\ Len(<<>>) = 0 /\ Len(Pids) \in Nat
  <2>1. <<>> \in Seq({}) /\ Len(<<>>) = 0
    BY Zenon, EmptySeq
  <2>2. Len(Pids) \in Nat
    BY Zenon, SourcesAssumption, LenProperties
  <2>. QED
    BY ZenonT(60), <2>1, <2>2, SeqIsSeq
<1>4. ASSUME NEW prune PROVE RowInv(NoInfo, prune)
  BY <1>1, <1>2, <1>3 DEF RowInv, NoRows
<1>5. \A r \in Requests : pc[r] # "usage"
  BY Zenon DEF Init
<1>. QED
  BY Zenon, <1>1, <1>4, <1>5 DEF Init, RowsInv

\* The members a row is made with stay in the usage.
LEMMA UsageKept ==
  ASSUME NEW usage, UsageMembers \subseteq DOMAIN usage, NEW pid, NEW source, NEW prune
  PROVE  UsageMembers \subseteq DOMAIN GetMemByProcessPid(usage, pid, source, prune)
<1>. PICK a : a = FromRollup(usage, pid, source, prune)
  BY Zenon
<1>1. UsageMembers \subseteq DOMAIN a
  BY Zenon DEF FromRollup
<1>. PICK b : b = FromGL(a, source, prune)
  BY Zenon
<1>2. UsageMembers \subseteq DOMAIN b
  BY Zenon, <1>1 DEF FromGL
<1>. QED
  BY Zenon, <1>2 DEF GetMemByProcessPid, FromGraph

\* The listing goes on from one pid to the next, which was not gone through yet.
LEMMA NextPid ==
  ASSUME NEW pids, IsSeq(pids), pids # <<>>, Len(pids) <= Len(Pids),
         \A k \in 1..Len(pids) : pids[k] = Pids[Len(Pids) - Len(pids) + k]
  PROVE  /\ IsSeq(Tail(pids)) /\ Len(Tail(pids)) <= Len(Pids)
         /\ \A k \in 1..Len(Tail(pids)) : Tail(pids)[k] = Pids[Len(Pids) - Len(Tail(pids)) + k]
         /\ Head(pids) \in Range(Pids) /\ Head(pids) \notin Passed(pids)
         /\ Passed(Tail(pids)) = Passed(pids) \cup {Head(pids)}
         /\ Len(Pids) - Len(pids) \in Nat /\ Len(Pids) - Len(pids) + 1 \in DOMAIN Pids
         /\ Head(pids) = Pids[Len(Pids) - Len(pids) + 1]
         /\ Len(Pids) - Len(Tail(pids)) = Len(Pids) - Len(pids) + 1
<1>. DEFINE T == {pids[i] : i \in DOMAIN pids}
<1>1. pids \in Seq(T)
  BY Zenon DEF IsSeq
<1>. HIDE DEF T
<1>2. /\ Tail(pids) \in Seq(T) /\ Len(Tail(pids)) = Len(pids) - 1
      /\ \A i \in 1..Len(Tail(pids)) : Tail(pids)[i] = pids[i + 1]
      /\ Head(pids) = pids[1] /\ Len(pids) \in Nat /\ Len(pids) # 0
  BY <1>1, HeadTailProperties, EmptySeq, LenProperties
<1>3. /\ Len(Pids) \in Nat /\ DOMAIN Pids = 1..Len(Pids)
      /\ \A i, j \in DOMAIN Pids : Pids[i] = Pids[j] => i = j
  BY Zenon, SourcesAssumption, LenProperties DEF IsInjective
<1>. DEFINE n == Len(Pids) - Len(pids)
<1>4. n \in Nat /\ n + 1 \in DOMAIN Pids /\ Head(pids) = Pids[n + 1] /\ Len(Pids) - Len(Tail(pids)) = n + 1
  BY <1>2, <1>3
<1>5. \A k \in 1..Len(Tail(pids)) : Tail(pids)[k] = Pids[Len(Pids) - Len(Tail(pids)) + k]
  BY <1>2, <1>3
<1>6. Passed(pids) = {Pids[k] : k \in 1..n} /\ Passed(Tail(pids)) = {Pids[k] : k \in 1..(n + 1)}
  BY Zenon, <1>4 DEF Passed
<1>7. 1..n \subseteq DOMAIN Pids /\ n + 1 \notin 1..n /\ 1..(n + 1) = 1..n \cup {n + 1}
  BY <1>2, <1>3
<1>. HIDE DEF n
<1>8. Head(pids) \notin Passed(pids)
  <2>. SUFFICES ASSUME NEW k \in 1..n, Head(pids) = Pids[k] PROVE FALSE
    BY Zenon, <1>6
  <2>1. k \in DOMAIN Pids /\ k # n + 1
    BY Zenon, <1>7
  <2>. QED
    BY ZenonT(60), <1>3, <1>4, <2>1
<1>9. Passed(Tail(pids)) = Passed(pids) \cup {Head(pids)}
  BY <1>4, <1>6, <1>7
<1>10. IsSeq(Tail(pids)) /\ Len(Tail(pids)) <= Len(Pids)
  <2>1. IsSeq(Tail(pids))
    BY ZenonT(60), <1>2, SeqIsSeq
  <2>. QED
    BY <1>2, <1>3, <2>1
<1>11. Head(pids) \in Range(Pids)
  BY Zenon, <1>4 DEF Range
<1>. QED
  BY Zenon, <1>4, <1>5, <1>8, <1>9, <1>10, <1>11 DEF n

\* The places up to that of a pid that was gone through were gone through.
LEMMA PlacesPassed ==
  ASSUME NEW pids, IsSeq(pids), Len(pids) <= Len(Pids), NEW m \in DOMAIN Pids,
         Pids[m] \in Passed(pids), NEW k \in 1..m
  PROVE  Pids[k] \in Passed(pids)
<1>1. /\ Len(Pids) \in Nat /\ DOMAIN Pids = 1..Len(Pids)
      /\ \A i, j \in DOMAIN Pids : Pids[i] = Pids[j] => i = j
  BY Zenon, SourcesAssumption, LenProperties DEF IsInjective
<1>2. Len(pids) \in Nat
  BY Zenon, LenProperties DEF IsSeq
<1>. DEFINE n == Len(Pids) - Len(pids)
<1>3. n \in Nat /\ 1..n \subseteq DOMAIN Pids
  BY <1>1, <1>2
<1>4. PICK i \in 1..n : Pids[m] = Pids[i]
  BY Zenon DEF Passed
<1>5. m = i
  BY Zenon, <1>1, <1>3, <1>4
<1>6. k \in 1..n
  <2>. HIDE DEF n
  <2>. QED
    BY <1>3, <1>4, <1>5
<1>. QED
  BY Zenon, <1>6 DEF Passed

\* What is read of a process: its own figures, or nothing.
LEMMA ReadingOwn ==
  ASSUME NEW pid \in Range(Pids), NEW source \in Readings(pid)
  PROVE  /\ source.own \in {Bad, Sources[pid].own} /\ source.gl \in {Bad, Sources[pid].gl}
         /\ source.graph \in {Bad, Sources[pid].graph} /\ GetVss(source) = GetVss(Sources[pid])
         /\ source.own # Bad => source.own \in Rollups
         /\ source.gl \in Nat \cup {Bad} /\ source.graph \in Nat \cup {Bad}
<1>. PICK s : s = Sources[pid]
  BY Zenon
<1>1. /\ {"own", "gl", "graph"} \subseteq DOMAIN s
      /\ s.own = Bad \/ s.own \in Rollups
      /\ s.gl \in Nat \cup {Bad} /\ s.graph \in Nat \cup {Bad}
  BY ZenonT(60), SourcesAssumption
<1>2. PICK bad \in SUBSET {"own", "gl", "graph"} :
        source = [s EXCEPT !.own = IF "own" \in bad THEN Bad ELSE @,
                           !.gl = IF "gl" \in bad THEN Bad ELSE @,
                           !.graph = IF "graph" \in bad THEN Bad ELSE @]
  BY Zenon DEF Readings
<1>3. /\ source.own \in {Bad, s.own} /\ source.gl \in {Bad, s.gl}
      /\ source.graph \in {Bad, s.graph} /\ source.vss = s.vss
  BY SMTT(30), <1>1, <1>2
<1>. QED
  BY Zenon, <1>1, <1>3 DEF GetVss

\* What going through a process makes of the members.
Added(i, j, pid, source, u, prune) ==
    /\ i.pids # <<>> /\ pid = Head(i.pids) /\ source \in Readings(pid)
    /\ u = GetMemByProcessPid(i.usage, pid, source, prune)
    /\ DOMAIN j = DOMAIN i /\ j.pids = Tail(i.pids) /\ j.usage = u
    /\ j.memUsages_ = IF source.own = Bad THEN i.memUsages_ ELSE Append(i.memUsages_, u)
    /\ j.failed = i.failed \cup { <<pid, part>> : part \in {p \in {"gl", "graph"} : source[p] = Bad} }

\* A process is gone through: the graphics columns are its own or stay.
LEMMA UsageAdded ==
  ASSUME NEW usage, NEW prune, UsageMembers \subseteq DOMAIN usage,
         NEW n \in Nat, NEW old, GraphicsColumns(usage, n, old, prune),
         NEW pid \in Range(Pids), pid = Pids[n + 1], NEW source \in Readings(pid), NEW failed,
         \A part \in {"gl", "graph"} : <<pid, part>> \in failed <=> source[part] = Bad,
         \A part \in {"gl", "graph"} : \A k \in 1..n :
             <<Pids[k], part>> \in old <=> <<Pids[k], part>> \in failed
  PROVE  GraphicsColumns(GetMemByProcessPid(usage, pid, source, prune), n + 1, failed, prune)
<1>. PICK u : u = GetMemByProcessPid(usage, pid, source, prune)
  BY Zenon
<1>1. Carried(u, usage, source, prune)
  BY Zenon, GraphicsComputed
<1>2. source.gl \in {Bad, Sources[pid].gl} /\ source.graph \in {Bad, Sources[pid].graph}
  BY Zenon, ReadingOwn
<1>3. LastRead(u.gl, n + 1, "gl", failed)
  <2>1. LastRead(usage.gl, n, "gl", failed)
    BY Zenon, LastReadKept DEF GraphicsColumns
  <2>2. CASE source.gl = Bad
    <3>1. u.gl = usage.gl /\ <<Pids[n + 1], "gl">> \in failed
      BY Zenon, <1>1, <2>2 DEF Carried
    <3>. QED
      BY Zenon, <2>1, <3>1, LastReadStays
  <2>3. CASE source.gl # Bad
    <3>1. u.gl = Sources[Pids[n + 1]]["gl"] /\ <<Pids[n + 1], "gl">> \notin failed
      BY Zenon, <1>1, <1>2, <2>3 DEF Carried
    <3>. QED
      BY Zenon, <3>1, LastReadNext
  <2>. QED
    BY Zenon, <2>2, <2>3
<1>4. CASE prune
  BY Zenon, <1>1, <1>3, <1>4 DEF GraphicsColumns, Carried
<1>5. CASE ~prune
  <2>1. LastRead(usage.graph, n, "graph", failed) /\ usage.dma = usage.graph
    BY Zenon, <1>5, LastReadKept DEF GraphicsColumns
  <2>2. u.dma = u.graph
    BY Zenon, <1>1, <2>1 DEF Carried
  <2>3. LastRead(u.graph, n + 1, "graph", failed)
    <3>1. CASE source.graph = Bad
      <4>1. u.graph = usage.graph /\ <<Pids[n + 1], "graph">> \in failed
        BY Zenon, <1>1, <3>1 DEF Carried
      <4>. QED
        BY Zenon, <2>1, <4>1, LastReadStays
    <3>2. CASE source.graph # Bad
      <4>1. u.graph = Sources[Pids[n + 1]]["graph"] /\ <<Pids[n + 1], "graph">> \notin failed
        BY Zenon, <1>1, <1>2, <1>5, <3>2 DEF Carried
      <4>. QED
        BY Zenon, <4>1, LastReadNext
    <3>. QED
      BY Zenon, <3>1, <3>2
  <2>. QED
    BY Zenon, <1>3, <1>5, <2>2, <2>3 DEF GraphicsColumns
<1>. QED
  BY Zenon, <1>4, <1>5

\* A process is gone through: its row is its own, and the rows before it stay so.
LEMMA RowAdded ==
  ASSUME NEW i, NEW j, NEW prune \in BOOLEAN, RowInv(i, prune), UsageInv(i, prune),
         NEW pid, NEW source, NEW u, Added(i, j, pid, source, u, prune)
  PROVE  RowInv(j, prune) /\ UsageInv(j, prune)
<1>. /\ i.pids # <<>> /\ pid = Head(i.pids) /\ source \in Readings(pid)
     /\ u = GetMemByProcessPid(i.usage, pid, source, prune)
     /\ DOMAIN j = DOMAIN i /\ j.pids = Tail(i.pids) /\ j.usage = u
     /\ j.memUsages_ = IF source.own = Bad THEN i.memUsages_ ELSE Append(i.memUsages_, u)
     /\ j.failed = i.failed \cup { <<pid, part>> : part \in {p \in {"gl", "graph"} : source[p] = Bad} }
  BY Zenon DEF Added
<1>1. /\ IsSeq(j.pids) /\ Len(j.pids) <= Len(Pids)
      /\ \A k \in 1..Len(j.pids) : j.pids[k] = Pids[Len(Pids) - Len(j.pids) + k]
      /\ pid \in Range(Pids) /\ pid \notin Passed(i.pids)
      /\ Passed(j.pids) = Passed(i.pids) \cup {pid}
      /\ \E n \in Nat : /\ n = Len(Pids) - Len(i.pids) /\ n + 1 = Len(Pids) - Len(j.pids)
                        /\ n + 1 \in DOMAIN Pids /\ pid = Pids[n + 1]
  <2>1. /\ IsSeq(i.pids) /\ Len(i.pids) <= Len(Pids)
        /\ \A k \in 1..Len(i.pids) : i.pids[k] = Pids[Len(Pids) - Len(i.pids) + k]
    BY ZenonT(60) DEF RowInv
  <2>2. /\ IsSeq(Tail(i.pids)) /\ Len(Tail(i.pids)) <= Len(Pids)
        /\ \A k \in 1..Len(Tail(i.pids)) : Tail(i.pids)[k] = Pids[Len(Pids) - Len(Tail(i.pids)) + k]
        /\ Head(i.pids) \in Range(Pids) /\ Head(i.pids) \notin Passed(i.pids)
        /\ Passed(Tail(i.pids)) = Passed(i.pids) \cup {Head(i.pids)}
        /\ Len(Pids) - Len(i.pids) \in Nat /\ Len(Pids) - Len(i.pids) + 1 \in DOMAIN Pids
        /\ Head(i.pids) = Pids[Len(Pids) - Len(i.pids) + 1]
        /\ Len(Pids) - Len(Tail(i.pids)) = Len(Pids) - Len(i.pids) + 1
    BY Zenon, <2>1, NextPid
  <2>. QED
    BY Zenon, <2>2
<1>2. UsageMembers \subseteq DOMAIN i.usage /\ UsageMembers \subseteq DOMAIN u
  <2>1. UsageMembers \subseteq DOMAIN i.usage
    BY Zenon DEF RowInv
  <2>. QED
    BY ZenonT(60), <2>1, UsageKept
<1>3. \A x \in j.failed : x[1] \in Passed(j.pids)
  BY <1>1 DEF RowInv
<1>4. \A part \in {"gl", "graph"} :
        /\ <<pid, part>> \in j.failed <=> source[part] = Bad
        /\ \A old \in Passed(i.pids) : <<old, part>> \in j.failed <=> <<old, part>> \in i.failed
  BY ZenonT(60), <1>1 DEF RowInv
<1>5. PICK n \in Nat : /\ n = Len(Pids) - Len(i.pids) /\ n + 1 = Len(Pids) - Len(j.pids)
                        /\ n + 1 \in DOMAIN Pids /\ pid = Pids[n + 1]
  BY Zenon, <1>1
<1>6. GraphicsColumns(u, n + 1, j.failed, prune)
  <2>1. ASSUME NEW part \in {"gl", "graph"}, NEW k \in 1..n
        PROVE  <<Pids[k], part>> \in i.failed <=> <<Pids[k], part>> \in j.failed
    BY Zenon, <1>4, <1>5 DEF Passed
  <2>. PICK usage, old, failed : usage = i.usage /\ old = i.failed /\ failed = j.failed
    BY Zenon
  <2>2. /\ \A part \in {"gl", "graph"} : <<pid, part>> \in failed <=> source[part] = Bad
        /\ \A part \in {"gl", "graph"} : \A k \in 1..n :
             <<Pids[k], part>> \in old <=> <<Pids[k], part>> \in failed
    BY Zenon, <1>4, <2>1
  <2>3. UsageMembers \subseteq DOMAIN usage /\ GraphicsColumns(usage, n, old, prune)
    BY Zenon, <1>2, <1>5 DEF UsageInv
  <2>4. pid = Pids[n + 1] /\ pid \in Range(Pids)
    BY Zenon, <1>1, <1>5
  <2>5. GraphicsColumns(GetMemByProcessPid(usage, pid, source, prune), n + 1, failed, prune)
    BY ZenonT(60), <2>2, <2>3, <2>4, UsageAdded
  <2>. QED
    BY Zenon, <2>5
<1>7. UsageInv(j, prune)
  BY Zenon, <1>5, <1>6 DEF UsageInv
<1>8. ASSUME source.own # Bad PROVE u.pid = pid /\ RowOwn(u, j.failed, prune)
  <2>. PICK s : s = Sources[pid]
    BY Zenon
  <2>1. /\ source.own = s.own /\ source.gl \in {Bad, s.gl}
        /\ source.graph \in {Bad, s.graph} /\ GetVss(source) = GetVss(s)
        /\ source.own \in Rollups
        /\ source.gl \in Nat \cup {Bad} /\ source.graph \in Nat \cup {Bad}
    BY Zenon, <1>1, <1>8, ReadingOwn
  <2>2. Figures(u, pid, source, prune)
    <3>1. Figures(GetMemByProcessPid(i.usage, pid, source, prune), pid, source, prune)
      BY ZenonT(60), <1>2, <1>8, <2>1, RowComputed
    <3>. QED
      BY Zenon, <3>1
  <2>3. /\ (IF source.gl = Bad THEN 0 ELSE source.gl) = IF <<pid, "gl">> \in j.failed THEN 0 ELSE s.gl
        /\ (IF prune \/ source.graph = Bad THEN 0 ELSE source.graph)
             = IF prune \/ <<pid, "graph">> \in j.failed THEN 0 ELSE s.graph
    BY Zenon, <1>4, <2>1
  <2>4. u.pid = pid /\ SumsOwn(u, j.failed, prune)
    BY ZenonT(60), <2>1, <2>2, <2>3 DEF Figures, SumsOwn
  <2>. QED
    BY Zenon, <1>6, <1>5, <2>4 DEF RowOwn
<1>9. ASSUME NEW k \in DOMAIN i.memUsages_
      PROVE  /\ RowOwn(i.memUsages_[k], j.failed, prune)
             /\ i.memUsages_[k].pid \in Passed(i.pids)
  <2>. PICK row : row = i.memUsages_[k]
    BY Zenon
  <2>1. /\ SumsOwn(row, i.failed, prune) /\ row.pid \in Passed(i.pids)
        /\ IsSeq(i.pids) /\ Len(i.pids) <= Len(Pids)
    BY Zenon DEF RowInv, RowOwn
  <2>2. PICK m \in DOMAIN Pids : Pids[m] = row.pid /\ GraphicsColumns(row, m, i.failed, prune)
    BY Zenon DEF RowInv, RowOwn
  <2>3. SumsOwn(row, j.failed, prune)
    BY ZenonT(60), <1>4, <2>1 DEF SumsOwn
  <2>4. ASSUME NEW part \in {"gl", "graph"}, NEW l \in 1..m
        PROVE  <<Pids[l], part>> \in i.failed <=> <<Pids[l], part>> \in j.failed
    <3>. PICK pids : pids = i.pids
      BY Zenon
    <3>1. Pids[l] \in Passed(pids)
      BY Zenon, <2>1, <2>2, PlacesPassed
    <3>. QED
      BY Zenon, <1>4, <3>1
  <2>5. GraphicsColumns(row, m, j.failed, prune)
    <3>1. LastRead(row.gl, m, "gl", j.failed)
      BY Zenon, <2>2, <2>4, LastReadKept DEF GraphicsColumns
    <3>2. ~prune => LastRead(row.graph, m, "graph", j.failed)
      BY Zenon, <2>2, <2>4, LastReadKept DEF GraphicsColumns
    <3>. QED
      BY Zenon, <2>2, <3>1, <3>2 DEF GraphicsColumns
  <2>. QED
    BY Zenon, <2>1, <2>2, <2>3, <2>5 DEF RowOwn
<1>10. /\ IsSeq(j.pids) /\ Len(j.pids) <= Len(Pids)
       /\ \A k \in 1..Len(j.pids) : j.pids[k] = Pids[Len(Pids) - Len(j.pids) + k]
       /\ Passed(i.pids) \subseteq Passed(j.pids)
  BY Zenon, <1>1
<1>11. CASE source.own = Bad
  <2>1. j.memUsages_ = i.memUsages_ /\ IsSeq(j.memUsages_)
    BY Zenon, <1>11 DEF RowInv
  <2>2. \A k \in DOMAIN j.memUsages_ : /\ RowOwn(j.memUsages_[k], j.failed, prune)
                                       /\ j.memUsages_[k].pid \in Passed(j.pids)
    BY Zenon, <1>9, <1>10, <2>1
  <2>3. \A k, l \in DOMAIN j.memUsages_ : j.memUsages_[k].pid = j.memUsages_[l].pid => k = l
    BY Zenon, <2>1 DEF RowInv
  <2>. QED
    BY Zenon, <1>2, <1>3, <1>7, <1>10, <2>1, <2>2, <2>3 DEF RowInv
<1>12. CASE source.own # Bad
  <2>. DEFINE end == Len(i.memUsages_) + 1
  <2>1. /\ IsSeq(j.memUsages_) /\ DOMAIN i.memUsages_ = 1..Len(i.memUsages_)
        /\ Len(i.memUsages_) \in Nat /\ DOMAIN j.memUsages_ = 1..end /\ j.memUsages_[end] = u
        /\ \A k \in DOMAIN i.memUsages_ : j.memUsages_[k] = i.memUsages_[k]
    <3>1. IsSeq(i.memUsages_) /\ j.memUsages_ = Append(i.memUsages_, u)
      BY Zenon, <1>12 DEF RowInv
    <3>2. PICK s : s = i.memUsages_ /\ IsSeq(s)
      BY Zenon, <3>1
    <3>3. /\ IsSeq(Append(s, u)) /\ Len(s) \in Nat /\ DOMAIN s = 1..Len(s)
          /\ DOMAIN Append(s, u) = 1..(Len(s) + 1) /\ Append(s, u)[Len(s) + 1] = u
          /\ \A k \in DOMAIN s : Append(s, u)[k] = s[k]
      BY <3>2, AppendAny
    <3>. QED
      BY Zenon, <3>1, <3>2, <3>3
  <2>2. \A k \in DOMAIN j.memUsages_ : k = end \/ k \in DOMAIN i.memUsages_
    BY <2>1
  <2>. HIDE DEF end
  <2>3. u.pid = pid /\ RowOwn(u, j.failed, prune) /\ pid \notin Passed(i.pids)
    BY Zenon, <1>1, <1>8, <1>12
  <2>4. \A k \in DOMAIN j.memUsages_ : /\ RowOwn(j.memUsages_[k], j.failed, prune)
                                       /\ j.memUsages_[k].pid \in Passed(j.pids)
    BY Zenon, <1>1, <1>9, <2>1, <2>2, <2>3
  <2>5. \A k, l \in DOMAIN j.memUsages_ : j.memUsages_[k].pid = j.memUsages_[l].pid => k = l
    <3>1. \A k, l \in DOMAIN i.memUsages_ : i.memUsages_[k].pid = i.memUsages_[l].pid => k = l
      BY Zenon DEF RowInv
    <3>2. \A k \in DOMAIN i.memUsages_ : j.memUsages_[k].pid # pid
      BY Zenon, <1>9, <2>1, <2>3
    <3>. QED
      BY ZenonT(60), <2>1, <2>2, <2>3, <3>1, <3>2
  <2>. QED
    BY Zenon, <1>2, <1>3, <1>7, <1>10, <2>1, <2>4, <2>5 DEF RowInv
<1>. QED
  BY Zenon, <1>11, <1>12

\* The members that rows are made with are the same.
SameRows(i, j) ==
    /\ DOMAIN j = DOMAIN i /\ j.pids = i.pids /\ j.usage = i.usage
    /\ j.memUsages_ = i.memUsages_ /\ j.failed = i.failed

\* Only the listing and the rows change those members.
LEMMA OthersKeepRows ==
    ASSUME RowsInv, NEW r \in Requests, RequestStep(r),
           ~GetMemoryInfoInit(r), ~GetMemoryUsageInfo(r)
    PROVE  /\ DOMAIN info' = Requests
           /\ \A q \in Requests : SameRows(info[q], info'[q])
<1>1. DOMAIN info = Requests /\ {"pids", "usage", "memUsages_", "failed"} \subseteq DOMAIN info[r]
  BY Zenon DEF RowsInv, RowInv
<1>2. ASSUME NEW x, \/ info' = [info EXCEPT ![r].opts = x]
                   \/ info' = [info EXCEPT ![r].mem = x]
                   \/ info' = [info EXCEPT ![r].meminfo = x]
                   \/ UNCHANGED info
      PROVE  DOMAIN info' = Requests /\ \A q \in Requests : SameRows(info[q], info'[q])
  BY <1>1, <1>2 DEF SameRows
<1>3. CASE StartFetches(r) \/ GetMemByPid(r) \/ DealResult(r)
  <2>1. \E x : \/ info' = [info EXCEPT ![r].opts = x]
              \/ info' = [info EXCEPT ![r].mem = x]
              \/ info' = [info EXCEPT ![r].meminfo = x]
              \/ UNCHANGED info
    BY Zenon, <1>3 DEF StartFetches, GetMemByPid, DealResult
  <2>. QED
    BY Zenon, <1>2, <2>1
<1>4. CASE HeapExecute(r)
  <2>1. \E x : info' = [info EXCEPT ![r].opts = x]
    BY Zenon, <1>4 DEF HeapExecute
  <2>. QED
    BY Zenon, <1>2, <2>1
<1>5. CASE Round(r)
  <2>1. PICK x, y, z :
          info' = [info EXCEPT ![r].mem = x, ![r].pssValues = y, ![r].prevLineCount = z]
    BY Zenon, <1>5 DEF Round
  <2>. QED
    BY Zenon, <1>1, <2>1 DEF SameRows
<1>6. CASE ~(StartFetches(r) \/ GetMemByPid(r) \/ DealResult(r) \/ HeapExecute(r) \/ Round(r))
  <2>1. UNCHANGED info
    BY Zenon, <1>6 DEF RequestStep, LoadPlugin, UnloadPlugin, LibraryMissing, Execute, Join,
       GetMemSmapsByPid, SetReceivedSigInt, TimeIntervalBegins, LoopEnds, Rearm, PruneEnds,
       DealCategories, MergeArktsHeapResult, MergeLeakThreadResult, HeapAfterExecute, object
  <2>. QED
    BY Zenon, <1>2, <2>1
<1>. QED
  BY Zenon, <1>3, <1>4, <1>5, <1>6

\* No step goes back to a place before the listing.
LEMMA EarlyStays ==
    ASSUME Places, NEW r \in Requests, RequestStep(r)
    PROVE  /\ pc'[r] \in Early => pc[r] \in Early /\ ~GetMemoryInfoInit(r) /\ ~GetMemoryUsageInfo(r)
           /\ \A q \in Requests \ {r} : pc'[q] = pc[q]
<1>1. DOMAIN pc = Requests
  BY Zenon DEF Places
<1>2. CASE LoadPlugin(r)
  <2>1. pc[r] = "construct"
    BY Zenon, <1>2 DEF LoadPlugin, Goto
  <2>2. ~GetMemoryInfoInit(r) /\ ~GetMemoryUsageInfo(r)
    BY Zenon, <2>1 DEF GetMemoryInfoInit, GetMemoryUsageInfo
  <2>3. \A q \in Requests \ {r} : pc'[q] = pc[q]
    BY <1>2 DEF LoadPlugin, Goto
  <2>. QED
    BY Zenon, <2>1, <2>2, <2>3 DEF Early
<1>3. CASE Execute(r) \/ StartFetches(r)
  <2>1. pc[r] = "start"
    BY Zenon, <1>3 DEF Execute, StartFetches, Goto
  <2>2. ~GetMemoryInfoInit(r) /\ ~GetMemoryUsageInfo(r)
    BY Zenon, <2>1 DEF GetMemoryInfoInit, GetMemoryUsageInfo
  <2>3. \A q \in Requests \ {r} : pc'[q] = pc[q]
    BY Zenon, <1>1, <1>3 DEF Execute, StartFetches, Goto
  <2>. QED
    BY Zenon, <2>1, <2>2, <2>3 DEF Early
<1>4. CASE UnloadPlugin(r)
  BY Zenon, <1>1, <1>4 DEF UnloadPlugin, Goto, Early
<1>5. CASE ~(LoadPlugin(r) \/ Execute(r) \/ StartFetches(r) \/ UnloadPlugin(r))
  <2>1. \/ pc' = pc /\ pc[r] \in {"loop", "usage"}
        \/ \E from : \E to \in {"done", "destruct", "loop", "rearm", "usage", "get", "leak", "heap"} :
             Goto(r, from, to)
    BY Zenon, <1>5 DEF RequestStep, LibraryMissing, Join, GetMemSmapsByPid, SetReceivedSigInt,
       TimeIntervalBegins, Round, LoopEnds, Rearm, GetMemoryInfoInit, GetMemoryUsageInfo, PruneEnds,
       DealResult, DealCategories, GetMemByPid, MergeArktsHeapResult, MergeLeakThreadResult,
       HeapExecute, HeapAfterExecute
  <2>. QED
    BY Zenon, <1>1, <2>1 DEF Goto, Early
<1>. QED
  BY Zenon, <1>2, <1>3, <1>4, <1>5

\* Only the listing leads to the place where rows are made.
LEMMA UsageEntered ==
    ASSUME Places, NEW r \in Requests, RequestStep(r),
           ~GetMemoryInfoInit(r), ~GetMemoryUsageInfo(r)
    PROVE  pc'[r] # "usage"
<1>1. DOMAIN pc = Requests
  BY Zenon DEF Places
<1>2. CASE LoadPlugin(r)
  <2>1. Entry[Kind(r)] # "usage"
    BY <1>2 DEF LoadPlugin, Goto, Places, Entry
  <2>. QED
    BY Zenon, <1>1, <1>2, <2>1 DEF LoadPlugin, Goto
<1>3. CASE UnloadPlugin(r)
  BY Zenon, <1>1, <1>3 DEF UnloadPlugin, Goto
<1>4. CASE ~LoadPlugin(r) /\ ~UnloadPlugin(r)
  <2>1. \/ pc' = pc /\ pc[r] = "loop"
        \/ \E from : \E to \in {"construct", "join", "done", "destruct", "loop", "rearm", "get", "leak",
                                  "heap"} : Goto(r, from, to)
    BY Zenon, <1>4 DEF RequestStep, LibraryMissing, Execute, StartFetches, Join, GetMemSmapsByPid,
       SetReceivedSigInt, TimeIntervalBegins, Round, LoopEnds, Rearm, PruneEnds, DealResult,
       DealCategories, GetMemByPid, MergeArktsHeapResult, MergeLeakThreadResult, HeapExecute,
       HeapAfterExecute
  <2>. QED
    BY Zenon, <1>1, <2>1 DEF Goto
<1>. QED
  BY Zenon, <1>2, <1>3, <1>4

\* The listing begins while there are no rows.
LEMMA ListingKeeps ==
    ASSUME PluginInv, RowsInv, NEW r \in Requests, GetMemoryInfoInit(r)
    PROVE  /\ DOMAIN info' = Requests /\ \A q \in Requests \ {r} : info'[q] = info[q]
           /\ \A prune : RowInv(info[r], prune) =>
                /\ RowInv(info'[r], prune)
                /\ pc'[r] = "usage" => UsageInv(info'[r], prune)
<1>1. /\ DOMAIN info = Requests /\ NoRows(info[r])
      /\ {"pids", "usage", "memUsages_", "failed"} \subseteq DOMAIN info[r]
  BY Zenon DEF RowsInv, RowInv, GetMemoryInfoInit, Early
<1>2. \/ UNCHANGED info /\ Goto(r, "init", "destruct")
      \/ info' = [info EXCEPT ![r].pids = Pids]
  BY Zenon DEF GetMemoryInfoInit
<1>3. CASE UNCHANGED info /\ Goto(r, "init", "destruct")
  <2>1. pc'[r] # "usage"
    BY Zenon, <1>3 DEF Goto, PluginInv, Places
  <2>. QED
    BY Zenon, <1>1, <1>3, <2>1
<1>4. CASE info' = [info EXCEPT ![r].pids = Pids]
  <2>1. /\ DOMAIN info' = Requests /\ \A q \in Requests \ {r} : info'[q] = info[q]
        /\ DOMAIN info'[r] = DOMAIN info[r] /\ info'[r].pids = Pids
        /\ info'[r].usage = info[r].usage /\ NoRows(info'[r])
    BY Zenon, <1>1, <1>4 DEF NoRows
  <2>. PICK j : j = info'[r]
    BY Zenon
  <2>2. IsSeq(Pids) /\ Len(Pids) \in Nat
    BY Zenon, SourcesAssumption, SeqIsSeq, LenProperties
  <2>3. \A k \in 1..Len(Pids) : Pids[k] = Pids[Len(Pids) - Len(Pids) + k]
    BY <2>2
  <2>4. IsSeq(<<>>)
    BY ZenonT(60), EmptySeq, SeqIsSeq
  <2>5. ASSUME NEW prune, RowInv(info[r], prune) PROVE RowInv(j, prune)
    <3>1. /\ {"pids", "usage", "memUsages_", "failed"} \subseteq DOMAIN j
          /\ UsageMembers \subseteq DOMAIN j.usage
      BY Zenon, <1>1, <2>1, <2>5 DEF RowInv
    <3>2. j.pids = Pids /\ j.memUsages_ = <<>> /\ j.failed = {}
      BY Zenon, <2>1 DEF NoRows
    <3>3. /\ IsSeq(j.pids) /\ Len(j.pids) <= Len(Pids)
          /\ \A k \in 1..Len(j.pids) : j.pids[k] = Pids[Len(Pids) - Len(j.pids) + k]
      BY <2>2, <2>3, <3>2
    <3>4. DOMAIN j.memUsages_ = {} /\ IsSeq(j.memUsages_)
      BY <2>4, <3>2
    <3>. QED
      BY Zenon, <3>1, <3>2, <3>3, <3>4 DEF RowInv
  <2>6. ASSUME NEW prune PROVE UsageInv(j, prune)
    <3>1. j.usage.gl = 0 /\ j.usage.graph = 0 /\ j.usage.dma = 0
      <4>1. j.usage = InitMemUsage
        BY Zenon, <2>1 DEF NoRows
      <4>2. InitMemUsage.gl = 0 /\ InitMemUsage.graph = 0 /\ InitMemUsage.dma = 0
        BY DEF InitMemUsage
      <4>. QED
        BY <4>1, <4>2
    <3>2. Len(Pids) - Len(j.pids) = 0 /\ 1..0 = {}
      BY <2>1, <2>2
    <3>3. \A part, failed : LastRead(0, 0, part, failed)
      BY Zenon, <3>2 DEF LastRead
    <3>. QED
      BY Zenon, <3>1, <3>2, <3>3 DEF UsageInv, GraphicsColumns
  <2>. QED
    BY Zenon, <2>1, <2>5, <2>6
<1>. QED
  BY Zenon, <1>2, <1>3, <1>4

\* A process of the listing is gone through.
LEMMA UsageKeeps ==
    ASSUME RowsInv, NEW r \in Requests, GetMemoryUsageInfo(r)
    PROVE  /\ DOMAIN info' = Requests /\ \A q \in Requests \ {r} : info'[q] = info[q]
           /\ RowInv(info'[r], Kind(r) = "prune") /\ UsageInv(info'[r], Kind(r) = "prune")
<1>. DEFINE pid == Head(info[r].pids)
            prune == Kind(r) = "prune"
            usage(source) == GetMemByProcessPid(info[r].usage, pid, source, prune)
            rows(source) == IF source.own = Bad THEN info[r].memUsages_
                            ELSE Append(info[r].memUsages_, usage(source))
            failed(source) == info[r].failed \cup
                { <<pid, part>> : part \in { p \in {"gl", "graph"} : source[p] = Bad } }
<1>1. PICK source \in Readings(pid) :
           info' = [info EXCEPT ![r].pids = Tail(@), ![r].usage = usage(source),
                                ![r].memUsages_ = rows(source), ![r].failed = failed(source)]
  BY Zenon DEF GetMemoryUsageInfo
<1>2. /\ DOMAIN info = Requests /\ RowInv(info[r], prune) /\ prune \in BOOLEAN
      /\ UsageInv(info[r], prune)
      /\ {"pids", "usage", "memUsages_", "failed"} \subseteq DOMAIN info[r]
  BY ZenonT(60) DEF RowsInv, RowInv, GetMemoryUsageInfo
<1>3. info[r].pids # <<>>
  BY Zenon DEF GetMemoryUsageInfo
<1>. HIDE DEF usage, rows, failed, prune
<1>4. /\ DOMAIN info' = Requests /\ \A q \in Requests \ {r} : info'[q] = info[q]
      /\ DOMAIN info'[r] = DOMAIN info[r] /\ info'[r].pids = Tail(info[r].pids)
      /\ info'[r].usage = usage(source) /\ info'[r].memUsages_ = rows(source)
      /\ info'[r].failed = failed(source)
  BY Zenon, <1>1, <1>2
<1>. PICK i, j, u : i = info[r] /\ j = info'[r] /\ u = usage(source)
  BY Zenon
<1>5. Added(i, j, pid, source, u, prune)
  BY Zenon, <1>3, <1>4 DEF rows, failed, usage, Added
<1>6. RowInv(j, prune) /\ UsageInv(j, prune)
  BY Zenon, <1>2, <1>5, RowAdded
<1>. QED
  BY Zenon, <1>4, <1>6 DEF prune

\* Every step keeps the invariant.
LEMMA RowsStep == PluginInv /\ RowsInv /\ [Next]_vars => RowsInv'
<1>. SUFFICES ASSUME PluginInv, RowsInv, [Next]_vars PROVE RowsInv'
  BY Zenon
<1>1. ASSUME NEW i, NEW j, NEW prune, RowInv(i, prune), SameRows(i, j) PROVE RowInv(j, prune)
  BY Zenon, <1>1 DEF SameRows, RowInv
<1>2. ASSUME NEW r \in Requests, RequestStep(r) PROVE RowsInv'
  <2>1. \A q \in Requests : Kind(q)' = Kind(q)
    <3>1. scenario' = scenario
      BY Zenon, <1>2 DEF RequestStep, LoadPlugin, UnloadPlugin, LibraryMissing, Execute, StartFetches,
         Join, GetMemSmapsByPid, SetReceivedSigInt, TimeIntervalBegins, Round, LoopEnds, Rearm,
         GetMemoryInfoInit, GetMemoryUsageInfo, PruneEnds, DealResult, DealCategories, GetMemByPid,
         MergeArktsHeapResult, MergeLeakThreadResult, HeapExecute, HeapAfterExecute
    <3>. QED
      BY Zenon, <3>1 DEF Kind
  <2>2. \A q \in Requests : pc'[q] \in Early =>
          pc[q] \in Early /\ (q = r => ~GetMemoryInfoInit(r) /\ ~GetMemoryUsageInfo(r))
    BY Zenon, <1>2, EarlyStays DEF PluginInv
  <2>3. CASE ~GetMemoryInfoInit(r) /\ ~GetMemoryUsageInfo(r)
    <3>1. DOMAIN info' = Requests /\ \A q \in Requests : SameRows(info[q], info'[q])
      BY Zenon, <1>2, <2>3, OthersKeepRows
    <3>2. \A q \in Requests : RowInv(info'[q], Kind(q) = "prune")
      BY Zenon, <1>1, <3>1 DEF RowsInv
    <3>3. \A q \in Requests : pc'[q] \in Early => NoRows(info'[q])
      BY Zenon, <2>2, <3>1 DEF RowsInv, SameRows, NoRows
    <3>4. ASSUME NEW q \in Requests, pc'[q] = "usage" PROVE UsageInv(info'[q], Kind(q) = "prune")
      <4>1. pc[q] = "usage"
        BY Zenon, <1>2, <2>3, <3>4, EarlyStays, UsageEntered DEF PluginInv
      <4>. QED
        BY Zenon, <3>1, <4>1 DEF RowsInv, SameRows, UsageInv
    <3>. QED
      BY Zenon, <2>1, <3>1, <3>2, <3>3, <3>4 DEF RowsInv
  <2>4. CASE GetMemoryInfoInit(r) \/ GetMemoryUsageInfo(r)
    <3>1. /\ DOMAIN info' = Requests /\ \A q \in Requests \ {r} : info'[q] = info[q]
          /\ RowInv(info'[r], Kind(r) = "prune")
          /\ pc'[r] = "usage" => UsageInv(info'[r], Kind(r) = "prune")
      BY Zenon, <2>4, ListingKeeps, UsageKeeps DEF RowsInv
    <3>2. \A q \in Requests : RowInv(info'[q], Kind(q) = "prune")
      BY Zenon, <3>1 DEF RowsInv
    <3>3. \A q \in Requests : pc'[q] \in Early => NoRows(info'[q])
      BY Zenon, <2>2, <2>4, <3>1 DEF RowsInv
    <3>4. \A q \in Requests : pc'[q] = "usage" => UsageInv(info'[q], Kind(q) = "prune")
      BY ZenonT(60), <1>2, <3>1, EarlyStays DEF RowsInv, PluginInv
    <3>. QED
      BY Zenon, <2>1, <3>1, <3>2, <3>3, <3>4 DEF RowsInv
  <2>. QED
    BY Zenon, <2>3, <2>4
<1>3. ASSUME UNCHANGED <<scenario, pc, info>> PROVE RowsInv'
  BY Zenon, <1>3 DEF RowsInv, Kind
<1>4. ASSUME NEW r \in Requests, CollectorStep(r) PROVE RowsInv'
  BY Zenon, <1>3, <1>4 DEF CollectorStep, CollectorCopies, GetSmapsInfoNoPid, CollectorSets, object
<1>5. ASSUME NEW f \in Fetches, DumpMem(f) \/ WaitForResult(f) \/ OnMemDumpDone(f) PROVE RowsInv'
  BY Zenon, <1>3, <1>5 DEF DumpMem, WaitForResult, OnMemDumpDone, object
<1>6. CASE UNCHANGED vars
  BY Zenon, <1>3, <1>6 DEF vars, object
<1>. QED
  BY Zenon, <1>2, <1>4, <1>5, <1>6 DEF Next, ThreadStep

\* RowsOwn for any processes and figures, and whatever cannot be read of them: the
\* sums of a row are never made with what was left in the MemUsage by another
\* process, its graphics columns are exactly those read last, and no process has
\* two rows.
THEOREM RowsTheorem == Spec => []RowsOwn
<1>1. ASSUME RowsInv PROVE RowsOwn
  BY Zenon, <1>1 DEF RowsInv, RowInv, RowOwn, RowsOwn
<1>. QED
  BY <1>1, PluginInit, PluginStep, RowsInit, RowsStep, PTL DEF Spec
=============================================================================
