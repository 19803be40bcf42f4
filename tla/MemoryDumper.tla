---------------------------- MODULE MemoryDumper ----------------------------
(***************************************************************************)
(* Memory dump requests running side by side in the dump service.  Every   *)
(* request makes a MemoryInfo object of its own in the memory library, so  *)
(* the object's mutexes keep nobody out; shared are the flag g_isDumpMem,  *)
(* which ends a repeated dump, and the plugin with its reference count.    *)
(* Threads of a request's own are the detached collector of the dump of    *)
(* all processes and the fetches (std::async) of the dump of one process,  *)
(* which wait for an answer of the application through a callback object.  *)
(*                                                                         *)
(* A scenario says which kinds of request run together and how many rounds *)
(* a repeated dump is followed for.                                        *)
(***************************************************************************)
EXTENDS MemoryInfo

CONSTANTS
    Requests,   \* requests
    Scenarios,  \* records: kinds of the requests, the bound on rounds, whether
                \* record_mem.txt can be opened, and IsUserMode
    Details,    \* process details the collector may return
    Opts,       \* show options of a dump of one process
    SourcesOf,  \* what GetMemoryInfoByPid may read of a process beside its details
    Pids,       \* pids GetUserPids finds, a sequence
    Sources,    \* per pid: its smaps_rollup and graphics memory
    Smaps,      \* per pid: the lines of its smaps
    Meminfos,   \* contents of /proc/meminfo
    Usages,     \* records: registers of reserved memory FindFilePaths finds or Bad,
                \* the pages= lines of /proc/vmallocinfo or Bad, the CMA command's
    HeapOpts,   \* options of a heap dump
    Answers     \* answers of an application

Kinds == {"none", "sigint", "repeat", "pid", "smaps", "all", "prune",
          "heap", "jsheap", "cjheap"}

ASSUME ScenariosAssumption ==
    \A s \in Scenarios : /\ s.kinds \in [Requests -> Kinds]
                          /\ s.rounds \in Nat /\ s.record \in BOOLEAN /\ s.userMode \in BOOLEAN

\* What a smaps_rollup may hold: lines of a type and a value.
Rollups == Seq(STRING \X Nat)

\* A directory lists an entry once, and figures are numbers.
ASSUME SourcesAssumption ==
    /\ Pids \in Seq(Range(Pids)) /\ IsInjective(Pids)
    /\ \A pid \in Range(Pids) :
         /\ {"own", "gl", "graph"} \subseteq DOMAIN Sources[pid]
         /\ Sources[pid].own = Bad \/ Sources[pid].own \in Rollups
         /\ Sources[pid].gl \in Nat \cup {Bad} /\ Sources[pid].graph \in Nat \cup {Bad}

\* SetLeakobjParam takes --leakobj for a native heap only, and
\* CheckDumpHeapMemParameter refuses more than one type.
ASSUME HeapOptsAssumption ==
    \A o \in HeapOpts : o.leakobj \in BOOLEAN /\ (o.leakobj => o.types = {"native"})

VARIABLES
    scenario,     \* the scenario, fixed
    pc,           \* per request: where it is
    g_isDumpMem,  \* repeated dumps go on
    g_refCount,   \* references to the plugin; it is loaded while there are any
    loadFailed,   \* some LoadPlugin failed (history)
    live,         \* requests whose MemoryInfo object exists
    info,         \* per request: the members of the object
    screen,       \* per request: lines on the caller's terminal
    out,          \* per request: sections it wrote
    collector,    \* per request: its collector thread
    fetch,        \* per fetch: where it is and its result
    callback,     \* per fetch: the MemDumpCallbackImpl it waits on
    inTime        \* per fetch: the answer that came while it waited (history)

shared == <<g_isDumpMem, g_refCount, loadFailed>>
object == <<live, info, screen>>
fetches == <<fetch, callback, inTime>>
vars == <<scenario, pc, shared, object, out, collector, fetches>>

Fetches == Requests \X {"arkts", "leak", "heap"}

NoInfo == [mem |-> NoMembers, opts |-> <<>>, pssValues |-> <<>>, prevLineCount |-> 0,
           pids |-> <<>>, usage |-> InitMemUsage, memUsages_ |-> <<>>, failed |-> {},
           meminfo |-> <<>>]

Silence == [bar |-> FALSE, name |-> "", size |-> Bad]   \* the empty answer
Idle    == [at |-> "none", result |-> Silence]
Empty   == [completed_ |-> FALSE, dumpResult_ |-> Silence]

Init ==
    /\ scenario \in Scenarios
    /\ pc = [r \in Requests |-> IF scenario.kinds[r] = "none" THEN "done" ELSE "start"]
    /\ g_isDumpMem = TRUE
    /\ g_refCount = 0 /\ loadFailed = FALSE
    /\ live = {}
    /\ info = [r \in Requests |-> NoInfo]
    /\ screen = [r \in Requests |-> <<>>]
    /\ out = [r \in Requests |-> <<>>]
    /\ collector = [r \in Requests |-> [at |-> "none", pids |-> <<>>, groups |-> <<>>]]
    /\ fetch = [f \in Fetches |-> Idle]
    /\ callback = [f \in Fetches |-> Empty]
    /\ inTime = [f \in Fetches |-> Silence]

Kind(r) == scenario.kinds[r]
Goto(r, from, to) == pc[r] = from /\ pc' = [pc EXCEPT ![r] = to]
Write(r, lines) == out' = [out EXCEPT ![r] = @ \o lines]

\* Where a request of the kind goes once its object exists.
Entry == [sigint |-> "sigint", repeat |-> "begin", pid |-> "bypid",
          all |-> "init", prune |-> "init"]

(***************************************************************************)
(* The plugin.                                                             *)
(***************************************************************************)
\* The constructor of MemoryInfo.  dlopen or dlsym may fail; the object is
\* made all the same.
LoadPlugin(r) ==
    /\ Goto(r, "construct", Entry[Kind(r)])
    /\ live' = live \cup {r}
    /\ \/ g_refCount > 0 /\ g_refCount' = g_refCount + 1 /\ UNCHANGED loadFailed
       \/ g_refCount = 0 /\ g_refCount' = 1 /\ UNCHANGED loadFailed
       \/ g_refCount = 0 /\ UNCHANGED g_refCount /\ loadFailed' = TRUE
    /\ UNCHANGED <<scenario, g_isDumpMem, info, screen, out, collector, fetches>>

\* Fault: the destructor closes the plugin whoever else uses it.
UnloadPluginAlways(r) ==
    /\ Goto(r, "destruct", IF Kind(r) = "pid" THEN "arkts" ELSE "done")
    /\ live' = live \ {r}
    /\ g_refCount' = 0
    /\ UNCHANGED <<scenario, g_isDumpMem, loadFailed, info, screen, out, collector, fetches>>

\* The destructor of MemoryInfo, when the library function returns.
UnloadPlugin(r) ==
    /\ Goto(r, "destruct", IF Kind(r) = "pid" THEN "arkts" ELSE "done")
    /\ live' = live \ {r}
    /\ g_refCount' = IF g_refCount > 0 THEN g_refCount - 1 ELSE 0
    /\ UNCHANGED <<scenario, g_isDumpMem, loadFailed, info, screen, out, collector, fetches>>

\* What QueryMemInfo and CollectGpumem test, under the plugin's mutex.
PluginLoaded == g_refCount > 0

(***************************************************************************)
(* MemoryDumper::Execute.                                                  *)
(***************************************************************************)
\* The library or its function cannot be had: the request ends.
LibraryMissing(r) ==
    /\ Kind(r) \in {"sigint", "repeat", "smaps", "all", "prune"}
    /\ Goto(r, "start", "done")
    /\ UNCHANGED <<scenario, shared, object, out, collector, fetches>>

Execute(r) ==
    /\ Kind(r) \in DOMAIN Entry \ {"pid"}
    /\ Goto(r, "start", "construct")
    /\ UNCHANGED <<scenario, shared, object, out, collector, fetches>>

\* GetMemByPid starts the fetches the options ask for.  Without the library it
\* returns, and the futures of the dumper wait for the fetches.
StartFetches(r) ==
    /\ Kind(r) = "pid"
    /\ \E opts \in Opts :
        /\ info' = [info EXCEPT ![r].opts = opts]
        /\ fetch' = [f \in Fetches |->
                       IF \/ f = <<r, "arkts">> /\ opts.showArktsHeap
                          \/ f = <<r, "leak">> /\ opts.showLeakThread
                       THEN [fetch[f] EXCEPT !.at = "ask"] ELSE fetch[f]]
    /\ \/ Goto(r, "start", "construct")
       \/ Goto(r, "start", "join")
    /\ UNCHANGED <<scenario, shared, live, screen, out, collector, callback, inTime>>

Ended == {"done", "refused", "timeout"}

Settled(r) == \A f \in Fetches : f[1] = r => fetch[f].at \in Ended \cup {"none"}

Join(r) ==
    /\ Goto(r, "join", "done")
    /\ Settled(r)
    /\ UNCHANGED <<scenario, shared, object, out, collector, fetches>>

\* ShowMemorySmapsByPid makes no MemoryInfo object.
GetMemSmapsByPid(r) ==
    /\ Kind(r) = "smaps"
    /\ Goto(r, "start", "done")
    /\ \/ UNCHANGED out
       \/ \E detail \in Details, address \in BOOLEAN :
            Write(r, << [k |-> "smaps", detail |-> detail,
                         table |-> ShowMemorySmapsByPid(detail.details, address,
                                                        scenario.userMode)] >>)
    /\ UNCHANGED <<scenario, shared, object, collector, fetches>>

\* The memory collector finds the details of the process, or fails.
CollectProcessMemoryDetail == Details \cup {Bad}

\* What GetMemoryInfoByPid may return.
Dumps(r, opts) ==
    { GetMemoryInfoByPid(info[r].mem, detail, Head(Pids), opts, src, PluginLoaded)
      : detail \in CollectProcessMemoryDetail, src \in SourcesOf }

(***************************************************************************)
(* The repeated dump and the interrupt.                                    *)
(***************************************************************************)
\* The two lines a repeated dump begins with, and the options it uses.
Heading == << [k |-> "memory"], [k |-> "blank"] >>
NoOpts  == [showDmaBuf |-> FALSE, showAshmem |-> FALSE, showGpumem |-> FALSE]

SetReceivedSigInt(r) ==
    /\ Goto(r, "sigint", "destruct")
    /\ g_isDumpMem' = FALSE
    /\ UNCHANGED <<scenario, g_refCount, loadFailed, object, out, collector, fetches>>

\* Fault: the flag is set when the dump begins.
TimeIntervalBeginsArmed(r) ==
    /\ Goto(r, "begin", "loop")
    /\ g_isDumpMem' = TRUE
    /\ screen' = [screen EXCEPT ![r] = Heading]
    /\ UNCHANGED <<scenario, g_refCount, loadFailed, live, info, out, collector, fetches>>

\* GetMemoryInfoByTimeInterval up to its loop.
TimeIntervalBegins(r) ==
    /\ Goto(r, "begin", "loop")
    /\ screen' = [screen EXCEPT ![r] = Heading]
    /\ UNCHANGED <<scenario, shared, live, info, out, collector, fetches>>

\* PrintMemoryInfo: the lines of the round before are cleared, as many as it
\* counted, and the new ones written.
PrintMemoryInfo(r, pssValues) ==
    LET prev == info[r].prevLineCount
        kept == IF prev > 0 THEN ClearPreviousLines(screen[r], prev) ELSE screen[r]
    IN  screen' = [screen EXCEPT ![r] = kept \o Output(pssValues)]

\* RedirectMemoryInfo appends the round's dump to a file, if that opens.
RedirectMemoryInfo(r, times, lines) ==
    IF scenario.record THEN Write(r, << [k |-> "times", times |-> times, lines |-> lines] >>)
    ELSE UNCHANGED out

\* One turn of the loop, when it reads the flag as set.  A round whose
\* collection fails shows the value of the round before.
Round(r) ==
    /\ pc[r] = "loop" /\ g_isDumpMem
    /\ Len(info[r].pssValues) < scenario.rounds
    /\ \E dump \in Dumps(r, NoOpts) :
        LET pssValues == Append(info[r].pssValues, dump.mem.currentPss_)
        IN  /\ info' = [info EXCEPT ![r].mem = dump.mem, ![r].pssValues = pssValues,
                                    ![r].prevLineCount = CurrentLineCount(pssValues)]
            /\ PrintMemoryInfo(r, pssValues)
            /\ RedirectMemoryInfo(r, Len(pssValues), dump.lines)
    /\ UNCHANGED <<scenario, pc, shared, live, collector, fetches>>

\* The loop ends when it reads the flag as cleared, and only then sets it.
LoopEnds(r) ==
    /\ ~g_isDumpMem
    /\ Goto(r, "loop", "rearm")
    /\ UNCHANGED <<scenario, shared, object, out, collector, fetches>>

Rearm(r) ==
    /\ Goto(r, "rearm", "destruct")
    /\ g_isDumpMem' = TRUE
    /\ UNCHANGED <<scenario, g_refCount, loadFailed, object, out, collector, fetches>>

(***************************************************************************)
(* The dump of all processes.                                              *)
(***************************************************************************)
\* GetMemoryInfoInit finds the pids, or the dump fails.  The full dump starts
\* its collector, a detached thread that holds a pointer to the object.
GetMemoryInfoInit(r) ==
    /\ pc[r] = "init"
    /\ Write(r, << [k |-> "title", columns |-> AddMemByProcessTitle(Kind(r) = "prune")] >>)
    /\ \/ Goto(r, "init", "destruct") /\ UNCHANGED <<info, collector>>
       \/ /\ Goto(r, "init", "usage")
          /\ info' = [info EXCEPT ![r].pids = Pids]
          /\ collector' = [collector EXCEPT ![r].at =
                             IF Kind(r) = "all" THEN "copy" ELSE "none"]
    /\ UNCHANGED <<scenario, shared, live, screen, fetches>>

\* What of a process can be read at the moment.
Readings(pid) ==
    { [Sources[pid] EXCEPT !.own = IF "own" \in bad THEN Bad ELSE @,
                           !.gl = IF "gl" \in bad THEN Bad ELSE @,
                           !.graph = IF "graph" \in bad THEN Bad ELSE @]
      : bad \in SUBSET {"own", "gl", "graph"} }

GetMemoryUsageInfo(r) ==
    /\ pc[r] = "usage" /\ info[r].pids # <<>>
    /\ LET pid == Head(info[r].pids)
       IN  \E source \in Readings(pid) :
             LET prune == Kind(r) = "prune"
                 usage == GetMemByProcessPid(info[r].usage, pid, source, prune)
             IN  /\ info' = [info EXCEPT
                           ![r].pids = Tail(@), ![r].usage = usage,
                           ![r].memUsages_ = IF source.own = Bad THEN @ ELSE Append(@, usage),
                           ![r].failed = @ \cup { <<pid, part>> : part \in
                               { p \in {"gl", "graph"} : source[p] = Bad } }]
                 /\ IF source.own = Bad THEN UNCHANGED out
                    ELSE Write(r, << [k |-> "PID",
                                      row |-> MemUsageToMatrix(usage, prune, source)] >>)
    /\ UNCHANGED <<scenario, pc, shared, live, screen, collector, fetches>>

\* The pruned dump ends with the rows.
PruneEnds(r) ==
    /\ Kind(r) = "prune" /\ info[r].pids = <<>>
    /\ Goto(r, "usage", "destruct")
    /\ UNCHANGED <<scenario, shared, object, out, collector, fetches>>

\* DealResult up to the future: without /proc/meminfo the dump fails and the
\* collector is not waited for.
DealResult(r) ==
    /\ Kind(r) = "all" /\ info[r].pids = <<>>
    /\ \/ /\ Goto(r, "usage", "destruct")
          /\ UNCHANGED <<info, out>>
       \/ /\ Goto(r, "usage", "get")
          /\ \E lines \in Meminfos :
               info' = [info EXCEPT ![r].meminfo = GetMeminfo(lines)]
          /\ LET sorted == GetSortedMemoryInfoNoPid(info[r].memUsages_)
             IN  Write(r, << [k |-> "Size",
                              rows |-> [i \in DOMAIN sorted |->
                                          MemUsageToMatrix(sorted[i], FALSE, Bad)]],
                             [k |-> "adj", rows |-> GetMemoryByAdj(info[r].memUsages_)] >>)
    /\ UNCHANGED <<scenario, shared, live, screen, collector, fetches>>

\* Fault: the categories are written from what the collector has so far.
GetNotWaiting(r) == TRUE

\* fut_.get()
FutureReady(r) == collector[r].at = "set"

Sum(r, field) == Total(LAMBDA u : u[field], info[r].memUsages_)

\* The rest of DealResult, with the figures of the whole system.
DealCategories(r) ==
    /\ FutureReady(r)
    /\ Goto(r, "get", "destruct")
    /\ LET groups  == collector[r].groups
           meminfo == info[r].meminfo
       IN  \E usage \in Usages :
             Write(r, << [k |-> "category", rows |-> GetPssTotal(groups, Sum(r, "gl"),
                                                Sum(r, "graph"), Sum(r, "dma"))],
                         [k |-> "ram", groups |-> groups, meminfo |-> meminfo,
                          lines |-> GetRamUsage(groups, meminfo)],
                         [k |-> "usage", regs |-> usage.regs,
                          lines |-> GetRamCategory(usage, groups, meminfo)],
                         [k |-> "purg", purg |-> GetPurgTotal(meminfo)] >>)
    /\ UNCHANGED <<scenario, shared, object, collector, fetches>>

\* The collector copies pids_ of the object; when the object is gone, what it
\* reads is undefined and nobody waits for it.
CollectorCopies(r) ==
    /\ collector[r].at = "copy"
    /\ collector' = [collector EXCEPT ![r] =
         IF r \in live THEN [@ EXCEPT !.at = "read", !.pids = Pids]
                       ELSE [@ EXCEPT !.at = "undefined"]]
    /\ UNCHANGED <<scenario, pc, shared, object, out, fetches>>

\* It reads the smaps of one process after the other; one may be gone.
GetSmapsInfoNoPid(r) ==
    /\ collector[r].at = "read" /\ collector[r].pids # <<>>
    /\ \E lines \in { Smaps[Head(collector[r].pids)], <<>> } :
         collector' = [collector EXCEPT ![r].pids = Tail(@),
                                        ![r].groups = GetInfo(lines, @)]
    /\ UNCHANGED <<scenario, pc, shared, object, out, fetches>>

CollectorSets(r) ==
    /\ collector[r].at = "read" /\ collector[r].pids = <<>>
    /\ collector' = [collector EXCEPT ![r].at = "set"]
    /\ UNCHANGED <<scenario, pc, shared, object, out, fetches>>

(***************************************************************************)
(* The dump of one process, and the fetches that run beside it.            *)
(***************************************************************************)
GetMemByPid(r) ==
    /\ Goto(r, "bypid", "destruct")
    /\ \E dump \in Dumps(r, info[r].opts) :
        /\ info' = [info EXCEPT ![r].mem = dump.mem]
        /\ Write(r, << [k |-> "pid", detail |-> dump.detail, lines |-> dump.lines] >>)
    /\ UNCHANGED <<scenario, shared, live, screen, collector, fetches>>

\* The number before the bar, if there is one, a name after it, and not 0.
ParseArktsHeapResult(result) ==
    result.bar /\ result.name # "" /\ result.size # Bad /\ result.size # 0

AppendArktsHeapData(result) ==
    IF result # Silence /\ ParseArktsHeapResult(result)
    THEN << [name |-> result.name, kB |-> result.size \div BYTE_TO_KB] >> ELSE <<>>

\* Waits for the future of the fetch; the title is written in any case.
MergeArktsHeapResult(r) ==
    /\ Goto(r, "arkts", "leak")
    /\ IF info[r].opts.showArktsHeap
       THEN /\ fetch[<<r, "arkts">>].at \in Ended
            /\ Write(r, << [k |-> "arktsheap:",
                            data |-> AppendArktsHeapData(fetch[<<r, "arkts">>].result)] >>)
       ELSE UNCHANGED out
    /\ UNCHANGED <<scenario, shared, object, collector, fetches>>

\* Fault: the result is read from the callback, whenever its answer came.
MergeLeakThreadResultLate(r) ==
    /\ Goto(r, "leak", "done")
    /\ IF info[r].opts.showLeakThread
       THEN /\ fetch[<<r, "leak">>].at \in Ended
            /\ Write(r, << [k |-> "leakthread:",
                            data |-> IF callback[<<r, "leak">>].dumpResult_ = Silence THEN <<>>
                                     ELSE << callback[<<r, "leak">>].dumpResult_ >>] >>)
       ELSE UNCHANGED out
    /\ UNCHANGED <<scenario, shared, object, collector, fetches>>

MergeLeakThreadResult(r) ==
    /\ Goto(r, "leak", "done")
    /\ IF info[r].opts.showLeakThread
       THEN /\ fetch[<<r, "leak">>].at \in Ended
            /\ Write(r, << [k |-> "leakthread:",
                            data |-> IF fetch[<<r, "leak">>].result = Silence THEN <<>>
                                     ELSE << fetch[<<r, "leak">>].result >>] >>)
       ELSE UNCHANGED out
    /\ UNCHANGED <<scenario, shared, object, collector, fetches>>

\* DumpMem of the application manager.  Without the manager, or when it
\* refuses, the fetch ends with nothing; so it does when nothing is to be
\* waited for.
IsSync(f) == f[2] = "heap" => info[f[1]].opts.isSync

DumpMem(f) ==
    /\ fetch[f].at = "ask"
    /\ \/ fetch' = [fetch EXCEPT ![f].at = "refused"]
       \/ fetch' = [fetch EXCEPT ![f].at = IF IsSync(f) THEN "wait" ELSE "done"]
    /\ UNCHANGED <<scenario, pc, shared, object, out, collector, callback, inTime>>

\* The application answers, once, perhaps when nobody waits any more.
OnMemDumpDone(f) ==
    /\ fetch[f].at \in {"wait", "timeout"}
    /\ ~callback[f].completed_
    /\ \E answer \in Answers \cup {Silence} :
        /\ callback' = [callback EXCEPT ![f] = [completed_ |-> TRUE, dumpResult_ |-> answer]]
        /\ inTime' = IF fetch[f].at = "wait" THEN [inTime EXCEPT ![f] = answer] ELSE inTime
    /\ UNCHANGED <<scenario, pc, shared, object, out, collector, fetch>>

\* Fault: the wait has no end.
WaitEndsAnswered(f) == fetch[f].at = "wait" /\ callback[f].completed_

\* The wait ends when there is an answer, or in time.
WaitEnds(f) == fetch[f].at = "wait"

WaitForResult(f) ==
    /\ WaitEnds(f)
    /\ fetch' = [fetch EXCEPT ![f] =
         IF callback[f].completed_ THEN [at |-> "done", result |-> callback[f].dumpResult_]
                                   ELSE [@ EXCEPT !.at = "timeout"]]
    /\ UNCHANGED <<scenario, pc, shared, object, out, collector, callback, inTime>>

(***************************************************************************)
(* Heap dumps: the application is asked, and only a list of leaked native  *)
(* objects comes back.                                                     *)
(***************************************************************************)
DetermineDumpType(o) ==
    CASE "kotlin" \in o.types -> "KMP_KOTLIN"
      [] "kotlin" \notin o.types /\ "native" \in o.types -> "NATIVE"
      [] o.types \cap {"kotlin", "native"} = {} /\ "jsvm" \in o.types -> "JSVM"
      [] o.types = {"arkweb"} -> "ARKWEB_JS"
      [] o.types = {} -> "INVALID"

HeapInfo(o) ==
    [pid |-> IF o.argPid > 0 THEN o.argPid ELSE o.memPid, dumpType |-> DetermineDumpType(o),
     needDump |-> ~o.gc, needGc |-> o.gc, needLeakobj |-> o.leakobj, needRaw |-> o.raw,
     isSync |-> DetermineDumpType(o) = "NATIVE" /\ o.leakobj]

\* A garbage collection alone takes no snapshot; a combined dump is of the
\* whole process.
JsHeapInfo(o) ==
    [pid |-> o.memPid, tid |-> IF o.combine THEN o.memPid ELSE o.tid, needGc |-> TRUE,
     needDump |-> ~o.gc, needLeakobj |-> o.leakobj /\ ~o.gc, needRaw |-> o.raw /\ ~o.gc,
     needClearNodeIdCache |-> o.clean, needProcDump |-> o.combine, isSync |-> FALSE]

CjHeapInfo(o) ==
    [pid |-> o.memPid, needGc |-> TRUE, needDump |-> ~o.gc, needLeakobj |-> FALSE,
     isSync |-> FALSE]

HeapKinds == {"heap", "jsheap", "cjheap"}

HeapExecute(r) ==
    /\ Kind(r) \in HeapKinds
    /\ Goto(r, "start", "heap")
    /\ \E o \in HeapOpts :
         info' = [info EXCEPT ![r].opts = CASE Kind(r) = "heap"   -> HeapInfo(o)
                                            [] Kind(r) = "jsheap" -> JsHeapInfo(o)
                                            [] Kind(r) = "cjheap" -> CjHeapInfo(o)]
    /\ fetch' = [fetch EXCEPT ![<<r, "heap">>].at = "ask"]
    /\ UNCHANGED <<scenario, shared, live, screen, out, collector, callback, inTime>>

\* DumpDatas calls AfterExecute only if Execute succeeded: the application was
\* asked, and a dump that waits got an answer.  That of HeapMemoryDumper then
\* writes a line for leaked objects, the answer or a hint (no data); the other
\* two write none.
HeapAfterExecute(r) ==
    LET f        == <<r, "heap">>
        asked    == info[r].opts
        executed == fetch[f].at = "done" /\ (asked.isSync => fetch[f].result # Silence)
    IN  /\ Goto(r, "heap", "done")
        /\ fetch[f].at \in Ended
        /\ IF executed /\ Kind(r) = "heap" /\ asked.needLeakobj
           THEN Write(r, << [k |-> "heap", data |-> IF fetch[f].result = Silence THEN <<>>
                                                   ELSE << fetch[f].result >>] >>)
           ELSE UNCHANGED out
        /\ UNCHANGED <<scenario, shared, object, collector, fetches>>

(***************************************************************************)
(* The specification.                                                      *)
(***************************************************************************)
RequestStep(r) ==
    \/ LoadPlugin(r) \/ UnloadPlugin(r) \/ LibraryMissing(r) \/ Execute(r)
    \/ StartFetches(r) \/ Join(r) \/ GetMemSmapsByPid(r)
    \/ SetReceivedSigInt(r) \/ TimeIntervalBegins(r) \/ Round(r) \/ LoopEnds(r) \/ Rearm(r)
    \/ GetMemoryInfoInit(r) \/ GetMemoryUsageInfo(r) \/ PruneEnds(r) \/ DealResult(r)
    \/ DealCategories(r)
    \/ GetMemByPid(r) \/ MergeArktsHeapResult(r) \/ MergeLeakThreadResult(r)
    \/ HeapExecute(r) \/ HeapAfterExecute(r)

CollectorStep(r) == CollectorCopies(r) \/ GetSmapsInfoNoPid(r) \/ CollectorSets(r)

ThreadStep ==
    \/ \E r \in Requests : RequestStep(r) \/ CollectorStep(r)
    \/ \E f \in Fetches : DumpMem(f) \/ WaitForResult(f)

Next == ThreadStep \/ \E f \in Fetches : OnMemDumpDone(f)

Spec == Init /\ [][Next]_vars

\* What a request that cannot go on waits for.
CanStep(r) ==
    CASE pc[r] = "loop"  -> ~g_isDumpMem \/ Len(info[r].pssValues) < scenario.rounds
      [] pc[r] = "get"   -> FutureReady(r)
      [] pc[r] = "join"  -> Settled(r)
      [] pc[r] = "arkts" -> info[r].opts.showArktsHeap => fetch[<<r, "arkts">>].at \in Ended
      [] pc[r] = "leak"  -> info[r].opts.showLeakThread => fetch[<<r, "leak">>].at \in Ended
      [] pc[r] = "heap"  -> fetch[<<r, "heap">>].at \in Ended
      [] OTHER           -> pc[r] # "done"

SomeThreadCanStep ==
    \/ \E r \in Requests : CanStep(r) \/ collector[r].at \in {"copy", "read"}
    \/ \E f \in Fetches : fetch[f].at = "ask" \/ WaitEnds(f)

\* Threads run while one of them can; an application need not answer.  This
\* is weak fairness of ThreadStep: SomeThreadCanStep is when it is enabled,
\* and its steps are those that leave the callbacks alone.
LiveSpec ==
    Spec /\ ([]<>~SomeThreadCanStep \/ []<><<callback' = callback>>_vars)

(***************************************************************************)
(* Properties.                                                             *)
(***************************************************************************)
Sections(r, k) == { i \in DOMAIN out[r] : out[r][i].k = k }

\* A repeated dump that runs alone ends once an interrupt has come, be it
\* before its first round (GetMemoryInfoByTimeInterval sets g_isDumpMem only
\* after its loop).
InterruptEnds ==
    \A r \in Requests :
        (/\ Kind(r) = "repeat" /\ \A q \in Requests \ {r} : Kind(q) # "repeat"
         /\ pc[r] \in {"begin", "loop"} /\ ~g_isDumpMem) ~> pc[r] = "done"

\* Every dump that is not repeated returns, whatever the application, the
\* collector or the library do (WaitForResult and fut_.get()).
DumpsReturn ==
    \A r \in Requests : Kind(r) # "repeat" => <>(pc[r] = "done")

\* On the terminal of a repeated dump stand the heading, one header and the
\* lines of the last round: in order of their times, with an ellipsis exactly
\* where some are skipped, the newest last, and a line with the header's
\* maximum among them (PrintMemoryInfo, ClearPreviousLines).
DisplayExact ==
    \A r \in Requests :
        LET pss   == info[r].pssValues
            body  == SubSeq(screen[r], 5, Len(screen[r]))
            lines == SelectSeq(body, LAMBDA l : l.k = "line")
            \* the measurement before and after a place of the body
            before(i) == IF body[i - 1].k = "line" THEN body[i - 1].times ELSE 0
        IN  pss # <<>> =>
            /\ SubSeq(screen[r], 1, 2) = Heading
            /\ screen[r][3].k = "titles"
            /\ screen[r][4] = [k |-> "times", count |-> Len(pss), maxMem |-> Max(Range(pss)),
                               change |-> pss[Len(pss)] - pss[1]]
            /\ \A i \in DOMAIN lines : lines[i].pss = pss[lines[i].times]
            /\ lines[1].times = 1 /\ Last(lines).times = Len(pss)
            /\ \E i \in DOMAIN lines : lines[i].pss = Max(Range(pss))
            /\ \A i \in 2..Len(body) :
                 IF body[i].k = "line" /\ body[i - 1].k = "line"
                 THEN body[i].times = before(i) + 1
                 ELSE body[i] = Dots => body[i + 1].times > before(i) + 1

\* A dump of all processes that got as far as its system-wide figures never
\* leaves a collector behind that still reads the object's pids_: only a dump
\* that failed on /proc/meminfo does (DealResult).
CollectorDoneFirst ==
    \A r \in Requests :
        (r \notin live /\ collector[r].at \in {"copy", "undefined"}) => info[r].meminfo = <<>>

\* While no load has failed, the plugin stays loaded for every MemoryInfo
\* object there is (LoadPlugin, UnloadPlugin).
PluginHeld == loadFailed \/ g_refCount = Cardinality(live)

\* The figure is the one that was read last of the first processes of the
\* listing, 0 if none could be read.
LastRead(figure, places, part, failed) ==
    LET read == { i \in 1..places : <<Pids[i], part>> \notin failed }
    IN  \/ read = {} /\ figure = 0
        \/ \E i \in read : figure = Sources[Pids[i]][part] /\ \A j \in read : j <= i

\* The graphics columns of a usage after the first processes of the listing.
GraphicsColumns(u, places, failed, prune) ==
    /\ LastRead(u.gl, places, "gl", failed)
    /\ IF prune THEN u.graph = 0 ELSE LastRead(u.graph, places, "graph", failed)
    /\ u.dma = u.graph

\* The sums of a row are those of its process, with the graphics memory that
\* could be read of it.
SumsOwn(u, failed, prune) ==
    LET s     == Sources[u.pid]
        own   == GetMemInfo(s.own)
        gl    == IF <<u.pid, "gl">> \in failed THEN 0 ELSE s.gl
        graph == IF prune \/ <<u.pid, "graph">> \in failed THEN 0 ELSE s.graph
    IN  /\ u.pss = own.pss + gl + graph /\ u.swapPss = own.swapPss
        /\ ~prune => /\ u.uss = own.privateClean + own.privateDirty + gl + graph
                     /\ u.rss = own.rss + gl + graph /\ u.vss = GetVss(s)

\* What the rows of processes hold, whatever could not be read of a process or
\* of the ones before it (GetMemByProcessPid fills one MemUsage for all).  The
\* sums, vss, uss, rss and pss, are the process's own: the rollup plus the
\* graphics memory that could be read of that very process.  The columns gl,
\* graph and dma are its own as far as they could be read; where they could
\* not, the row repeats, and the totals count again, the figure of the last
\* process before it that had one.  No process has two rows.
RowsOwn ==
    \A r \in Requests : \A i \in DOMAIN info[r].memUsages_ :
        LET rows  == info[r].memUsages_
            prune == Kind(r) = "prune"
        IN  /\ SumsOwn(rows[i], info[r].failed, prune)
            /\ \E n \in DOMAIN Pids : /\ Pids[n] = rows[i].pid
                                      /\ GraphicsColumns(rows[i], n, info[r].failed, prune)
            /\ \A j \in DOMAIN rows : rows[i].pid = rows[j].pid => i = j


\* The system-wide figures are exact: lost RAM is what the known uses leave of
\* the total, negative if they exceed it; every register of reserved memory
\* counts once however many threads share them; and the categories add up to
\* the usage of the processes, but for values before any name line.
FiguresExact ==
    \A r \in Requests : \A i \in Sections(r, "ram") :
        LET s        == out[r][i]
            usage    == out[r][i + 1]
            free     == s.lines[2]
            mem(t)   == IF t \in DOMAIN s.meminfo THEN s.meminfo[t] ELSE 0
            sum(t)   == MapThenSumSet(LAMBDA g : s.groups[g][t],
                                      { g \in DOMAIN s.groups : t \in DOMAIN s.groups[g] })
            recl     == IF mem("KReclaimable") # 0 THEN mem("KReclaimable") ELSE mem("SReclaimable")
            cached   == Max({0, mem("Buffers") + mem("Cached") + recl - mem("Mapped")})
            kernel   == mem("Shmem") + mem("Slab") + mem("VmallocUsed") + mem("PageTables")
                        + mem("KernelStack")
            unnamed  == IF NoGroup \in DOMAIN s.groups
                        THEN MapThenSumSet(LAMBDA k : s.groups[NoGroup][k],
                                           DOMAIN s.groups[NoGroup] \cap {"Pss", "SwapPss"})
                        ELSE 0
            category == out[r][i - 1].rows
        IN  /\ free.value = free.parts[1] + free.parts[2]
            /\ s.lines[4].value = mem("MemTotal")
                 - (sum("Pss") - sum("SwapPss") + mem("MemFree") + cached + kernel)
            /\ usage.regs # Bad =>
                 usage.lines.hardware = Total(GetResverRegValue, usage.regs) \div BYTE_TO_KB
            /\ category[1].total + category[2].total + unnamed = usage.lines.processes

\* What an application answers is shown exactly when it answered in time, and
\* an answer that comes late changes nothing (MergeArktsHeapResult,
\* MergeLeakThreadResult).  All a heap dump writes is the answer to a dump that
\* waits, and nothing when it was refused, timed out or got an empty one: the
\* hint of HeapMemoryDumper's AfterExecute is never shown.
AnswersShown ==
    \A r \in Requests :
        /\ \A i \in Sections(r, "leakthread:") :
             out[r][i].data = IF inTime[<<r, "leak">>] = Silence THEN <<>>
                              ELSE << inTime[<<r, "leak">>] >>
        /\ \A i \in Sections(r, "arktsheap:") :
             out[r][i].data = AppendArktsHeapData(inTime[<<r, "arkts">>])
        /\ Kind(r) \in HeapKinds /\ pc[r] = "done" =>
             out[r] = IF inTime[<<r, "heap">>] = Silence THEN <<>>
                      ELSE << [k |-> "heap", data |-> << inTime[<<r, "heap">>] >>] >>
=============================================================================
