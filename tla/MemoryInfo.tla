----------------------------- MODULE MemoryInfo -----------------------------
(***************************************************************************)
(* The computations of class MemoryInfo: the display of a repeated dump,   *)
(* the rows of the processes and the orders they are shown in, and the     *)
(* lines of the dump of one process.  MemoryDumper runs them.              *)
(***************************************************************************)
EXTENDS SmapsInfo, MemoryFigures

CONSTANTS
    MinIndex,   \* minIndex of PrintMemoryInfo, 5 in the code
    LastLines,  \* lastLines, 5 in the code
    Labels,     \* Memory::ReclaimPriorityMapping, a sequence of descriptions
    LabelOf     \* Memory::GetReclaimPriorityString

ASSUME InfoAssumption == MinIndex \in Nat \ {0} /\ LastLines \in Nat \ {0}

\* maxPssValues and thresholdLines, 10 and 6 in the code.
MaxPssValues   == MinIndex + LastLines
ThresholdLines == LastLines + 1

(***************************************************************************)
(* The display of a repeated dump.  Indices of pssValues are the code's    *)
(* plus 1.  A line is the header, an ellipsis, or a measurement.           *)
(***************************************************************************)
Dots == [k |-> "..."]

GenerateTimestamps(pssValues) ==
    LET max == CHOOSE v \in Range(pssValues) : \A x \in Range(pssValues) : x <= v
    IN  << [k |-> "titles"],
           [k |-> "times", count |-> Len(pssValues), maxMem |-> max,
            change |-> Last(pssValues) - Head(pssValues)] >>

GenerateLine(pssValues, i) == [k |-> "line", times |-> i, pss |-> pssValues[i]]

\* Fault: the search begins one value late.
CalculateMaxIdexLate(pssValues) ==
    FoldLeft(LAMBDA max, i : IF pssValues[i] > pssValues[max] THEN i ELSE max, 1,
             [i \in 1..(Len(pssValues) - MaxPssValues - 1) |-> MinIndex + 1 + i])

\* The first largest value between the head and the tail, if it exceeds the
\* very first value; else the index of that one.
CalculateMaxIdex(pssValues) ==
    FoldLeft(LAMBDA max, i : IF pssValues[i] > pssValues[max] THEN i ELSE max, 1,
             [i \in 1..(Len(pssValues) - MaxPssValues) |-> MinIndex + i])

\* Between head and tail: the largest value and what it stands for.
Middle(pssValues) ==
    LET n   == Len(pssValues)
        max == CalculateMaxIdex(pssValues)
    IN  IF max > MinIndex /\ max <= n - LastLines
        THEN (IF max > MinIndex + 1 THEN <<Dots>> ELSE <<>>)
             \o << GenerateLine(pssValues, max) >>
             \o (IF max <= n - ThresholdLines THEN <<Dots>> ELSE <<>>)
        ELSE <<Dots>>

Output(pssValues) ==
    LET n           == Len(pssValues)
        Lines(a, b) == [i \in 1..(b - a + 1) |-> GenerateLine(pssValues, a + i - 1)]
    IN  GenerateTimestamps(pssValues)
        \o IF n <= MaxPssValues THEN Lines(1, n)
           ELSE Lines(1, MinIndex) \o Middle(pssValues) \o Lines(n - LastLines + 1, n)

\* currentLineCount as the code counts it: two header lines, then one by one.
CurrentLineCount(pssValues) ==
    LET n   == Len(pssValues)
        max == CalculateMaxIdex(pssValues)
    IN  2 + IF n <= MaxPssValues THEN n
            ELSE MinIndex + LastLines
                 + IF max > MinIndex /\ max <= n - LastLines
                   THEN 1 + (IF max > MinIndex + 1 THEN 1 ELSE 0)
                          + (IF max <= n - ThresholdLines THEN 1 ELSE 0)
                   ELSE 1

\* The cursor goes up and clears, a line at a time.
ClearPreviousLines(screen, lineCount) == SubSeq(screen, 1, Len(screen) - lineCount)

(***************************************************************************)
(* Rows of processes.  A source is what can be read of a process: own, the *)
(* lines of its smaps_rollup, vss, the pages of statm, score, its          *)
(* oom_score_adj, and gl and graph, its graphics memory; each may be Bad.  *)
(***************************************************************************)
InitMemUsage == [pid |-> 0, vss |-> 0, rss |-> 0, uss |-> 0, pss |-> 0, swapPss |-> 0,
                 gl |-> 0, graph |-> 0, dma |-> 0, adjLabel |-> ""]

\* ParseSmapsRollupInfo: the last line of a type counts.
GetMemInfo(lines) ==
    LET value(type) == LET of == { i \in DOMAIN lines : lines[i][1] = type }
                       IN  IF of = {} THEN 0 ELSE lines[Max(of)][2]
    IN  [rss |-> value("Rss"), pss |-> value("Pss"), swapPss |-> value("SwapPss"),
         privateClean |-> value("Private_Clean"), privateDirty |-> value("Private_Dirty")]

VSS_BIT == 4
GetVss(source) == IF source.vss = Bad THEN 0 ELSE source.vss * VSS_BIT

GetProcessAdjLabel(source) == IF source.score = Bad THEN "Unknown" ELSE LabelOf[source.score]

GetScoreAdj(source) == IF source.score = Bad THEN -1 ELSE source.score

FromRollup(usage, pid, source, prune) ==
    IF source.own = Bad THEN usage
    ELSE LET memInfo == GetMemInfo(source.own)
             full == IF prune THEN usage
                     ELSE [usage EXCEPT !.vss = GetVss(source), !.rss = memInfo.rss,
                                        !.uss = memInfo.privateClean + memInfo.privateDirty]
         IN  [full EXCEPT !.pid = pid, !.pss = memInfo.pss, !.swapPss = memInfo.swapPss,
                          !.adjLabel = GetProcessAdjLabel(source)]

FromGL(usage, source, prune) ==
    IF source.gl = Bad THEN usage
    ELSE LET add == IF prune THEN 0 ELSE source.gl
         IN  [usage EXCEPT !.gl = source.gl, !.uss = @ + add, !.rss = @ + add,
                           !.pss = @ + source.gl]

FromGraph(usage, source, prune) ==
    IF prune \/ source.graph = Bad THEN usage
    ELSE [usage EXCEPT !.graph = source.graph, !.dma = source.graph,
                       !.uss = @ + source.graph, !.pss = @ + source.graph,
                       !.rss = @ + source.graph]

\* Fault: the graphics memory is added before the rollup is assigned.
GetMemByProcessPidGraphicsFirst(usage, pid, source, prune) ==
    FromRollup(FromGraph(FromGL(usage, source, prune), source, prune), pid, source, prune)

\* The usage is the one of the process before; what cannot be read stays.
GetMemByProcessPid(usage, pid, source, prune) ==
    FromGraph(FromGL(FromRollup(usage, pid, source, prune), source, prune), source, prune)

Pss(usage) == usage.pss + usage.swapPss

\* The columns of the table of processes, and a row of it.  Purgeable memory
\* of a process is never set.
AddMemByProcessTitle(prune) ==
    IF prune THEN << "PID", "Total Pss", "GL", "AdjLabel", "Name" >>
    ELSE << "PID", "Total Pss", "Total Vss", "Total Rss", "Total Uss", "GL", "Graph", "Dma",
            "PurgSum", "PurgPin", "Name" >>

MemUsageToMatrix(usage, prune, source) ==
    IF prune THEN << usage.pid, Pss(usage), usage.gl, GetScoreAdj(source), usage.pid >>
    ELSE << usage.pid, Pss(usage), usage.vss, usage.rss, usage.uss, usage.gl, usage.graph,
            usage.dma, 0, 0, usage.pid >>

\* The order of GetSortedMemoryInfoNoPid.
Before(left, right) ==
    LET key(u) == << Pss(u), u.vss, u.rss, u.uss, u.pid >>
    IN  \E i \in 1..5 : /\ key(left)[i] > key(right)[i]
                        /\ \A j \in 1..(i - 1) : key(left)[j] = key(right)[j]

GetSortedMemoryInfoNoPid(usages) == SortSeq(usages, Before)

\* adjMemResult_ keeps the rows of a label in the order they came.
OfLabel(usages, label) == SelectSeq(usages, LAMBDA u : u.adjLabel = label)

GetMemoryByAdj(usages) ==
    LET reclaimPriority == Append(Labels, "Unknown")
    IN  [i \in DOMAIN reclaimPriority |->
            LET memUsages == OfLabel(usages, reclaimPriority[i])
            IN  [label |-> reclaimPriority[i], total |-> Total(Pss, memUsages),
                 rows |-> SortSeq(memUsages, LAMBDA x, y : Pss(y) < Pss(x))]]

\* Categories of one kind of page, the largest first, with their sum.
PairToStringMatrix(title, pairs) ==
    [title |-> title, total |-> Total(LAMBDA p : p[2], pairs),
     rows |-> SortSeq(pairs, LAMBDA a, b : b[2] < a[2])]

\* A group without a page tag is skipped.
GetPssTotal(infos, totalGL, totalGraph, totalDma) ==
    LET value(g)  == MapThenSumSet(LAMBDA k : infos[g][k],
                                   DOMAIN infos[g] \cap {"Pss", "SwapPss"})
        page(tag) == LET groups == SetToSeq({ g \in DOMAIN infos : g # NoGroup /\ g[1] = tag })
                     IN  [i \in DOMAIN groups |-> << groups[i][2], value(groups[i]) >>]
    IN  << PairToStringMatrix("file", page("File-backed Page")),
           PairToStringMatrix("anon", page("Anonymous Page")),
           PairToStringMatrix("GPU", << <<"GL", totalGL>> >>),
           PairToStringMatrix("Graph", << <<"Graph", totalGraph>> >>),
           PairToStringMatrix("DMA", << <<"Dma", totalDma>> >>) >>

(***************************************************************************)
(* The dump of one process.  A detail of the collector is a memory class,  *)
(* its totals and its items; items have a type, an inode and two figures,  *)
(* pss and dirty (Private_Dirty); the other five are treated like pss.     *)
(* heap stands for the three figures of malloc.  The members of the object *)
(* that outlive a dump are gl, graph, currentPss_ and memoryItemMap_,      *)
(* which is never emptied.                                                 *)
(***************************************************************************)
NoMembers == [gl |-> 0, graph |-> 0, currentPss_ |-> 0, memoryItemMap_ |-> <<>>]

MEMORY_PRINT_ORDER_VEC ==
    << "ark ts heap", "arkts-static heap", "guard", "native heap", ".hap",
       "AnonPage other", "stack", ".db", ".so", "dev", "dmabuf", ".ttf", "jsvm heap",
       "arkweb-js heap", "arkweb-pa heap", "kotlin heap", "rn-hermes heap", "dart heap" >>

NATIVE_HEAP_TAG ==
    << "heap", "jemalloc meta", "jemalloc heap", "brk heap", "musl heap", "mmap heap" >>

\* A row of the table, and a line outside it.
Row(title, figures, heap) ==
    [title |-> title, pss |-> figures.pss, dirty |-> figures.dirty, heap |-> heap]
Line(title, value) == [title |-> title, value |-> value]

\* The four title lines, of ten columns.
InsertMemoryTitle == << Line("titles", <<>>) >>

\* GetHeapInfo: 0 when the application manager has no answer.
GetMallocHeapInfo(malloc) == IF malloc = Bad THEN 0 ELSE malloc \div BYTE_TO_KB

\* malloc's figures stand in the row of the native heap.
SetDetailRet(class, figures, heapInfo) ==
    Row(class, figures, IF class = "native heap" THEN heapInfo ELSE 0)

\* Graphics memory is private and dirty.
UpdateGraphicsMemoryRet(title, value) == Row(title, [pss |-> value, dirty |-> value], 0)

SetNativeDetailRet(type, item) == Row(type, item, 0)

\* The last item of each kind of graphics memory stays.
GetGraphicsMemoryByDetail(mem, detail) ==
    FoldLeft(LAMBDA s, item : CASE item.type = "GL"    -> [s EXCEPT !.gl = item.pss]
                                [] item.type = "Graph" -> [s EXCEPT !.graph = item.pss]
                                [] OTHER               -> s,
             mem, detail.items)

\* Class "other" is split by inode; the collector returns it once.
UpdatePageDetail(others, anon) ==
    LET items == IF others = <<>> THEN <<>>
                 ELSE SelectSeq(others[1].items, LAMBDA item : (item.iNode = 0) = anon)
    IN  [pss |-> Total(LAMBDA i : i.pss, items), dirty |-> Total(LAMBDA i : i.dirty, items)]

UpdateTotalDetail(detail, mem, heapInfo) ==
    Row("Total", [pss |-> detail.totalAllPss,
                  dirty |-> detail.totalPrivateDirty + mem.gl + mem.graph], heapInfo)

OfClass(detail, class) == SelectSeq(detail.details, LAMBDA d : d.class = class)

\* allDetailMap keeps the last detail of a class, "other" by its anonymous part.
UpdateResult(mem, detail, heapInfo) ==
    LET graphs    == OfClass(detail, "graph")
        others    == OfClass(detail, "other")
        graphics  == FoldLeft(GetGraphicsMemoryByDetail, mem, graphs)
        ofTitle(c) == IF c = "AnonPage other" THEN others ELSE OfClass(detail, c)
        classes    == SelectSeq(MEMORY_PRINT_ORDER_VEC, LAMBDA c : ofTitle(c) # <<>>)
        figures(c) == IF c = "AnonPage other" THEN UpdatePageDetail(others, TRUE)
                      ELSE Last(ofTitle(c)).total
    IN  [mem   |-> [graphics EXCEPT !.currentPss_ = detail.totalAllPss],
         lines |-> (IF graphs = <<>> THEN <<>>
                    ELSE << UpdateGraphicsMemoryRet("GL", graphics.gl),
                            UpdateGraphicsMemoryRet("Graph", graphics.graph) >>)
                   \o [i \in DOMAIN classes |->
                         SetDetailRet(classes[i], figures(classes[i]), heapInfo)]
                   \o << SetDetailRet("FilePage other", UpdatePageDetail(others, FALSE), heapInfo),
                         UpdateTotalDetail(detail, graphics, heapInfo) >>]

\* Items of a kind are added to what earlier dumps of the object left.
GetNativeHeap(mem, detail) ==
    LET heaps == OfClass(detail, "native heap")
        add(map, item) ==
            IF item.type \notin Range(NATIVE_HEAP_TAG) THEN map
            ELSE LET old == IF item.type \in DOMAIN map THEN map[item.type]
                            ELSE [pss |-> 0, dirty |-> 0]
                 IN  (item.type :> [pss |-> old.pss + item.pss, dirty |-> old.dirty + item.dirty])
                     @@ map
        map   == FoldLeft(add, mem.memoryItemMap_, Last(heaps).items)
        tags  == SelectSeq(NATIVE_HEAP_TAG, LAMBDA t : t \in DOMAIN map)
    IN  IF heaps = <<>> THEN [mem |-> mem, lines |-> <<>>]
        ELSE [mem   |-> [mem EXCEPT !.memoryItemMap_ = map],
              lines |-> << Line("native heap:", 0) >>
                        \o [i \in DOMAIN tags |-> SetNativeDetailRet(tags[i], map[tags[i]])]]

\* GetResult: nothing when the collector failed.
GetResult(mem, detail, heapInfo) ==
    IF detail = Bad THEN [mem |-> mem, lines |-> <<>>]
    ELSE LET rows == UpdateResult(mem, detail, heapInfo)
             heap == GetNativeHeap(rows.mem, detail)
         IN  [mem |-> heap.mem, lines |-> rows.lines \o heap.lines]

(***************************************************************************)
(* Files of the process.  Its status is a sequence of pairs of key and     *)
(* value, or Bad.                                                          *)
(***************************************************************************)
\* FileUtils::GetProcValue: the first line with the key.
StatusValue(status, key) ==
    IF status = Bad THEN Bad
    ELSE LET i == SelectInSeq(status, LAMBDA l : l[1] = key)
         IN  IF i = 0 THEN Bad ELSE status[i][2]

GetProcValue(src, key) ==
    IF StatusValue(src.status, key) = Bad THEN 0 ELSE StatusValue(src.status, key)

GetProcUid(src) ==
    IF StatusValue(src.status, "Uid") = Bad THEN -1 ELSE StatusValue(src.status, "Uid")

\* The name by the command line, else by the status.
GetProcName(src) == IF src.cmdline = Bad THEN StatusValue(src.status, "Name") ELSE src.cmdline

GetPurgByPid(src) ==
    << Line("Purgeable:", 0), Line("PurgSum", GetProcValue(src, "PurgSum")),
       Line("PurgPin", GetProcValue(src, "PurgPin")) >>

GetDma(dmaValue) == << Line("DMA:", 0), Line("Dma", dmaValue) >>

\* ParseAshmemInfo: the last total of a name counts; one that is no number
\* is skipped.
UpdateAshmemOverviewMap(map, line) ==
    IF line.size = Bad THEN map ELSE (line.name :> line.size) @@ map

\* The details of the process, and the total of the name the last of them
\* has; nothing without both.
GetAshmemInfo(lines, pid) ==
    LET start   == SelectInSeq(lines, LAMBDA l : l.k = "title")
        details == IF start = 0 THEN <<>>
                   ELSE SelectSeq(SubSeq(lines, start + 1, Len(lines)),
                                  LAMBDA l : l.k = "detail" /\ l.pid = pid)
        map     == FoldLeft(UpdateAshmemOverviewMap, <<>>,
                            SelectSeq(lines, LAMBDA l : l.k = "total"))
    IN  IF details = <<>> THEN Bad
        ELSE IF Last(details).name \notin DOMAIN map THEN Bad
        ELSE [total |-> map[Last(details).name] \div BYTE_TO_KB, details |-> details]

GetAshmem(lines, pid, showAshmem) ==
    LET info == GetAshmemInfo(lines, pid)
    IN  IF info = Bad THEN <<>>
        ELSE << Line("Ashmem:", 0), Line("Total Ashmem", info.total) >>
             \o IF showAshmem
                THEN << Line("title", 0) >>
                     \o [i \in DOMAIN info.details |-> Line("detail", info.details[i].name)]
                ELSE <<>>

APP_UID == 20000

showTitles == << "Process", "pid", "fd", "size_bytes", "ino", "exp_pid", "exp_task_comm",
                 "buf_name", "exp_name", "buf_type", "leak_type" >>

\* ParseDmaBufInfo: the words of the lines from the first that names the
\* columns, if any line follows it.
GetDmaBufInfo(lines) ==
    LET start == SelectInSeq(lines, LAMBDA l : "Process" \in Range(l))
    IN  IF start = 0 \/ start = Len(lines) THEN <<>> ELSE SubSeq(lines, start, Len(lines))

\* The shown columns of each line, "NULL" where a line is too short.
GetDmaBufByProc(src) ==
    LET info     == GetDmaBufInfo(src.dmabuf)
        shown    == SelectSeq([i \in DOMAIN info[1] |-> i],
                              LAMBDA i : info[1][i] \in Range(showTitles))
        cells(l) == [i \in DOMAIN shown |-> IF shown[i] <= Len(l) THEN l[shown[i]] ELSE "NULL"]
    IN  IF GetProcUid(src) < APP_UID \/ info = <<>> THEN <<>>
        ELSE [j \in DOMAIN info |-> Line("buffer", cells(info[j]))]

\* A row per buffer the memory library lists, "NULL" for an empty string.
DisposeDmaBufInfo(bufs) ==
    LET cells(buf) == [i \in DOMAIN showTitles |->
                         IF buf[showTitles[i]] = "" THEN "NULL" ELSE buf[showTitles[i]]]
    IN  << Line("buffer", showTitles) >> \o [j \in DOMAIN bufs |-> Line("buffer", cells(bufs[j]))]

\* The process's own file is read only if the library lists nothing.
GetDmaBuf(src, showDmaBuf) ==
    IF ~showDmaBuf THEN <<>>
    ELSE IF src.bufs = <<>> THEN GetDmaBufByProc(src) ELSE DisposeDmaBufInfo(src.bufs)

\* For the process hiaiserver, what the plugin lists, if it is loaded.
GetHiaiServerIon(src, loaded) ==
    IF GetProcName(src) # "hiaiserver" \/ ~loaded \/ src.ions = 0 THEN <<>>
    ELSE << Line("HIAIServer ION:", src.ions) >>

\* The plugin's lines, or the hint that it is not loaded.
GetGpumem(src, loaded, showGpumem) ==
    IF ~showGpumem THEN <<>>
    ELSE IF ~loaded \/ src.gpumem = 0 THEN << Line("not loaded", 0) >>
    ELSE << Line("GPU:", src.gpumem) >>

\* MemoryInfo::GetMemoryInfoByPid.  detail is what the collector returned, or
\* Bad; opts are the show options, src the files read.
GetMemoryInfoByPid(mem, detail, pid, opts, src, loaded) ==
    LET body == GetResult(mem, detail, GetMallocHeapInfo(src.malloc))
    IN  [mem   |-> body.mem, detail |-> detail,
         lines |-> InsertMemoryTitle \o body.lines
                   \o GetPurgByPid(src) \o GetDma(body.mem.graph)
                   \o GetDmaBuf(src, opts.showDmaBuf)
                   \o GetHiaiServerIon(src, loaded)
                   \o GetAshmem(src.ashmem, pid, opts.showAshmem)
                   \o GetGpumem(src, loaded, opts.showGpumem)]
=============================================================================
