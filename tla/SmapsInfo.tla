----------------------------- MODULE SmapsInfo ------------------------------
(***************************************************************************)
(* What the memory dumps make of a process's smaps: ParseSmapsInfo groups  *)
(* the values of the file by kind of mapping, and SmapsMemoryInfo shows    *)
(* the mappings the collector returns, one by one or summed by name.       *)
(*                                                                         *)
(* A line of the file is a record.  A name line has the beginning and the  *)
(* end of its name that the maps of MemoryFilter know (or ""), the inode,  *)
(* and whether it happens to end in "B" as value lines do; a value line    *)
(* has its type and its value.  A mapping of the collector has its name    *)
(* and the figures pss and swapPss; the other figures are summed alike.    *)
(***************************************************************************)
EXTENDS Integers, Sequences, FiniteSets, Lists, TLC

\* MemoryFilter's endMap_, beginMap_ and heapBeginMap_.
endMap_ == ".so" :> ".so" @@ ".so.1" :> ".so" @@ ".ttf" :> ".ttf"
           @@ ".db" :> ".db" @@ ".db-shm" :> ".db"

beginMap_ == "[heap]" :> "native heap" @@ "[stack]" :> "stack"
             @@ "[anon:stack" :> "stack" @@ "[anon:native_heap:" :> "native heap"
             @@ "[anon:ArkTS Heap" :> "ark ts heap" @@ "[anon:guard" :> "guard"
             @@ "/dev" :> "dev" @@ "[anon:signal_stack" :> "stack"
             @@ "/dmabuf" :> "dmabuf" @@ "/data/storage" :> ".hap"
             @@ "[anon:libc_malloc" :> "native heap"

\* The tag of the page, and the group of the name: its end decides before
\* its beginning does.
ParseMemoryGroup(line) ==
    << IF line.iNode > 0 THEN "File-backed Page" ELSE "Anonymous Page",
       IF line.end \in DOMAIN endMap_ THEN endMap_[line.end]
       ELSE IF line.begin \in DOMAIN beginMap_ THEN beginMap_[line.begin]
       ELSE "other" >>

\* GetNoPidValue takes the types that begin with Pss or SwapPss.
NoPidTypes == {"Pss", "SwapPss", "Pss_Dirty"}

\* An entry is made at the first value of a group and type, later ones add.
CalcGroup(infos, group, type, value) ==
    LET valueMap == IF group \in DOMAIN infos THEN infos[group] ELSE <<>>
        old      == IF type \in DOMAIN valueMap THEN valueMap[type] ELSE 0
    IN  (group :> ((type :> (old + value)) @@ valueMap)) @@ infos

\* memGroup_ before the first name line.
NoGroup == << >>

\* One line: a line that ends in "B" is taken for a value line, whatever it is.
InfoStep(s, line) ==
    IF line.k = "name"
    THEN IF line.endsInB THEN s ELSE [s EXCEPT !.memGroup_ = ParseMemoryGroup(line)]
    ELSE IF line.type \in NoPidTypes
    THEN [s EXCEPT !.result = CalcGroup(@, s.memGroup_, line.type, line.value)]
    ELSE s

\* ParseSmapsInfo::GetInfo, with a new ParseSmapsInfo for every process.
GetInfo(lines, infos) ==
    FoldLeft(InfoStep, [memGroup_ |-> NoGroup, result |-> infos], lines).result

(***************************************************************************)
(* The mappings of one process, as the collector returns them: a sequence  *)
(* of details, each a memory class with its items.                         *)
(***************************************************************************)
SetMemoryData(item, class) ==
    [name |-> IF item.name = "" THEN "[anon]" ELSE item.name, class |-> class,
     iNode |-> item.iNode, counts |-> 1, pss |-> item.pss, swapPss |-> item.swapPss]

UpdateShowAddressMemInfoVec(vec, detail) ==
    vec \o [i \in DOMAIN detail.items |-> SetMemoryData(detail.items[i], detail.class)]


\* Mappings of one name are one entry, which keeps the class it was made with.
AddSameName(map, item, class) ==
    IF item.name \in DOMAIN map
    THEN [map EXCEPT ![item.name] =
            [@ EXCEPT !.counts = @ + 1, !.pss = @ + item.pss, !.swapPss = @ + item.swapPss]]
    ELSE (item.name :> SetMemoryData(item, class)) @@ map

UpdateCountSameNameMemMap(map, detail) ==
    FoldLeft(LAMBDA m, item : AddSameName(m, item, detail.class), map, detail.items)

\* ParseSmapsInfo::GetSmapsData: a class that MEMORY_CLASS_VEC has no name for is
\* left out, and what the graphics classes hold.
Shown(details) == SelectSeq(details, LAMBDA d : d.class \notin {"unknown", "graph"})

GetSmapsVec(details) == FoldLeft(UpdateShowAddressMemInfoVec, <<>>, Shown(details))
GetSmapsMap(details) == FoldLeft(UpdateCountSameNameMemMap, <<>>, Shown(details))

(***************************************************************************)
(* The table.  DumpUtils::IsUserMode hides where the mappings are.         *)
(***************************************************************************)
ValueColumns == << "Size", "Rss", "Pss", "Shared_Clean", "Shared_Dirty", "Private_Clean",
                   "Private_Dirty", "Swap", "SwapPss" >>

InsertSmapsTitle(isShowSmapsInfo, userMode) ==
    SelectSeq(ValueColumns \o (IF isShowSmapsInfo THEN << "Perm", "Start", "End" >>
                                                  ELSE << "Counts" >>)
                           \o << "Category", "Name" >>,
              LAMBDA c : userMode => c \notin {"Perm", "Start", "End"})

\* Class "other" is split by inode.
SetOneRowMemInfo(data, isShowSmapsInfo, isSummary, userMode) ==
    [name |-> IF isSummary THEN "Summary" ELSE data.name,
     class |-> IF data.class # "other" THEN data.class
               ELSE IF data.iNode = 0 THEN "AnonPage other" ELSE "FilePage other",
     counts |-> data.counts, pss |-> data.pss, swapPss |-> data.swapPss,
     columns |-> ValueColumns
                 \o (CASE isShowSmapsInfo /\ ~userMode -> << "Perm", "Start", "End" >>
                       [] isShowSmapsInfo /\ userMode  -> <<>>
                       [] ~isShowSmapsInfo              -> << "Counts" >>)
                 \o << "Category", "Name" >>]

\* The summary; its Pss includes the SwapPss, its class is empty.  Counts are
\* shown by name only.
Summary(rows) ==
    LET Sum(f(_)) == FoldLeft(LAMBDA sum, row : sum + f(row), 0, rows)
        swapPss   == Sum(LAMBDA row : row.swapPss)
    IN  [name |-> "", class |-> "", iNode |-> 0, counts |-> Sum(LAMBDA row : row.counts),
         pss |-> Sum(LAMBDA row : row.pss) + swapPss, swapPss |-> swapPss]

Rows(vec, isShow, userMode) ==
    [i \in DOMAIN vec |-> SetOneRowMemInfo(vec[i], isShow, FALSE, userMode)]
    \o << SetOneRowMemInfo(Summary(vec), isShow, TRUE, userMode) >>

UpdateShowAddressMemInfoResult(vec, userMode) == Rows(vec, TRUE, userMode)

\* The rows are in the order of the map, by name.
UpdateCountSameNameMemResult(map, userMode) ==
    LET names == SetToSeq(DOMAIN map)
    IN  Rows([i \in DOMAIN names |-> map[names[i]]], FALSE, userMode)

ShowMemorySmapsByPid(details, isShowSmapsInfo, userMode) ==
    [titles |-> InsertSmapsTitle(isShowSmapsInfo, userMode),
     rows   |-> IF isShowSmapsInfo
                THEN UpdateShowAddressMemInfoResult(GetSmapsVec(details), userMode)
                ELSE UpdateCountSameNameMemResult(GetSmapsMap(details), userMode)]
=============================================================================
