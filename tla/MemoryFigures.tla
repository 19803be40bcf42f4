--------------------------- MODULE MemoryFigures ----------------------------
(***************************************************************************)
(* The system-wide figures of "hidumper --mem": RAM, hardware, CMA, kernel *)
(* and process usage, computed from /proc/meminfo, the smaps groups and    *)
(* the output of commands.  Sums are uint64_t and wrap; W is their width.  *)
(*                                                                         *)
(* A line of meminfo is a pair of type and value.  A line of xxd or of the *)
(* CMA command is its number, or Bad when there is none.                   *)
(***************************************************************************)
EXTENDS Integers, Sequences, FiniteSets, Lists, TLC

CONSTANTS
    W,           \* width of uint64_t
    BYTE_TO_KB,  \* 1024 in the code
    HARDWARE_USAGE_THREAD_NUM_,  \* 5 in the code
    HardwareThreads,  \* std::thread::hardware_concurrency(), 0 if not known
    Bad          \* what cannot be read

ASSUME FiguresAssumption ==
    /\ W \in Nat /\ W > 1
    /\ BYTE_TO_KB \in Nat \ {0}
    /\ HARDWARE_USAGE_THREAD_NUM_ \in Nat /\ HardwareThreads \in Nat

U(x) == x % 2^W
S(x) == IF x < 2^(W - 1) THEN x ELSE x - 2^W

Total(f(_), seq) == FoldLeft(LAMBDA sum, x : sum + f(x), 0, seq)

MEMINFO_TAG_ == {"MemTotal", "MemFree", "Cached", "SwapTotal", "KernelStack",
                 "SUnreclaim", "PageTables", "Shmem", "IonTotalCache", "IonTotalUsed",
                 "Buffers", "Mapped", "Slab", "VmallocUsed", "Active(purg)",
                 "Inactive(purg)", "Pined(purg)", "KReclaimable", "SReclaimable"}

\* ParseMeminfo: the first line of a type counts; a type without a tag is 0.
SetData(result, line) ==
    result @@ (line[1] :> IF line[1] \in MEMINFO_TAG_ THEN line[2] ELSE 0)

GetMeminfo(lines) == FoldLeft(SetData, <<>>, lines)

GetGroupMapValue(infos, keys) ==
    U(MapThenSumSet(LAMBDA g : MapThenSumSet(LAMBDA k : infos[g][k],
                                             keys \cap DOMAIN infos[g]),
                    DOMAIN infos))

\* Mapped is subtracted.
GetValueMapValue(infos, strs) ==
    U(MapThenSumSet(LAMBDA s : IF s = "Mapped" THEN -infos[s] ELSE infos[s],
                    strs \cap DOMAIN infos))

GetTotalPss(infos)     == GetGroupMapValue(infos, {"Pss"})
GetTotalSwapPss(infos) == GetGroupMapValue(infos, {"SwapPss"})
GetFreeInfo(infos)     == GetValueMapValue(infos, {"MemFree"})
GetKernelUsedInfo(infos) ==
    GetValueMapValue(infos, {"Shmem", "Slab", "VmallocUsed", "PageTables", "KernelStack"})
GetKreclInfo(infos)    == GetValueMapValue(infos, {"KReclaimable"})
GetMappedInfo(infos)   == GetValueMapValue(infos, {"Mapped"})
GetSreclInfo(infos)    == GetValueMapValue(infos, {"SReclaimable"})
GetTotalRam(infos)     == GetValueMapValue(infos, {"MemTotal"})

\* Reclaimable pages are counted once, as KReclaimable where the kernel has
\* it; what is mapped is not free.
GetCachedInfo(infos) ==
    LET all    == GetValueMapValue(infos, {"Buffers", "Cached", "KReclaimable", "SReclaimable"})
        total  == IF GetKreclInfo(infos) # 0 THEN U(all - GetSreclInfo(infos)) ELSE all
        mapped == U(0 - GetMappedInfo(infos))
    IN  IF total > mapped THEN total - mapped ELSE 0

\* CALC_ZARM_TOTAL_ is empty, so the zram part is 0.
GetLostRam(smapsInfo, meminfo) ==
    S(GetTotalRam(meminfo))
      - S(U((GetTotalPss(smapsInfo) - GetTotalSwapPss(smapsInfo))
            + GetFreeInfo(meminfo) + GetCachedInfo(meminfo) + GetKernelUsedInfo(meminfo)))

GetUsedRam(smapsInfo, meminfo) == U(GetTotalPss(smapsInfo) + GetKernelUsedInfo(meminfo))
GetFreeRam(meminfo) == U(GetCachedInfo(meminfo) + GetFreeInfo(meminfo))

GetRam(smapsInfo, meminfo) ==
    [total |-> GetTotalRam(meminfo), cachedInfo |-> GetCachedInfo(meminfo),
     freeInfo |-> GetFreeInfo(meminfo), free |-> GetFreeRam(meminfo),
     totalPss |-> GetTotalPss(smapsInfo), kernelUsed |-> GetKernelUsedInfo(meminfo),
     used |-> GetUsedRam(smapsInfo, meminfo), lost |-> GetLostRam(smapsInfo, meminfo)]

\* MemoryInfo::GetRamUsage shows the figures with the parts of two of them.
GetRamUsage(smapsInfo, meminfo) ==
    LET ram == GetRam(smapsInfo, meminfo)
    IN  << [title |-> "Total RAM:", value |-> ram.total, parts |-> <<>>],
           [title |-> "Free RAM:", value |-> ram.free,
            parts |-> << ram.cachedInfo, ram.freeInfo >>],
           [title |-> "Used RAM:", value |-> ram.used,
            parts |-> << ram.totalPss, ram.kernelUsed >>],
           [title |-> "Lost RAM:", value |-> ram.lost, parts |-> <<>>] >>

(***************************************************************************)
(* Usage by category.                                                      *)
(***************************************************************************)
\* The lines of xxd up to the first without a number.
RegStrToRegValue(infos) ==
    LET bad == SelectInSeq(infos, LAMBDA l : l = Bad)
    IN  Total(LAMBDA l : l, IF bad = 0 THEN infos ELSE SubSeq(infos, 1, bad - 1))

\* The value of a register: 0 where the command cannot run.
GetResverRegValue(reg) == IF reg = Bad THEN 0 ELSE RegStrToRegValue(reg)

CalcHardware(regs) == Total(GetResverRegValue, regs)

GetMaxThreadNum(threadNum) ==
    LET max == IF HardwareThreads # 0 /\ HardwareThreads < threadNum
               THEN HardwareThreads ELSE threadNum
    IN  IF max = 0 THEN 1 ELSE max

ThreadNum == GetMaxThreadNum(HARDWARE_USAGE_THREAD_NUM_)

\* The paths of thread `index`, counted from 0.
GetGroupOfPaths(index, size, paths) ==
    SubSeq(paths, index * size + 1, IF (index + 1) * size <= Len(paths)
                                    THEN (index + 1) * size ELSE Len(paths))

\* Fault: the group size is rounded down.
GroupSizeDown(size) == size \div ThreadNum

GroupSize(size) == (size - 1) \div ThreadNum + 1

\* Detached threads read a group each; their futures are added.
GetHardwareUsage(paths) ==
    LET Group(i) == GetGroupOfPaths(i - 1, GroupSize(Len(paths)), paths)
    IN  IF paths = <<>> THEN 0
        ELSE U(Total(LAMBDA i : CalcHardware(Group(i)), [i \in 1..ThreadNum |-> i]))
             \div BYTE_TO_KB

\* GetCMAInfo::GetUsed: the number, or Bad at the first line that is none.
\* A command that cannot run gives no lines, and so 0.
GetUsed(lines) == IF \E i \in DOMAIN lines : lines[i] = Bad THEN Bad ELSE U(Total(LAMBDA l : l, lines))

\* GetKernelInfo::GetKernel: no figure without /proc/vmallocinfo, where the
\* lines with pages= count (GetVmallocinfo).
GetVmallocinfo(lines) == U(Total(LAMBDA l : l, lines))
GetKernel(infos, vmalloc) ==
    IF vmalloc = Bad THEN Bad
    ELSE U(GetValueMapValue(infos, {"KernelStack", "SUnreclaim", "PageTables", "Shmem"})
           + GetVmallocinfo(vmalloc) \div BYTE_TO_KB)

GetProcess(infos) == GetGroupMapValue(infos, {"Pss", "SwapPss"})

\* The lines of MemoryInfo::GetRamCategory; Bad is a line that is left out.
GetRamCategory(usage, groups, meminfo) ==
    [hardware |-> IF usage.regs = Bad THEN Bad ELSE GetHardwareUsage(usage.regs),
     cma |-> GetUsed(usage.cma), kernel |-> GetKernel(meminfo, usage.vmalloc),
     processes |-> GetProcess(groups)]

\* MemoryInfo::GetPurgTotal: both figures or none.
GetPurgTotal(meminfo) ==
    IF {"Active(purg)", "Inactive(purg)", "Pined(purg)"} \subseteq DOMAIN meminfo
    THEN << U(meminfo["Active(purg)"] + meminfo["Inactive(purg)"]), meminfo["Pined(purg)"] >>
    ELSE <<0, 0>>
=============================================================================
