---------------------------- MODULE ConfigUtils ----------------------------
(***************************************************************************)
(* How the options of a command become the list of executors of a dump:   *)
(* the tables of config_data.cpp and the algorithm of config_utils.cpp.    *)
(*                                                                         *)
(* The code builds a tree of DumpCfg objects and flattens it.  Here a tree *)
(* is the preorder sequence of its nodes, each with its depth, which is    *)
(* the same thing: the parent of a node is the last node before it whose   *)
(* depth is one less.  Titles, targets and commands are left out.          *)
(***************************************************************************)
EXTENDS Integers, Sequences, SequencesExt

CONSTANTS
    UidOf,          \* the uid of each process
    DebugApps,      \* processes of applications with a debug signature
    CpuIds,         \* what DumpCommonUtils::GetCpuInfos lists
    AllPids         \* what DumpCommonUtils::GetPidInfos lists, in order

ROOT_UID == 0
BMS_UID == 1000
APP_FIRST_UID == 10000
UNSET == -1
NEST_MAX == 10

(***************************************************************************)
(* dumpers_: each dumper is a sequence of items, and each item is a        *)
(* dumper, a filter or an output.  Nearly all are one dumper followed by   *)
(* one output; the ones that run several commands repeat that pair.        *)
(***************************************************************************)
BaseAndMemory ==
    {"base_info", "kernel_version", "command_line", "kernel_wake_sources",
     "uptime", "cpu_usage", "mem", "jsheap_memory", "cjheap_memory",
     "heap_memory"}

KernelAndLogs ==
    {"event_list", "event_detail", "fd_thread", "env",
     "dump_format_version", "slabinfo", "ldkslabinfo", "zoneinfo", "vmstat",
     "vmallocinfo", "crash", "kernel_log", "hilog"}

NetAndStorage ==
    {"port", "ip", "route_table", "storage_state", "block", "file",
     "top_io", "mounts", "io_info", "traffic", "ipc_stat"}

OfProcesses ==
    {"threads", "threads_pid", "smap", "map", "block_channel",
     "excute_time", "mount_info", "system_ability", "stack",
     "list_service", "list_system_ability", "list_system"}

SeveralRounds ==
    [kernel_cpu_freq |-> 2, cpu_freq |-> 2, kernel_module |-> 2, test |-> 2,
     packet |-> 5, ip_table |-> 7, ipc |-> 5, ip_rules |-> 5]

Dumpers == BaseAndMemory \cup KernelAndLogs \cup NetAndStorage \cup OfProcesses
           \cup DOMAIN SeveralRounds

Item(class, name, level) == [class |-> class, name |-> name, level |-> level]

Round(name) ==
    <<Item("DUMPER", name, "NONE")>>
    \o (IF name = "top_io" THEN <<Item("FILTER", name, "LEVEL_ALL")>> ELSE <<>>)
    \o <<Item("OUTPUT", name, "NONE")>>

Items(name) ==
    LET n == IF name \in DOMAIN SeveralRounds THEN SeveralRounds[name] ELSE 1
    IN  FlattenSeq([i \in 1..n |-> Round(name)])

(***************************************************************************)
(* groups_: the section a group is shown under, what it is repeated for    *)
(* (type and expand) and its members.                                      *)
(***************************************************************************)
Dump(name) == [kind |-> "dumper", name |-> name]
Mini(name) == [kind |-> "groupmini", name |-> name]
Unknown(name) == [kind |-> "other", name |-> name]

Grp(section, type, expand, list) ==
    [section |-> section, type |-> type, expand |-> expand, list |-> list]

Dumps(names) == [i \in 1..Len(names) |-> Dump(names[i])]

OptionGroups ==
    [cpufreq |-> Grp("cpufreq", "CPUID", TRUE, Dumps(<<"cpu_freq">>)),
     cpuusage |-> Grp("cpuusage", "PID", FALSE, Dumps(<<"cpu_usage">>)),
     log_kernel |-> Grp("kernel", "NONE", FALSE, Dumps(<<"kernel_log">>)),
     log_hilog |-> Grp("hilog", "NONE", FALSE, Dumps(<<"hilog">>)),
     log_init |-> Grp("init", "NONE", FALSE, <<Unknown("cpu_dumper_name_000")>>),
     memory |-> Grp("memory", "PID", FALSE, Dumps(<<"mem">>)),
     ipc |-> Grp("ipc", "PID", FALSE, Dumps(<<"ipc_stat">>)),
     storage |-> Grp("storage", "NONE", FALSE,
                     Dumps(<<"storage_state", "block", "file", "top_io", "mounts">>)),
     net |-> Grp("net", "NONE", FALSE,
                 Dumps(<<"port", "packet", "ip", "ip_table", "route_table",
                         "ipc", "ip_rules">>)),
     service |-> Grp("service", "NONE", FALSE, <<Unknown("mem_dumper_name_000")>>),
     ability |-> Grp("ability", "NONE", FALSE, Dumps(<<"system_ability">>)),
     storage_io |-> Grp("storage io", "PID", FALSE, Dumps(<<"io_info">>)),
     net_traffic |-> Grp("net traffic", "PID", FALSE, Dumps(<<"traffic">>)),
     faultlog |-> Grp("faultlog", "NONE", FALSE, Dumps(<<"crash">>)),
     stack |-> Grp("stack", "PID", TRUE, Dumps(<<"stack">>)),
     test |-> Grp("test", "NONE", FALSE, Dumps(<<"test">>))]

OfOneProcess == <<"block_channel", "excute_time", "mount_info">>

SystemGroups ==
    [system_base |-> Grp("base", "NONE", FALSE,
                         Dumps(<<"base_info", "kernel_version", "command_line",
                                 "kernel_wake_sources", "uptime">>)),
     system_system |-> Grp("system", "NONE", FALSE,
                           Dumps(<<"env", "kernel_module", "dump_format_version",
                                   "slabinfo", "ldkslabinfo", "zoneinfo", "vmstat",
                                   "vmallocinfo">>)
                           \o <<Mini("system_cpuid"), Mini("system_pid")>>),
     system_base_cpuid |-> Grp("", "CPUID", TRUE, Dumps(<<"kernel_cpu_freq">>)),
     system_cpuid |-> Grp("", "CPUID", TRUE, Dumps(<<"cpu_freq">>)),
     system_pid |-> Grp("", "PID", FALSE, Dumps(<<"cpu_usage", "mem">>))]

ProcessGroups ==
    [processes |-> Grp("processes", "NONE", FALSE,
                       <<Dump("threads"), Mini("mini_processes")>>),
     eng_processes |-> Grp("processes", "NONE", FALSE,
                           <<Dump("threads"), Mini("mini_eng_processes")>>),
     pid_processes |-> Grp("processes", "NONE", FALSE, <<Mini("mini_pid_processes")>>),
     pid_eng_processes |-> Grp("processes", "NONE", FALSE,
                               <<Mini("mini_pid_eng_processes")>>),
     mini_processes |-> Grp("", "PID", TRUE, Dumps(OfOneProcess)),
     mini_eng_processes |-> Grp("", "PID", TRUE, Dumps(<<"map">> \o OfOneProcess)),
     mini_pid_processes |-> Grp("", "PID", TRUE,
                                Dumps(<<"threads_pid">> \o OfOneProcess)),
     mini_pid_eng_processes |-> Grp("", "PID", TRUE,
                                    Dumps(<<"threads_pid", "map">> \o OfOneProcess))]

Group(g) == IF g \in DOMAIN OptionGroups THEN OptionGroups[g]
            ELSE IF g \in DOMAIN SystemGroups THEN SystemGroups[g]
            ELSE ProcessGroups[g]

(***************************************************************************)
(* OptionArgs: the process and the cpu an executor works on, NoId when     *)
(* none is set.  Only dumpers carry them.                                  *)
(***************************************************************************)
NoId == -2
NoArgs == [pid |-> NoId, cpu |-> NoId]

\* ConfigUtils' currentPidInfos_ (infos) and currentPidInfo_ (pid, pidUid)
\* together with the uid of the caller.
Context(uid, infos, pid, pidUid) ==
    [uid |-> uid, infos |-> infos, pid |-> pid, pidUid |-> pidUid]

NoPidInfo(uid) == Context(uid, <<>>, UNSET, UNSET)

Living(alive) == SelectSeq(AllPids, LAMBDA p : p \in alive)

MergePidInfos(uid, pid, alive) ==
    IF pid < 0 THEN Context(uid, Living(alive), pid, -1)
    ELSE IF pid \in alive THEN Context(uid, <<pid>>, pid, UidOf[pid])
    ELSE NoPidInfo(uid)

\* The second component says whether there is anything to dump.
MergeDebugPidInfos(uid, pid, alive) ==
    LET debug == SelectSeq(Living(alive), LAMBDA p : p \in DebugApps)
    IN  IF pid < 0 THEN <<Context(uid, debug, pid, -1), debug # <<>>>>
        ELSE <<MergePidInfos(uid, pid, alive), pid \in DebugApps \cap alive>>

\* Fault: an application is treated like a system service.
GetDumpLevelAnyApp(uid, pidUid) == IF uid = ROOT_UID THEN "LEVEL_HIGH" ELSE "LEVEL_MIDDLE"

GetDumpLevelByPid(uid, pidUid) ==
    IF uid = ROOT_UID THEN "LEVEL_HIGH"
    ELSE IF uid < APP_FIRST_UID \/ uid = pidUid THEN "LEVEL_MIDDLE"
    ELSE "LEVEL_NONE"

Node(item, args, d) ==
    [class |-> item.class, name |-> item.name, section |-> "", depth |-> d,
     args |-> IF item.class = "DUMPER" THEN args ELSE NoArgs]

GroupNode(g, d) == Node(Item("GROUP", g, "NONE"), NoArgs, d)

\* Fault: the level is compared for dumpers instead of filters.
GetDumperByLevel(name, args, level, d) ==
    LET suits(item) == item.class # "DUMPER" \/ level = "NONE" \/ item.level \in {"LEVEL_ALL", level}
        chosen == SelectSeq(Items(name), suits)
    IN  IF name \in Dumpers
        THEN [i \in 1..Len(chosen) |-> Node(chosen[i], args, d)]
        ELSE <<>>

\* A filter made for another level is left out; nothing else depends on it.
GetDumper(name, args, level, d) ==
    LET suits(item) == \/ item.class # "FILTER"
                       \/ level = "NONE"
                       \/ item.level \in {"LEVEL_ALL", level}
        chosen == SelectSeq(Items(name), suits)
    IN  IF name \in Dumpers
        THEN [i \in 1..Len(chosen) |-> Node(chosen[i], args, d)]
        ELSE <<>>

\* The members before the first one that is neither a dumper nor a mini-group:
\* GetGroupSimple gives up there and what it has added stays.
Usable(list) ==
    LET bad == {i \in 1..Len(list) : list[i].kind = "other"}
    IN  IF bad = {} THEN list
        ELSE SubSeq(list, 1, (CHOOSE i \in bad : \A j \in bad : i <= j) - 1)

RECURSIVE GetGroup(_, _, _, _, _)

GetGroupSimple(g, args, level, d, ctx) ==
    LET e == IF Group(g).expand THEN 1 ELSE 0
        list == Usable(Group(g).list)
        member(m) == IF m.kind = "dumper" THEN GetDumper(m.name, args, level, d + e)
                     ELSE GetGroup(m.name, args, level, d + e, ctx)
    IN  (IF e = 1 THEN <<GroupNode(g, d)>> ELSE <<>>)
        \o FlattenSeq([i \in 1..Len(list) |-> member(list[i])])

GetGroup(g, args, level, d, ctx) ==
    LET forPid(p, puid, l) == GetGroupSimple(g, [args EXCEPT !.pid = p], l, d + 1, ctx)
        forCpu(c) == GetGroupSimple(g, [args EXCEPT !.cpu = c], level, d + 1, ctx)
        ofPid(p) == LET l == GetDumpLevelByPid(ctx.uid, UidOf[p])
                    IN  IF l = "LEVEL_NONE" THEN <<>> ELSE forPid(p, UidOf[p], l)
        type == Group(g).type
        below ==
            CASE type = "PID" /\ Group(g).expand ->
                    FlattenSeq([i \in 1..Len(ctx.infos) |-> ofPid(ctx.infos[i])])
              [] type = "PID" /\ ~Group(g).expand ->
                    IF GetDumpLevelByPid(ctx.uid, ctx.pidUid) = "LEVEL_NONE" THEN <<>>
                    ELSE forPid(ctx.pid, ctx.pidUid, level)
              [] type = "CPUID" /\ Group(g).expand ->
                    FlattenSeq([i \in 1..Len(CpuIds) |-> forCpu(CpuIds[i])])
              [] type = "CPUID" /\ ~Group(g).expand -> forCpu(-1)
              [] type = "NONE" -> GetGroupSimple(g, args, level, d + 1, ctx)
    IN  <<GroupNode(g, d)>> \o below

\* SetSection names the section of the dumpers and ConvertTreeToList flattens
\* the tree; neither goes deeper than NEST_MAX.
SetSection(tree, section) ==
    [i \in 1..Len(tree) |->
        IF tree[i].class = "DUMPER" /\ tree[i].depth <= NEST_MAX
        THEN [tree[i] EXCEPT !.section = section] ELSE tree[i]]

ConvertTreeToList(tree) == SelectSeq(tree, LAMBDA node : node.depth <= NEST_MAX)

GetConfigGroup(g, ctx) ==
    ConvertTreeToList(SetSection(GetGroup(g, NoArgs, "NONE", 0, ctx), Group(g).section))

GetConfigDumper(name) == GetDumper(name, NoArgs, "NONE", 0)

(***************************************************************************)
(* The handlers of GetDumperConfigs.  A question q holds the options       *)
(* (flags: the set of the switches that are on, pids, systemArgs), the     *)
(* caller's uid, whether this is a user-mode build, and the processes that *)
(* live now.  Every handler that uses the pid infos resets them first, so  *)
(* they are computed where they are needed.                                *)
(***************************************************************************)
On(q, flag) == flag \in q.flags
Nobody(q) == NoPidInfo(q.uid)
Pids(q, field) == MergePidInfos(q.uid, q.pids[field], q.alive)

\* isDumpSystemSystem: the system group is dumped and holds the others already.
DumpsSystemSystem(q) ==
    /\ On(q, "-c") /\ ~On(q, "-l")
    /\ q.systemArgs = <<>> \/ \E i \in 1..Len(q.systemArgs) : q.systemArgs[i] = "system"

SystemGroup(arg) == IF arg = "base" THEN "system_base" ELSE "system_system"

HandleDumpSystem(q) ==
    LET args == IF q.systemArgs = <<>> THEN <<"base", "system">> ELSE q.systemArgs
    IN  IF On(q, "-l") \/ ~On(q, "-c") THEN <<>>
        ELSE FlattenSeq([i \in 1..Len(args) |->
                            GetConfigGroup(SystemGroup(args[i]), Nobody(q))])

HandleDumpCpuFreq(q) ==
    IF On(q, "--cpufreq") /\ ~DumpsSystemSystem(q)
    THEN GetConfigGroup("cpufreq", Nobody(q)) ELSE <<>>

HandleDumpCpuUsage(q) ==
    IF On(q, "--cpuusage") /\ ~(DumpsSystemSystem(q) /\ q.pids.cpuUsagePid < 0)
    THEN GetConfigGroup("cpuusage", Pids(q, "cpuUsagePid")) ELSE <<>>

HandleDumpMemCommon(q) ==
    IF DumpsSystemSystem(q) /\ q.pids.memPid < 0 THEN <<>>
    ELSE GetConfigGroup("memory", Pids(q, "memPid"))

HandleDumpMem(q) == IF On(q, "--mem") THEN HandleDumpMemCommon(q) ELSE <<>>
HandleDumpMemShowMaps(q) == IF On(q, "--mem-smaps") THEN HandleDumpMemCommon(q) ELSE <<>>

HandleDumpHeaps(q) ==
    (IF On(q, "--mem-jsheap") /\ q.pids.jsHeapPid > 0 /\ q.pids.threadId >= 0
     THEN GetConfigDumper("jsheap_memory") ELSE <<>>)
    \o (IF On(q, "--mem-cjheap") /\ q.pids.cjHeapPid > 0
        THEN GetConfigDumper("cjheap_memory") ELSE <<>>)
    \o (IF On(q, "--mem-heap") /\ (q.pids.heapPid > 0 \/ q.pids.heapArgPid > 0)
        THEN GetConfigDumper("heap_memory") ELSE <<>>)

\* HandleDumpStorage compares memPid_ where its neighbours compare their own pid.
HandleDumpStorage(q) ==
    IF On(q, "--storage") /\ ~(DumpsSystemSystem(q) /\ q.pids.memPid < 0)
    THEN GetConfigGroup(IF q.pids.storagePid < 0 THEN "storage" ELSE "storage_io",
                        Pids(q, "storagePid"))
    ELSE <<>>

\* Fault: memPid_ is compared instead of netPid_.
HandleDumpNetByMemPid(q) ==
    IF On(q, "--net") /\ ~(DumpsSystemSystem(q) /\ q.pids.memPid < 0)
    THEN GetConfigGroup("net_traffic", Pids(q, "netPid"))
         \o (IF q.pids.netPid < 0 THEN GetConfigGroup("net", Pids(q, "netPid")) ELSE <<>>)
    ELSE <<>>

HandleDumpNet(q) ==
    IF On(q, "--net") /\ ~(DumpsSystemSystem(q) /\ q.pids.netPid < 0)
    THEN GetConfigGroup("net_traffic", Pids(q, "netPid"))
         \o (IF q.pids.netPid < 0 THEN GetConfigGroup("net", Pids(q, "netPid")) ELSE <<>>)
    ELSE <<>>

HandleDumpList(q) ==
    IF ~On(q, "-l") THEN <<>>
    ELSE (IF On(q, "-s") THEN GetConfigDumper("list_system_ability") ELSE <<>>)
         \o (IF On(q, "service") THEN GetConfigDumper("list_service") ELSE <<>>)
         \o (IF On(q, "-c") THEN GetConfigDumper("list_system") ELSE <<>>)

HandleDumpAbilityAndService(q) ==
    IF On(q, "-l") THEN <<>>
    ELSE (IF On(q, "-s") THEN GetConfigGroup("ability", Nobody(q)) ELSE <<>>)
         \o (IF On(q, "service") THEN GetConfigGroup("service", Nobody(q)) ELSE <<>>)

HandleDumpProcesses(q) ==
    LET pid == q.pids.processPid
        merged == IF q.user THEN MergeDebugPidInfos(q.uid, pid, q.alive)
                  ELSE <<MergePidInfos(q.uid, pid, q.alive), TRUE>>
        group == CASE q.user /\ pid < 0 -> "processes"
                   [] q.user /\ pid >= 0 -> "pid_processes"
                   [] ~q.user /\ pid < 0 -> "eng_processes"
                   [] ~q.user /\ pid >= 0 -> "pid_eng_processes"
    IN  IF ~On(q, "-p") \/ ~merged[2] THEN <<>>
        ELSE IF On(q, "--fd") \/ On(q, "--thread") THEN GetConfigDumper("fd_thread")
        ELSE GetConfigGroup(group, merged[1])

HandleDumpFaultLog(q) ==
    IF ~On(q, "-e") THEN <<>>
    ELSE IF On(q, "--list") THEN GetConfigDumper("event_list")
    ELSE IF On(q, "--print") THEN GetConfigDumper("event_detail")
    ELSE GetConfigGroup("faultlog", Nobody(q))

HandleDumpAppendix(q) ==
    LET all == MergePidInfos(q.uid, -1, q.alive)
    IN  IF ~On(q, "appendix") THEN <<>>
        ELSE GetConfigGroup("log_kernel", all) \o GetConfigGroup("log_init", all)
             \o GetConfigGroup("log_hilog", all)
             \o (IF q.uid \in {ROOT_UID, BMS_UID} THEN GetConfigGroup("stack", all)
                 ELSE <<>>)

HandleDumpIpcStat(q) ==
    IF On(q, "--ipc") THEN GetConfigGroup("ipc", Pids(q, "ipcStatPid")) ELSE <<>>

\* HandleDumpLog adds one group per member of logArgs_, which no option fills.
GetDumperConfigs(q) ==
    HandleDumpSystem(q) \o HandleDumpCpuFreq(q) \o HandleDumpCpuUsage(q)
    \o HandleDumpMem(q) \o HandleDumpHeaps(q) \o HandleDumpMemShowMaps(q)
    \o HandleDumpStorage(q) \o HandleDumpNet(q) \o HandleDumpList(q)
    \o HandleDumpAbilityAndService(q) \o HandleDumpProcesses(q)
    \o HandleDumpFaultLog(q) \o HandleDumpAppendix(q) \o HandleDumpIpcStat(q)
=============================================================================
