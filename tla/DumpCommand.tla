---------------------------- MODULE DumpCommand ----------------------------
(***************************************************************************)
(* DumpImplement::InitHandle: the arguments of a request are parsed option *)
(* by option, validated, and turned into the list of executors of the      *)
(* dump.  The whole of it runs under mutexCmdLock_, so requests do not     *)
(* interleave here; the processes a command names may exit at any time.    *)
(*                                                                         *)
(* The switches of DumperOpts are kept as the set `flags': the option that *)
(* turns a switch on stands for it, "js raw", "heap raw", "js gc", "cj gc",*)
(* "heap gc", "js leakobj" and "heap leakobj" for the switches one option  *)
(* shares between several commands.  The model is of the build with        *)
(* HIDUMPER_HIVIEWDFX_HIVIEW_ENABLE, HIDUMPER_HIVIEWDFX_PLUGIN_ENABLE and  *)
(* HIDUMPER_BUNDLEMANAGER_FRAMEWORK_ENABLE, and not of the emulator's.     *)
(***************************************************************************)
EXTENDS ConfigUtils, FiniteSets, TLC

CONSTANTS
    Commands,       \* the argument vectors: functions on 0 .. argc - 1
    Callers,        \* records [pid, uid, hidumper]: who sends the request
    Numerals,       \* numeric strings and their values
    TooLarge,       \* numeric strings StrToInt refuses
    BadStrings,     \* empty or overlong strings
    Timestamps,     \* strings StringUtils::StringToUnixMs accepts
    Abilities,      \* strings that name a system ability
    HeapApps,       \* processes CheckJsHeapPermission admits
    MainOf,         \* the main process of each render process
    ARG_MAX_COUNT,  \* 64 in the code
    EXIT_MAX        \* bound: how many processes end during a command

HIVIEW_UID == 1201
APP_UID_LIMIT == 20000
IPC_STAT_ARG_NUMS == 4
ARG_COUNT_HEAP_MEM == 4

VARIABLES
    argv,       \* the arguments, argv[0] the name of the tool
    optind,     \* getopt's index of the next argument
    group,      \* the letters left of a group of short options such as -ls
    opts,       \* DumperOpts
    status,     \* where InitHandle is, at the end the DumpStatus it returns
    caller,     \* the RawParam's pid and uid
    user,       \* DumpUtils::IsUserMode
    alive,      \* the processes that live
    configs     \* DumperParameter's executorConfigList_

vars == <<argv, optind, group, opts, status, caller, user, alive, configs>>

argc == Cardinality(DOMAIN argv)

(***************************************************************************)
(* DumperOpts.                                                             *)
(***************************************************************************)
PidDefaults ==
    [cpuUsagePid |-> -1, memPid |-> -1, storagePid |-> -1, netPid |-> -1,
     processPid |-> -1, ipcStatPid |-> -1, showEventCount |-> -1,
     jsHeapPid |-> 0, cjHeapPid |-> 0, heapPid |-> 0, heapArgPid |-> 0,
     renderPid |-> 0, threadId |-> 0, timeInterval |-> 0]

Reset == [flags |-> {}, pids |-> PidDefaults, systemArgs |-> <<>>, names |-> <<>>]

Turn(o, flag) == [o EXCEPT !.flags = @ \cup {flag}]
Is(o, flag) == flag \in o.flags

AddSelectAll(o) ==
    [o EXCEPT !.flags = @ \cup {"--cpufreq", "--cpuusage", "log", "--mem", "--storage", "--net",
                                "service", "-s", "-c", "-p", "-e", "appendix"}]

IsSelectAny(o) ==
    o.flags \cap {"--cpufreq", "--cpuusage", "log", "-e", "--mem", "--storage", "--net", "service",
                  "-s", "-c", "-p", "--mem-smaps", "--mem-jsheap", "--mem-cjheap", "--mem-heap",
                  "--ipc"} # {}

\* DumperOpts::CheckOptions.  No option can make a pid negative, since only
\* digits are numeric, so the comparisons with -1 never fail.
CheckOptions(o) ==
    /\ Is(o, "-l") => o.flags \cap {"service", "-s", "-c"} # {}
    /\ ~({"--list", "--print"} \subseteq o.flags)
    /\ ~({"--fd", "--thread"} \subseteq o.flags)
    /\ \A i \in 1..Len(o.names) : o.names[i] \in Abilities
    /\ \A i \in 1..Len(o.systemArgs) : o.systemArgs[i] \in {"base", "system"}

(***************************************************************************)
(* The parser.  What one option does is [o, ret]: the options after it and *)
(* a DumpStatus.                                                           *)
(***************************************************************************)
Ret(o, ret) == [o |-> o, ret |-> ret]
Ok(o) == Ret(o, "DUMP_OK")

SetCmdIntegerParameter(o, str, field) ==
    IF str \in TooLarge THEN Ret(o, "DUMP_FAIL")
    ELSE IF str \notin DOMAIN Numerals THEN Ret(o, "DUMP_INVALID_ARG")
    ELSE Ok([o EXCEPT !.pids[field] = Numerals[str]])

SetShowCount(o, str) ==
    LET set == SetCmdIntegerParameter(o, str, "showEventCount")
    IN  IF set.ret = "DUMP_OK" /\ set.o.pids.showEventCount <= 0
        THEN Ret(set.o, "DUMP_INVALID_ARG") ELSE set

\* The field a value goes to, by the argument before it.
FieldOf ==
    ("--cpuusage" :> "cpuUsagePid" @@ "--mem" :> "memPid" @@ "--net" :> "netPid" @@
     "--storage" :> "storagePid" @@ "-p" :> "processPid" @@ "-T" :> "threadId" @@
     "-t" :> "timeInterval" @@ "--ipc" :> "ipcStatPid" @@ "--mem-heap" :> "heapPid" @@
     "--native" :> "heapArgPid" @@ "--kotlin" :> "heapArgPid" @@
     "--jsvm" :> "heapArgPid" @@ "--arkweb-js" :> "heapArgPid")

\* Options begin with a dash and no value of the model contains one.
HasDash(str) == str \notin (DOMAIN Numerals \cup TooLarge \cup Abilities \cup Timestamps
                            \cup {"base", "system", "word", "SIGINT"})

\* next is optind after the value has been consumed.
IsSADumperOption(next) ==
    LET dashed == {i \in 1..(next - 2) : HasDash(argv[i])}
    IN  dashed # {} /\ argv[CHOOSE i \in dashed : \A j \in dashed : j <= i] \in {"-s", "-a"}

HandleOptionParameter(o, option, value, next) ==
    CASE option = "--mem" /\ value = "SIGINT" -> Ok(Turn(o, "SIGINT"))
      [] option \in DOMAIN FieldOf /\ ~(option = "--mem" /\ value = "SIGINT") ->
            SetCmdIntegerParameter(o, value, FieldOf[option])
      [] option = "-n" -> SetShowCount(o, value)
      [] option = "-c" -> Ok([o EXCEPT !.systemArgs = Append(@, value)])
      [] option \in {"--list", "--print"} -> Ok(o)
      [] option \notin DOMAIN FieldOf \cup {"-n", "-c", "--list", "--print"} ->
            IF IsSADumperOption(next) THEN Ok([o EXCEPT !.names = Append(@, value)])
            ELSE Ret(o, "DUMP_FAIL")

SetMemSmapsParam(o) ==
    IF 2 >= argc THEN Ret(Turn(o, "--mem-smaps"), "DUMP_FAIL")
    ELSE SetCmdIntegerParameter(Turn(o, "--mem-smaps"), argv[2], "memPid")

\* Options that only make sense after another one: the switch each turns on,
\* by the options that must have come before, the first that fits.
Alternatives ==
    LET heap(flag) == <<[needs |-> {"--mem-heap"}, flag |-> flag]>>
        js(flag) == <<[needs |-> {"--mem-jsheap"}, flag |-> flag]>>
        mem(flag) == <<[needs |-> {"--mem"}, flag |-> flag]>>
    IN  "--native" :> heap("--native") @@ "--kotlin" :> heap("--kotlin") @@
        "--jsvm" :> heap("--jsvm") @@ "--arkweb-js" :> heap("--arkweb-js") @@
        "--raw" :> (js("js raw") \o heap("heap raw")) @@
        "--gc" :> (js("js gc")
                   \o <<[needs |-> {"--mem-cjheap"}, flag |-> "cj gc"]>>
                   \o heap("heap gc")) @@
        "--leakobj" :> (js("js leakobj")
                        \o <<[needs |-> {"--mem-heap", "--native"},
                              flag |-> "heap leakobj"]>>) @@
        "--clean" :> js("--clean") @@ "--prune" :> mem("--prune") @@
        "--show-leakthread" :> mem("--show-leakthread")

SetSubParam(o, opt) ==
    LET fits == {i \in 1..Len(Alternatives[opt]) :
                    Alternatives[opt][i].needs \subseteq o.flags}
        first == CHOOSE i \in fits : \A j \in fits : i <= j
    IN  IF fits # {} THEN Ok(Turn(o, Alternatives[opt][first].flag))
        ELSE Ret(o, IF opt \in {"--clean", "--prune"} THEN "DUMP_FAIL" ELSE "DUMP_HELP")

IpcStats == {"--start-stat", "--stop-stat", "--stat"}
Switches == {"--cpufreq", "--cpuusage", "--mem", "--net", "--storage", "--zip",
             "--show-ashmem", "--show-dmabuf", "--show-gpumem", "--show-arktsheap",
             "--fd", "--thread", "--mem-heap", "--single"}
EventOptions == {"--list", "--print", "--since", "--until"}
Requiring == {"--mem-smaps", "--mem-jsheap", "--mem-cjheap", "--since", "--until"}
LongOptions == Switches \cup EventOptions \cup Requiring \cup IpcStats
               \cup DOMAIN Alternatives \cup {"--ipc"}

SetEventParam(o, opt, optarg) ==
    IF ~Is(o, "-e") THEN Ok(o)
    ELSE IF opt \in {"--list", "--print"} THEN Ok(Turn(o, opt))
    ELSE Ret(o, IF optarg \in Timestamps THEN "DUMP_OK" ELSE "DUMP_INVALID_ARG")

ParseLongCmdOption(o, opt, optarg) ==
    CASE opt \in Switches -> Ok(Turn(o, opt))
      [] opt = "--mem-smaps" -> SetMemSmapsParam(o)
      [] opt = "--mem-jsheap" -> SetCmdIntegerParameter(Turn(o, opt), optarg, "jsHeapPid")
      [] opt = "--mem-cjheap" -> SetCmdIntegerParameter(Turn(o, opt), optarg, "cjHeapPid")
      [] opt \in DOMAIN Alternatives -> SetSubParam(o, opt)
      [] opt = "--ipc" ->
            Ret(Turn(o, opt), IF argc = IPC_STAT_ARG_NUMS THEN "DUMP_OK" ELSE "DUMP_HELP")
      [] opt \in IpcStats ->
            Ret(Turn(o, opt), IF Is(o, "--ipc") THEN "DUMP_OK" ELSE "DUMP_HELP")
      [] opt \in EventOptions -> SetEventParam(o, opt, optarg)

ParseCmdOptionForA(o, optarg) ==
    IF Is(o, "-s") THEN Ok(o)
    ELSE IF Is(o, "--ipc") /\ optarg \in IpcStats
         THEN Ok([o EXCEPT !.flags = @ \cup {"all ipc", optarg}])
    ELSE Ret(o, "DUMP_INVALID_ARG")

Letters == [opt \in {"-h", "-l", "-c", "-s", "-e", "-p", "-v"} |-> <<opt>>]
           @@ ("-lc" :> <<"-l", "-c">> @@ "-ls" :> <<"-l", "-s">>)

\* One turn of CmdParseWithParameter's loop: getopt_long has moved to `next'
\* and the option has had the effect r.
Parsed(r, next) ==
    /\ opts' = r.o
    /\ status' = IF r.ret = "DUMP_OK" THEN "parse" ELSE r.ret
    /\ optind' = next
    /\ UNCHANGED <<argv, caller, user, alive, configs>>

Parsing == status = "parse" /\ optind < argc

ParseLetter ==
    /\ Parsing
    /\ group # <<>> \/ argv[optind] \in DOMAIN Letters
    /\ LET letters == IF group # <<>> THEN group ELSE Letters[argv[optind]]
           letter == Head(letters)
       IN  /\ group' = Tail(letters)
           /\ Parsed(IF letter = "-h" THEN Ret(opts, "DUMP_HELP") ELSE Ok(Turn(opts, letter)),
                     IF group' = <<>> THEN optind + 1 ELSE optind)

ParseWithArgument ==
    /\ Parsing /\ argv[optind] \in {"-a", "-T", "-t", "-n"}
    /\ IF optind + 1 >= argc THEN Parsed(Ret(opts, "DUMP_INVALID_ARG"), argc)
       ELSE Parsed(IF argv[optind] = "-a" THEN ParseCmdOptionForA(opts, argv[optind + 1])
                   ELSE HandleOptionParameter(opts, argv[optind], argv[optind + 1],
                                              optind + 2),
                   optind + 2)
    /\ UNCHANGED group

ParseLong ==
    /\ Parsing /\ argv[optind] \in LongOptions
    /\ IF argv[optind] \notin Requiring
       THEN Parsed(ParseLongCmdOption(opts, argv[optind], "none"), optind + 1)
       ELSE IF optind + 1 >= argc THEN Parsed(Ret(opts, "DUMP_INVALID_ARG"), argc)
       ELSE Parsed(ParseLongCmdOption(opts, argv[optind], argv[optind + 1]), optind + 2)
    /\ UNCHANGED group

\* The option string begins with a dash, so getopt_long returns values in
\* their place, and SetCmdParameter looks at the argument before.
ParseValue ==
    /\ Parsing /\ ~HasDash(argv[optind])
    /\ Parsed(HandleOptionParameter(opts, argv[optind - 1], argv[optind], optind + 1),
              optind + 1)
    /\ UNCHANGED group

ParseUnknown ==
    /\ Parsing
    /\ HasDash(argv[optind])
    /\ argv[optind] \notin DOMAIN Letters \cup LongOptions \cup {"-a", "-T", "-t", "-n"}
    /\ Parsed(Ret(opts, "DUMP_INVALID_ARG"), optind + 1)
    /\ UNCHANGED group

(***************************************************************************)
(* Validation.                                                             *)
(***************************************************************************)
\* The pids that CheckProcessAlive asks about; heap and ipc pids from 1 on.
Asked(o) ==
    ({o.pids[f] : f \in {"cpuUsagePid", "memPid", "processPid", "storagePid", "netPid"}} \ {-1})
    \cup ({o.pids[f] : f \in {"jsHeapPid", "cjHeapPid", "heapPid", "heapArgPid",
                              "ipcStatPid"}} \ {-1, 0})

HeapPid(o) == IF o.pids.heapArgPid > 0 THEN o.pids.heapArgPid ELSE o.pids.heapPid

\* Both look the process up under /proc, so it must live.
CheckAppDebugVersion(pid) == pid \in DebugApps \cap alive
CheckJsHeapPermission(pid) == pid \in (DebugApps \cup HeapApps) \cap alive

IsApplicationPid(pid) == pid \in alive /\ UidOf[pid] > APP_UID_LIMIT

CheckDumpPermission(o) ==
    /\ Is(o, "--fd") \/ Is(o, "--thread") => o.pids.processPid > 0
    /\ user =>
        /\ Is(o, "--mem-smaps") /\ caller.uid # HIVIEW_UID => CheckAppDebugVersion(o.pids.memPid)
        /\ Is(o, "--mem-jsheap") => CheckJsHeapPermission(o.pids.jsHeapPid)
        /\ Is(o, "--mem-cjheap") => CheckAppDebugVersion(o.pids.cjHeapPid)
        /\ Is(o, "--mem-heap") => CheckAppDebugVersion(HeapPid(o))
        /\ Is(o, "--show-leakthread") /\ IsApplicationPid(o.pids.memPid)
              => CheckAppDebugVersion(o.pids.memPid)
        /\ ~(Is(o, "--mem") /\ o.pids.timeInterval > 0)

CheckJsHeapSingleParam(o) ==
    Is(o, "--single") => Is(o, "js raw") /\ o.pids.threadId = 0

CheckKmpParameter(o) ==
    o.flags \cap {"heap raw", "heap leakobj"} = {} /\ o.pids.threadId = 0

CheckArkwebJsParameter(o) ==
    /\ ~({"heap gc", "heap raw"} \subseteq o.flags)
    /\ HeapPid(o) \in DOMAIN MainOf \cap alive
    /\ MainOf[HeapPid(o)] \in alive

CheckDumpHeapMemParameter(o) ==
    /\ argc >= ARG_COUNT_HEAP_MEM
    /\ Cardinality(o.flags \cap {"--native", "--kotlin", "--jsvm", "--arkweb-js"}) = 1
    /\ (o.pids.heapPid > 0) # (o.pids.heapArgPid > 0)
    /\ Is(o, "--arkweb-js") => CheckArkwebJsParameter(o)
    /\ Is(o, "--kotlin") => CheckKmpParameter(o)

CheckShowLeakthreadParameter(o) == o.pids.memPid > 0 /\ IsApplicationPid(o.pids.memPid)

CheckUnableToDumpAll(o) ==
    ~IsSelectAny(o) /\ ~(argc = 1 \/ (argc = 2 /\ Is(o, "--zip")))

ValidateDumpOptions(o) ==
    CASE Is(o, "--mem-jsheap") /\ ~CheckJsHeapSingleParam(o) -> "DUMP_FAIL"
      [] OTHER ->
            IF \/ Is(o, "--mem-heap") /\ ~CheckDumpHeapMemParameter(o)
               \/ Is(o, "--show-leakthread") /\ ~CheckShowLeakthreadParameter(o)
               \/ CheckUnableToDumpAll(o)
            THEN "DUMP_HELP" ELSE "DUMP_OK"

\* CheckArkwebJsParameter's side effect: the main process takes the place of
\* the render process.
FindMainPid(o) ==
    IF ~({"--mem-heap", "--arkweb-js"} \subseteq o.flags) THEN o
    ELSE LET main == MainOf[HeapPid(o)]
         IN  [o EXCEPT !.pids.renderPid = HeapPid(o),
                       !.pids.heapArgPid = IF @ > 0 THEN main ELSE 0,
                       !.pids.heapPid = IF @ > 0 THEN main ELSE 0]

\* RemoveDuplicateString keeps the first of equal strings.
RemoveDuplicates(list) ==
    LET firsts == {i \in 1..Len(list) : \A j \in 1..(i - 1) : list[j] # list[i]}
    IN  [k \in 1..Cardinality(firsts) |->
            list[CHOOSE i \in firsts : Cardinality({j \in firsts : j <= i}) = k]]

RemoveDuplicateString(o) ==
    [o EXCEPT !.systemArgs = RemoveDuplicates(@), !.names = RemoveDuplicates(@)]

ProcessDumpOptions(o) ==
    IF caller.hidumper THEN AddSelectAll(o)
    ELSE [o EXCEPT !.flags = @ \cup {"--cpufreq", "--cpuusage", "--mem"},
                   !.pids.cpuUsagePid = caller.pid, !.pids.memPid = caller.pid]

Goto(s) == /\ status' = s
           /\ UNCHANGED <<argv, optind, group, caller, user, alive>>

CheckArgs ==
    /\ status = "start"
    /\ Goto(IF argc > ARG_MAX_COUNT \/ \E i \in DOMAIN argv : argv[i] \in BadStrings
            THEN "DUMP_FAIL" ELSE "parse")
    /\ UNCHANGED <<opts, configs>>

CheckProcessAlive ==
    /\ status = "parse" /\ optind = argc
    /\ Goto(IF Asked(opts) \subseteq alive THEN "validate" ELSE "DUMP_FAIL")
    /\ UNCHANGED <<opts, configs>>

Validate ==
    /\ status = "validate"
    /\ LET ret == IF ~CheckDumpPermission(opts) THEN "DUMP_HELP" ELSE ValidateDumpOptions(opts)
           found == IF ret = "DUMP_OK" THEN RemoveDuplicateString(FindMainPid(opts)) ELSE opts
       IN  IF ret # "DUMP_OK" THEN Goto(ret) /\ UNCHANGED opts
           ELSE IF ~CheckOptions(found) THEN Goto("DUMP_INVALID_ARG") /\ opts' = found
           ELSE Goto("configure")
                /\ opts' = IF IsSelectAny(found) THEN found ELSE ProcessDumpOptions(found)
    /\ UNCHANGED configs

Configure ==
    /\ status = "configure"
    /\ configs' = GetDumperConfigs([flags |-> opts.flags, pids |-> opts.pids,
                                    systemArgs |-> opts.systemArgs, uid |-> caller.uid,
                                    user |-> user, alive |-> alive])
    /\ Goto("DUMP_OK")
    /\ UNCHANGED opts

\* A process of the system ends while the command is being handled.
ProcessExits(p) ==
    /\ status \in {"validate", "configure"}
    /\ p \in alive /\ Cardinality(alive) > Len(AllPids) - EXIT_MAX
    /\ alive' = alive \ {p}
    /\ UNCHANGED <<argv, optind, group, opts, status, caller, user, configs>>

Init ==
    /\ argv \in Commands
    /\ optind = 1 /\ group = <<>> /\ opts = Reset /\ status = "start"
    /\ caller \in Callers /\ user \in BOOLEAN
    /\ alive = {AllPids[i] : i \in 1..Len(AllPids)}
    /\ configs = <<>>

Next ==
    \/ CheckArgs
    \/ ParseLetter
    \/ ParseWithArgument
    \/ ParseLong
    \/ ParseValue
    \/ ParseUnknown
    \/ CheckProcessAlive
    \/ Validate
    \/ Configure
    \/ \E p \in alive : ProcessExits(p)

Spec == Init /\ [][Next]_vars

(***************************************************************************)
(* Properties.                                                             *)
(***************************************************************************)

Done == status = "DUMP_OK"
Class(i) == configs[i].class
DumperAt(i) == Class(i) = "DUMPER"

\* DumpDatas hands the matrix from executor to executor: in every list that
\* GetDumperConfigs builds each dumper's data reaches an output, possibly
\* through a filter, before the next dumper or group, and no output is left
\* without a dumper.
PipelinesClosed ==
    Done => \A i \in 1..Len(configs) :
        /\ Class(i) \in {"DUMPER", "FILTER"} => i < Len(configs) /\ Class(i + 1) \in {"FILTER", "OUTPUT"}
        /\ Class(i) \in {"FILTER", "OUTPUT"} => i > 1 /\ Class(i - 1) \in {"DUMPER", "FILTER"}

\* The dumpers whose PreExecute takes the process from the options, and the
\* field it takes; HeapMemoryDumper's depends on the options.
OptionPid ==
    [mem |-> "memPid", cpu_usage |-> "cpuUsagePid", traffic |-> "netPid",
     ipc_stat |-> "ipcStatPid", jsheap_memory |-> "jsHeapPid",
     cjheap_memory |-> "cjHeapPid", fd_thread |-> "processPid"]

\* The heap of a render process is dumped through its main process.
HeapDumped(o) == IF o.pids.renderPid > 0 THEN o.pids.renderPid ELSE HeapPid(o)

\* The process the dumper at i works on.
DumpedPid(i) ==
    LET name == configs[i].name
    IN  IF name \in DOMAIN OptionPid THEN opts.pids[OptionPid[name]]
        ELSE IF name = "heap_memory" THEN HeapDumped(opts)
        ELSE configs[i].args.pid

\* The dumpers GetDumperConfigs adds without asking GetDumpLevelByPid.
NoLevel == {"jsheap_memory", "cjheap_memory", "heap_memory", "fd_thread"}

\* Each dumper works on a process the caller may see, also when that process
\* exits while the command is handled and its uid is no longer known.  An
\* application is shown its own processes only, except by the heap dumps and by
\* -p --fd or --thread, which no level guards: those are limited by the kind of
\* the process, and on a user build only.  There a heap, smaps or fd and thread
\* dump is of a debug application, or of one CheckJsHeapPermission admits.
PermittedProcessesOnly ==
    Done => \A i \in 1..Len(configs) : DumperAt(i) =>
        LET name == configs[i].name
            p == DumpedPid(i)
        IN  /\ caller.uid >= APP_FIRST_UID /\ name \notin NoLevel =>
                   p \in {NoId} \cup {own \in DOMAIN UidOf : UidOf[own] = caller.uid}
            /\ user /\ name \in NoLevel =>
                   p \in DebugApps \cup (IF name = "jsheap_memory" THEN HeapApps ELSE {})
            /\ user /\ name = "mem" /\ Is(opts, "--mem-smaps") /\ caller.uid # HIVIEW_UID =>
                   p \in DebugApps

\* What the options are about: the switch, its pid and the section it fills.
PidOptions ==
    {<<"--cpuusage", "cpuUsagePid", "cpuusage">>, <<"--mem", "memPid", "memory">>,
     <<"--net", "netPid", "net traffic">>, <<"--storage", "storagePid", "storage io">>,
     <<"--ipc", "ipcStatPid", "ipc">>}

\* A process that a command names, that still lives and that the caller may
\* see, is dumped under the option's section, also next to -c, whose system
\* group replaces the same options without a pid.  The exception is --storage
\* next to -c: HandleDumpStorage looks at memPid_ there.
NamedProcessDumped ==
    Done => \A t \in PidOptions :
        LET p == opts.pids[t[2]]
        IN  /\ t[1] \in opts.flags /\ p \in alive
            /\ GetDumpLevelByPid(caller.uid, UidOf[p]) # "LEVEL_NONE"
            /\ ~(t[1] = "--storage" /\ "-c" \in opts.flags)
            => \E i \in 1..Len(configs) : /\ DumperAt(i) /\ configs[i].section = t[3]
                                          /\ configs[i].args.pid = p
=============================================================================
