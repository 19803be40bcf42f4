--------------------------- MODULE MCDumpCommand ---------------------------
(***************************************************************************)
(* Commands of up to two options, with and without values, in every order, *)
(* and the longer ones the heap and ipc options need.  Process 1 is a      *)
(* system service, 2 a debug application, 3 a release application and 4    *)
(* the render process of 2; 9 is no process.                               *)
(***************************************************************************)
EXTENDS DumpCommand

MCAllPids == <<1, 2, 3, 4>>
MCUidOf == [p \in 1..4 |-> CASE p = 1 -> 1000 [] p \in {2, 4} -> 20010001 [] p = 3 -> 20010002]
MCDebugApps == {2, 4}
MCHeapApps == {3}
MCMainOf == [p \in {4} |-> 2]
MCCpuIds == <<0, 1>>
MCNumerals == "0" :> 0 @@ "1" :> 1 @@ "2" :> 2 @@ "3" :> 3 @@ "4" :> 4 @@ "9" :> 9
MCTooLarge == {"99999999999"}
MCCallers == {[pid |-> 1, uid |-> 0, hidumper |-> TRUE],
              [pid |-> 2, uid |-> 20010001, hidumper |-> FALSE]}

Switch == {"-h", "-l", "-c", "-s", "-e", "-p", "-v", "-lc", "-ls", "--cpufreq", "--cpuusage",
           "--mem", "--net", "--storage", "--zip", "--fd", "--thread", "--raw", "--gc",
           "--clean", "--prune", "--show-leakthread", "--list", "--print", "--stat", "--ipc",
           "--single", "--leakobj", "--native", "--since", "-T", "--bogus", "word", "base"}
Valued == {"--mem", "--cpuusage", "--net", "--storage", "-p", "--mem-smaps", "--mem-jsheap",
           "--mem-cjheap"}
Units ==
    {<<s>> : s \in Switch} \cup {<<o, v>> : o \in Valued, v \in {"1", "2", "3"}}
    \cup {<<"--mem", "9">>, <<"--mem", "word">>, <<"--mem", "99999999999">>, <<"--mem", "SIGINT">>,
          <<"--mem-jsheap", "0">>, <<"-T", "3">>, <<"-t", "1">>, <<"-n", "0">>, <<"-n", "1">>,
          <<"-c", "base">>, <<"-c", "system">>, <<"-c", "word">>, <<"-s", "SA">>,
          <<"-s", "SA", "SA">>, <<"-a", "--stat">>, <<"-a", "word">>, <<"--since", "now">>,
          <<"--until", "word">>}
Heap == {<<"--mem-heap", p, a>> : p \in {"2", "3", "4"}, a \in {"--native", "--kotlin", "--jsvm", "--arkweb-js"}}
        \cup {<<"--mem-heap", "--arkweb-js", "4">>, <<"--mem-heap", "--native", "2">>,
              <<"--mem-jsheap", "2", "--raw">>}
More == {<<"--ipc", "2", "--stat">>, <<"--ipc", "-a", "--stat">>, <<"-c", "base", "system">>,
         <<"-c", "base", "-c", "base">>, <<"">>, [i \in 1..9 |-> "-v"]}
Usage ==
    {<<>>, <<"-lc">>, <<"-ls">>, <<"-c">>, <<"-s">>, <<"-s", "SA", "SA">>,
     <<"-s", "SA", "-a", "word">>, <<"-e">>, <<"-e", "--print", "1">>,
     <<"-e", "--list", "word", "-n", "1", "--since", "now">>,
     <<"-e", "--print", "word", "-n", "1", "--until", "now">>,
     <<"--net">>, <<"--net", "2">>, <<"--storage">>, <<"--storage", "2">>, <<"-p">>, <<"-p", "2">>,
     <<"-p", "2", "--thread", "-v">>, <<"-p", "2", "--fd">>, <<"--cpufreq">>, <<"--cpuusage", "2">>,
     <<"--mem">>, <<"--mem", "--prune">>, <<"--mem", "2", "--show-leakthread">>,
     <<"--mem", "2", "--show-ashmem", "--show-dmabuf", "--show-gpumem", "--show-arktsheap">>,
     <<"--mem", "2", "-t", "1">>, <<"--zip">>, <<"--mem-smaps", "2", "-v">>,
     <<"--mem-jsheap", "2", "-T", "1", "--gc", "--leakobj", "--raw", "--clean">>,
     <<"--mem-jsheap", "2", "--raw", "--single">>, <<"--mem-cjheap", "2", "--gc">>,
     <<"--mem-heap", "2", "--native", "--leakobj", "--gc">>, <<"--mem-heap", "2", "--kotlin">>,
     <<"--mem-heap", "2", "--jsvm", "--raw", "-T", "1">>, <<"--mem-heap", "4", "--arkweb-js">>,
     <<"--ipc", "2", "--stat">>, <<"--ipc", "-a", "--start-stat">>, <<"--ipc", "2", "--stop-stat">>}
Lines == Usage \cup Units \cup {u \o v : u, v \in Units}
         \cup Heap \cup {h \o <<s>> : h \in Heap, s \in {"--raw", "--gc", "--leakobj", "--single"}}
         \cup {h \o <<"-T", "1">> : h \in Heap} \cup More
Command(line) == [i \in 0..Len(line) |-> IF i = 0 THEN "hidumper" ELSE line[i]]

MCCommands == {Command(line) : line \in Lines}
=============================================================================
