--------------------------- MODULE MCMemoryDumper ---------------------------
(***************************************************************************)
(* An instance of MemoryDumper for TLC.  Kinds of request that share state *)
(* run together; the others have scenarios of their own.  Six rounds of a  *)
(* repeated dump, with a head of 2 lines and a tail of 1 (5 in the code),  *)
(* reach every form of its display.                                        *)
(***************************************************************************)
EXTENDS MemoryDumper

CONSTANTS r1, r2, r3

Scenario(k1, k2, k3, rounds, record) ==
    [kinds |-> r1 :> k1 @@ r2 :> k2 @@ r3 :> k3, rounds |-> rounds, record |-> record,
     userMode |-> FALSE]

AllScenarios ==
    { Scenario("repeat", "sigint", "none", 6, FALSE),
      Scenario("repeat", "sigint", "sigint", 1, TRUE),
      Scenario("repeat", "repeat", "sigint", 1, FALSE),
      Scenario("prune", "sigint", "none", 0, FALSE),
      Scenario("all", "none", "none", 0, FALSE),
      Scenario("smaps", "none", "none", 0, FALSE),
      [Scenario("smaps", "none", "none", 0, FALSE) EXCEPT !.userMode = TRUE],
      Scenario("pid", "none", "none", 0, FALSE),
      Scenario("heap", "none", "none", 0, FALSE),
      Scenario("jsheap", "none", "none", 0, FALSE),
      Scenario("cjheap", "none", "none", 0, FALSE) }

Item(name, type, iNode, pss, swapPss) ==
    [name |-> name, type |-> type, iNode |-> iNode, pss |-> pss, dirty |-> pss,
     swapPss |-> swapPss]

Class(class, items) ==
    [class |-> class, items |-> items,
     total |-> [pss |-> Total(LAMBDA x : x.pss, items), dirty |-> Total(LAMBDA x : x.dirty, items)]]

Detail(details) ==
    [details |-> details, totalAllPss |-> Total(LAMBDA d : d.total.pss, details),
     totalPrivateDirty |-> Total(LAMBDA d : d.total.dirty, Shown(details))]

SomeDetails ==
    { Detail(<< Class("unknown", << [Item("u", "other", 0, 1, 0) EXCEPT !.dirty = 0] >>),
                Class("other", << Item("a", "other", 0, 1, 1) >>) >>),
      Detail(<< Class("graph", << Item("g", "GL", 0, 1, 0), Item("h", "Graph", 0, 1, 0) >>),
                Class("other", << Item("a", "other", 0, 1, 0), Item("b", "other", 7, 1, 0) >>),
                Class(".so", << Item("b", "other", 7, 1, 1), Item("b", "other", 7, 0, 1) >>) >>),
      Detail(<< Class("native heap", << Item("n", "jemalloc heap", 0, 2, 0),
                                        Item("n", "brk heap", 0, 1, 0) >>) >>) }

SomeOpts ==
    { [showDmaBuf |-> arkts, showAshmem |-> arkts, showGpumem |-> arkts,
       showArktsHeap |-> arkts, showLeakThread |-> leak]
      : arkts \in BOOLEAN, leak \in BOOLEAN }

Buffer == [t \in Range(showTitles) |-> IF t = "pid" THEN "1" ELSE ""]

\* An application with a file of its own, a system process with listed buffers,
\* and one that is gone.
Files ==
    { [status |-> << <<"Name", "app">>, <<"Uid", 20010>>, <<"PurgSum", 1>> >>, cmdline |-> "app",
       malloc |-> 4, bufs |-> <<>>,
       dmabuf |-> << <<"x">>, <<"Process", "other", "pid">>, <<"app", "y", "1">>, <<"app">> >>,
       ions |-> 0, gpumem |-> 1,
       ashmem |-> << [k |-> "title"], [k |-> "detail", pid |-> 1, name |-> "app"],
                     [k |-> "detail", pid |-> 2, name |-> "y"],
                     [k |-> "total", name |-> "app", size |-> 4],
                     [k |-> "total", name |-> "app", size |-> Bad] >>],
      [status |-> << <<"Name", "hiaiserver">>, <<"Uid", 0>> >>, cmdline |-> Bad, malloc |-> Bad,
       bufs |-> << Buffer, Buffer >>, dmabuf |-> <<>>, ions |-> 1, gpumem |-> 1,
       ashmem |-> << [k |-> "title"], [k |-> "detail", pid |-> 1, name |-> "z"] >>],
      [status |-> Bad, cmdline |-> Bad, malloc |-> Bad, bufs |-> <<>>, dmabuf |-> <<>>, ions |-> 0,
       gpumem |-> 0, ashmem |-> <<>>] }

TwoPids == <<1, 2>>

Process(pss, gl, graph, vss, score) ==
    [own |-> << <<"Rss", pss + 1>>, <<"Pss", pss>>, <<"Private_Clean", 1>>,
                <<"Private_Dirty", 0>>, <<"SwapPss", 1>> >>,
     vss |-> vss, gl |-> gl, graph |-> graph, score |-> score]

TwoSources == << Process(1, 1, 2, 1, 0), Process(2, 3, 0, Bad, Bad) >>

Name(begin, end, iNode, endsInB) ==
    [k |-> "name", begin |-> begin, end |-> end, iNode |-> iNode, endsInB |-> endsInB]
Value(type, value) == [k |-> "value", type |-> type, value |-> value]

TwoSmaps ==
    << << Name("[heap]", "", 0, FALSE), Value("Pss", 2), Value("SwapPss", 1),
          Name("/dev", ".so", 3, FALSE), Value("Pss", 1), Value("Size", 9) >>,
       << Name("", "", 0, TRUE), Value("Pss", 1), Name("/dev", ".db", 2, FALSE),
          Value("Pss_Dirty", 1), Value("Pss", 4) >> >>

SomeMeminfos ==
    { << <<"MemTotal", 9>>, <<"MemFree", 2>>, <<"Cached", 1>>, <<"Buffers", 1>>,
         <<"KReclaimable", 2>>, <<"SReclaimable", 1>>, <<"Slab", 3>>, <<"Mapped", 1>>,
         <<"HugePages", 5>>, <<"MemTotal", 1>> >>,
      << <<"MemTotal", 30>>, <<"SReclaimable", 1>>, <<"Mapped", 4>>, <<"Shmem", 1>>,
         <<"Active(purg)", 1>>, <<"Inactive(purg)", 1>>, <<"Pined(purg)", 2>> >> }

SomeUsages ==
    { [regs |-> <<>>, vmalloc |-> Bad, cma |-> <<>>],
      [regs |-> Bad, vmalloc |-> Bad, cma |-> <<1>>],
      [regs |-> << <<3>> >>, vmalloc |-> <<2, 4>>, cma |-> <<1, Bad>>],
      [regs |-> << <<1>>, Bad, <<2>> >>, vmalloc |-> <<>>, cma |-> <<1, 2>>],
      [regs |-> << <<1, 2, Bad, 3>>, <<2>>, <<1>>, <<2>> >>, vmalloc |-> <<2, 4>>, cma |-> <<1, 2>>],
      [regs |-> << <<1>>, <<1>>, <<1>>, <<1>>, <<2>> >>, vmalloc |-> Bad, cma |-> <<>>] }

\* One type and one pid; --leakobj goes with a native heap.
SomeHeapOpts ==
    { [types |-> {type}, leakobj |-> leak /\ type = "native", gc |-> gc, raw |-> leak, clean |-> leak,
       combine |-> leak, argPid |-> pid, memPid |-> 2 - 2 * pid, tid |-> 3]
      : type \in {"kotlin", "native", "jsvm", "arkweb"}, leak \in BOOLEAN,
        gc \in BOOLEAN, pid \in {0, 1} }

SomeAnswers ==
    { [bar |-> TRUE, name |-> "main", size |-> 4], [bar |-> TRUE, name |-> "main", size |-> 0],
      [bar |-> FALSE, name |-> "main", size |-> 4] }

TwoLabels == <<"fore", "back">>
LabelOfScore == [s \in 0..1 |-> IF s = 0 THEN "fore" ELSE "back"]
=============================================================================
