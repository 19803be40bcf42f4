----------------------------- MODULE DumpDatas ------------------------------
(***************************************************************************)
(* One request after its options are parsed: DumpImplement::DumpDatas runs *)
(* the list of executors (groups, dumpers, filters, outputs) over a shared *)
(* buffer of lines.  A dumper appends to the buffer, an output writes the  *)
(* buffer out and clears it.  A dumper configured to LOOP reads one line   *)
(* per turn; the output after it sends control back to it until it has no  *)
(* more data.  The service may cancel the request at any moment.  With     *)
(* --zip the output is a log file in the request's folder, and the reset   *)
(* of the executors packs that folder into an archive.                     *)
(*                                                                         *)
(* A step is the code between two polls of canceled_.  A line is known by  *)
(* the executor and the file it came from; line 0 is the title of a file   *)
(* or a command, and executor 0 stands for the titles of groups.           *)
(***************************************************************************)
EXTENDS Integers, Sequences, FiniteSets

CONSTANTS
    Pipelines,      \* the lists of executor configurations to run
    Untitled,       \* the sections AddGroupTitle prints no title for
    MaxFaults,      \* how many calls to the system may fail in one request
    ARCHIVE_FILES,  \* files in the folder that --zip packs
    SIZE_LIMIT,     \* size_t is modulo 2^64 in the code
    FINISH          \* 100 in the code

\* What is known of an executor: content is the number of lines of each of its
\* files, and section 0 is the empty string.
Configs == [class : {"file", "cmd", "once", "group", "filter", "output"},
            loop : BOOLEAN, section : Nat, content : Seq(Nat)]

LineDumper(c) == c.class \in {"file", "cmd"}
IsDumper(c) == LineDumper(c) \/ c.class = "once"
IsOutput(c) == c.class = "output"
IsGroup(c)  == c.class = "group"
Boundary(c) == IsOutput(c) \/ IsGroup(c)

\* The lists have the shape ConfigData gives them: every dumper has an output
\* behind it, and a LOOP dumper has one, or a group, before the next dumper.
ASSUME PipelineAssumption ==
    /\ SIZE_LIMIT \in Nat \ {0}
    /\ FINISH \in Nat \ {0}
    /\ ARCHIVE_FILES \in Nat
    /\ MaxFaults \in Nat
    /\ \A p \in Pipelines :
         /\ p \in Seq(Configs) /\ Len(p) \in 1 .. SIZE_LIMIT - 1
         /\ \A i \in 1 .. Len(p) :
              /\ p[i].class \in {"cmd", "once"} => Len(p[i].content) = 1
              /\ IsDumper(p[i]) => \E j \in i + 1 .. Len(p) : IsOutput(p[j])
              /\ IsDumper(p[i]) /\ p[i].loop =>
                    \A j \in i + 1 .. Len(p) :
                        IsDumper(p[j]) => \E b \in i + 1 .. j - 1 : Boundary(p[b])

VARIABLES
    executors,   \* the configuration of each executor of this request
    isZip,       \* IsDumpZip of its options
    phase,       \* the next step of DumpDatas
    index,       \* the loop variable, from 0
    loopStack,   \* loopStack
    groupName,   \* groupName; 0 is the empty string
    dumpDatas,   \* the shared buffer of lines
    dumper,      \* per executor: the members of FileStreamDumper or CMDDumper
    sink,        \* fd_ of the output: "unset", "open" or "failed"
    written,     \* the lines written to the client or to the log file
    canceled,    \* canceled_ of the RawParam
    progress,    \* progress_ of the RawParam
    title,       \* path_ of the RawParam: what is printed at 100 percent
    reports,     \* every title printed so far
    archive,     \* the archive: "none", "partial" or "whole"
    packed,      \* files of the folder already packed
    faulty,      \* executors that met a failing call
    faults       \* failing calls so far

request  == <<executors, isZip>>
control  == <<phase, index, loopStack, groupName>>
report   == <<progress, title, reports>>
zip      == <<archive, packed>>
failures == <<faulty, faults>>
vars == <<request, control, dumpDatas, dumper, sink, written, canceled, report, zip, failures>>

Indices == 0 .. Len(executors) - 1
Cfg(i)  == executors[i + 1]

Line(i, f, n) == [from |-> i + 1, file |-> f, line |-> n, clean |-> FALSE]
GroupTitle(s) == [from |-> 0, file |-> s, line |-> 0, clean |-> FALSE]

\* A dumper as its factory creates it.
Fresh == [names |-> <<>>, next |-> 0, stream |-> 0, pos |-> 0,
          more |-> FALSE, titled |-> FALSE]

Init ==
    /\ executors \in Pipelines
    /\ isZip \in BOOLEAN
    /\ phase = "head"
    /\ index = 0
    /\ loopStack = <<>>
    /\ groupName = 0
    /\ dumpDatas = <<>>
    /\ dumper = [i \in Indices |-> Fresh]
    /\ sink = "unset"
    /\ written = <<>>
    /\ canceled = FALSE
    /\ progress = 0
    /\ title = IF isZip THEN "result" ELSE "none"
    /\ reports = <<>>
    /\ archive = "none"
    /\ packed = 0
    /\ faulty = {}
    /\ faults = 0

(***************************************************************************)
(* The loop over the executors.                                            *)
(***************************************************************************)

NextIndex(i) == (i + 1) % SIZE_LIMIT

Percent(i) == (FINISH * i) \div Len(executors)

\* UpdateProgress: only --zip shows progress; at 100 percent it prints the title.
UpdateProgress(p) ==
    IF isZip
    THEN /\ progress' = (IF p > progress THEN p ELSE progress)
         /\ reports' = IF progress' = FINISH THEN Append(reports, title) ELSE reports
    ELSE UNCHANGED <<progress, reports>>

\* CheckGroupName: a new section gets a title.
CheckGroupName(c) == IsDumper(c) /\ c.section # 0 /\ c.section # groupName

LoopEnd ==
    /\ phase = "head"
    /\ index >= Len(executors)
    /\ phase' = "reset"
    /\ UNCHANGED <<request, index, loopStack, groupName, dumpDatas, dumper, sink, written,
                   canceled, report, zip, failures>>

LoopCanceled ==
    /\ phase = "head"
    /\ index < Len(executors)
    /\ canceled
    /\ UpdateProgress(Percent(index))
    /\ phase' = "reset"
    /\ UNCHANGED <<request, index, loopStack, groupName, dumpDatas, dumper, sink, written,
                   canceled, title, zip, failures>>

LoopEnter ==
    /\ phase = "head"
    /\ index < Len(executors)
    /\ ~canceled
    /\ UpdateProgress(Percent(index))
    /\ IF CheckGroupName(Cfg(index))
       THEN /\ groupName' = Cfg(index).section
            /\ dumpDatas' = IF groupName' \in Untitled THEN dumpDatas
                            ELSE Append(dumpDatas, GroupTitle(groupName'))
       ELSE UNCHANGED <<groupName, dumpDatas>>
    /\ phase' = "pre"
    /\ UNCHANGED <<request, index, loopStack, dumper, sink, written, canceled, title, zip,
                   failures>>

\* Fault: an executor that failed ends the dump.
SkipExecutorBreaks ==
    /\ phase' = "reset"
    /\ UNCHANGED <<index, loopStack, groupName>>

\* An executor that failed: the loop goes on with the next one.
SkipExecutor ==
    /\ phase' = "head"
    /\ index' = NextIndex(index)
    /\ UNCHANGED <<loopStack, groupName>>

Proceed(p) ==
    /\ phase' = p
    /\ UNCHANGED <<index, loopStack, groupName>>

Faultless == UNCHANGED failures

\* A failing call of the executor at index, and one of the packing.
Fault ==
    /\ faults < MaxFaults
    /\ faults' = faults + 1
    /\ faulty' = faulty \cup {index}

PackFault ==
    /\ faults < MaxFaults
    /\ faults' = faults + 1
    /\ UNCHANGED faulty

(***************************************************************************)
(* FileStreamDumper.                                                       *)
(***************************************************************************)
BuildFileNames(i) ==
    dumper[i].names \o [f \in 1 .. Len(Cfg(i).content) |-> f]

CloseFd(d) == [d EXCEPT !.stream = 0]

\* OpenNextFile on a dumper d: the stream is closed; the next file is opened
\* and its name becomes a title.
NoMoreFiles(d) == d.next >= Len(d.names)

OpenedNext(d) ==
    [d EXCEPT !.next = @ + 1, !.stream = d.names[d.next + 1], !.pos = 0]

FileTitle(i, d) == Line(i, d.names[d.next + 1], 0)

\* PreExecute opens the first file; a dumper that loops comes back with it open.
FilePreExecute ==
    LET named == [dumper[index] EXCEPT !.names = BuildFileNames(index)]
    IN  /\ Cfg(index).class = "file"
        /\ \/ /\ dumper[index].next > 0
              /\ Proceed("exec")
              /\ Faultless
              /\ UNCHANGED <<dumper, dumpDatas>>
           \/ /\ dumper[index].next = 0
              /\ NoMoreFiles(named)
              /\ dumper' = [dumper EXCEPT ![index] = CloseFd(named)]
              /\ SkipExecutor
              /\ Faultless
              /\ UNCHANGED dumpDatas
           \/ /\ dumper[index].next = 0
              /\ ~NoMoreFiles(named)
              /\ dumper' = [dumper EXCEPT ![index] = CloseFd(named)]
              /\ SkipExecutor
              /\ Fault
              /\ UNCHANGED dumpDatas
           \/ /\ dumper[index].next = 0
              /\ ~NoMoreFiles(named)
              /\ dumper' = [dumper EXCEPT ![index] = OpenedNext(named)]
              /\ dumpDatas' = Append(dumpDatas, FileTitle(index, named))
              /\ Proceed("exec")
              /\ Faultless

\* What ReadLineInFile does with the buffer and the dumper, and the status it
\* returns.  getline reports the end of the file with the last line when that
\* line has no newline, and on the call after it otherwise.
ReadLineInFile(ret) ==
    LET d     == dumper[index]
        lines == Cfg(index).content[d.stream]
        got   == IF d.pos < lines
                 THEN Append(dumpDatas, Line(index, d.stream, d.pos + 1)) ELSE dumpDatas
        step  == [d EXCEPT !.pos = IF d.pos < lines THEN @ + 1 ELSE @,
                           !.more = ret = "DUMP_MORE_DATA"]
    IN  \/ /\ d.stream = 0
           /\ ret = "DUMP_FAIL"
           /\ Faultless
           /\ UNCHANGED <<dumper, dumpDatas>>
        \/ /\ d.stream # 0 /\ d.pos < lines              \* a line, not yet the end
           /\ ret = "DUMP_MORE_DATA"
           /\ dumper' = [dumper EXCEPT ![index] = step]
           /\ dumpDatas' = got
           /\ Faultless
        \/ /\ d.stream # 0                                 \* the read failed
           /\ ret = "DUMP_FAIL"
           /\ dumper' = [dumper EXCEPT ![index].more = FALSE]
           /\ UNCHANGED dumpDatas
           /\ Fault
        \/ /\ d.stream # 0 /\ d.pos + 1 >= lines         \* the end, no file left
           /\ NoMoreFiles(d)
           /\ ret = "DUMP_OK"
           /\ dumper' = [dumper EXCEPT ![index] = CloseFd(step)]
           /\ dumpDatas' = got
           /\ Faultless
        \/ /\ d.stream # 0 /\ d.pos + 1 >= lines         \* the end, the next file opens
           /\ ~NoMoreFiles(d)
           /\ ret = "DUMP_MORE_DATA"
           /\ dumper' = [dumper EXCEPT ![index] = OpenedNext(step)]
           /\ dumpDatas' = Append(got, FileTitle(index, step))
           /\ Faultless
        \/ /\ d.stream # 0 /\ d.pos + 1 >= lines         \* the end, the next file does not
           /\ ~NoMoreFiles(d)
           /\ ret = "DUMP_FAIL"
           /\ dumper' = [dumper EXCEPT ![index] = CloseFd(step)]
           /\ dumpDatas' = got
           /\ Fault

(***************************************************************************)
(* CMDDumper.                                                              *)
(***************************************************************************)
CmdPreExecute ==
    LET d      == dumper[index]
        opened == IF d.stream = 0 THEN [d EXCEPT !.stream = 1, !.pos = 0] ELSE d
    IN  /\ Cfg(index).class = "cmd"
        /\ \/ /\ dumper' = [dumper EXCEPT ![index] = [opened EXCEPT !.titled = TRUE]]
              /\ dumpDatas' = IF d.titled THEN dumpDatas
                              ELSE Append(dumpDatas, Line(index, 1, 0))
              /\ Proceed("exec")
              /\ Faultless
           \/ /\ d.stream = 0
              /\ SkipExecutor
              /\ Fault
              /\ UNCHANGED <<dumper, dumpDatas>>

\* Fault: the end of the output of a command is taken for a line.
EofStatusMore == "DUMP_MORE_DATA"

\* What GetLineData returns at the end of the stream.
EofStatus == "DUMP_OK"

\* The end of a command is only seen by the getline after its last line.
ReadLineInCmd(ret) ==
    LET d     == dumper[index]
        lines == Cfg(index).content[1]
    IN  \/ /\ d.pos < lines
           /\ ret = "DUMP_MORE_DATA"
           /\ dumper' = [dumper EXCEPT ![index].pos = @ + 1, ![index].more = TRUE]
           /\ dumpDatas' = Append(dumpDatas, Line(index, 1, d.pos + 1))
           /\ Faultless
        \/ /\ d.pos >= lines
           /\ ret = EofStatus
           /\ dumper' = [dumper EXCEPT ![index].more = ret = "DUMP_MORE_DATA"]
           /\ UNCHANGED dumpDatas
           /\ Faultless
        \/ /\ ret = "DUMP_FAIL"
           /\ dumper' = [dumper EXCEPT ![index].more = FALSE]
           /\ UNCHANGED dumpDatas
           /\ Fault

ReadLine(ret) ==
    \/ Cfg(index).class = "file" /\ ReadLineInFile(ret)
    \/ Cfg(index).class = "cmd"  /\ ReadLineInCmd(ret)

NeedLoop(c) == c.loop

\* Execute of both dumpers: one line when the configuration loops, otherwise
\* lines until the data ends or the request is canceled.
ExecuteLine ==
    /\ phase = "exec"
    /\ LineDumper(Cfg(index))
    /\ NeedLoop(Cfg(index)) \/ ~canceled
    /\ \E ret \in {"DUMP_OK", "DUMP_MORE_DATA", "DUMP_FAIL"} :
          /\ ReadLine(ret)
          /\ IF ret = "DUMP_FAIL" THEN SkipExecutor
             ELSE Proceed(IF ret = "DUMP_MORE_DATA" /\ ~NeedLoop(Cfg(index))
                          THEN "exec" ELSE "after")
    /\ UNCHANGED <<request, sink, written, canceled, report, zip>>

ExecuteCanceled ==
    /\ phase = "exec"
    /\ LineDumper(Cfg(index))
    /\ ~NeedLoop(Cfg(index))
    /\ canceled
    /\ Proceed("after")
    /\ UNCHANGED <<request, dumpDatas, dumper, sink, written, canceled, report, zip, failures>>

(***************************************************************************)
(* The executors that do their work in one call: groups, the dumpers that  *)
(* produce all their lines at once, and filters.                           *)
(***************************************************************************)
SimplePreExecute ==
    /\ Cfg(index).class \in {"group", "once", "filter"}
    /\ Proceed("exec")
    /\ Faultless
    /\ UNCHANGED <<dumper, dumpDatas>>

\* FileFormatDumpFilter strips control characters from every line of the buffer.
Filtered == [k \in DOMAIN dumpDatas |-> [dumpDatas[k] EXCEPT !.clean = TRUE]]

ExecuteOnce ==
    /\ phase = "exec"
    /\ \/ /\ Cfg(index).class = "group"
          /\ Proceed("after")
          /\ Faultless
          /\ UNCHANGED dumpDatas
       \/ /\ Cfg(index).class = "once"
          /\ dumpDatas' = dumpDatas \o
                 [n \in 1 .. Cfg(index).content[1] |-> Line(index, 1, n)]
          /\ Proceed("after")
          /\ Faultless
       \/ /\ Cfg(index).class = "once"
          /\ SkipExecutor
          /\ Fault
          /\ UNCHANGED dumpDatas
       \/ /\ Cfg(index).class = "filter"
          /\ dumpDatas' = Filtered
          /\ Proceed("after")
          /\ Faultless
    /\ UNCHANGED <<request, dumper, sink, written, canceled, report, zip>>

(***************************************************************************)
(* The output: FDOutput, or ZipFolderOutput with --zip.  One instance      *)
(* serves the whole list.                                                  *)
(***************************************************************************)
\* ZipFolderOutput opens its log file once; when that fails every later
\* PreExecute fails too, and SetZipTitle replaces the title.
OutputPreExecute ==
    /\ Cfg(index).class = "output"
    /\ \/ /\ sink = "open" \/ ~isZip \/ sink = "unset"
          /\ sink' = "open"
          /\ Proceed("exec")
          /\ Faultless
          /\ UNCHANGED title
       \/ /\ isZip
          /\ sink = "unset"
          /\ sink' = "failed"
          /\ title' = "failed"
          /\ SkipExecutor
          /\ Fault
       \/ /\ sink = "failed"
          /\ title' = "failed"
          /\ SkipExecutor
          /\ Faultless
          /\ UNCHANGED sink
    /\ UNCHANGED <<dumper, dumpDatas>>

PreExecute ==
    /\ phase = "pre"
    /\ \/ (FilePreExecute \/ CmdPreExecute \/ SimplePreExecute) /\ UNCHANGED <<sink, title>>
       \/ OutputPreExecute
    /\ UNCHANGED <<request, written, canceled, progress, reports, zip>>

ExecuteOutput ==
    /\ phase = "exec"
    /\ Cfg(index).class = "output"
    /\ written' = written \o dumpDatas
    /\ Proceed("after")
    /\ UNCHANGED <<request, dumpDatas, dumper, sink, canceled, report, zip, failures>>

(***************************************************************************)
(* AfterExecute and the way back to a dumper that has more data.           *)
(***************************************************************************)
\* AfterExecute of a line dumper closes its stream unless there is more data.
AfterDumper(d) == IF d.more THEN d ELSE CloseFd(d)

\* Fault: the output does not clear the buffer.
BufferAfterKept(c) == dumpDatas

\* AfterExecute of an output clears the buffer.
BufferAfter(c) == IF IsOutput(c) THEN <<>> ELSE dumpDatas

StackAfter(c, ret) ==
    IF Boundary(c) THEN <<>>
    ELSE IF IsDumper(c) /\ c.loop /\ ret = "DUMP_MORE_DATA"
    THEN Append(loopStack, index) ELSE loopStack

\* The last dumper that asked to loop; the loop's increment adds the 1 back.
LoopBack ==
    IF loopStack # <<>>
    THEN (loopStack[Len(loopStack)] + SIZE_LIMIT - 1) % SIZE_LIMIT
    ELSE index

AfterExecute ==
    /\ phase = "after"
    /\ LET c   == Cfg(index)
           ret == IF LineDumper(c) /\ dumper[index].more THEN "DUMP_MORE_DATA" ELSE "DUMP_OK"
       IN  /\ dumper' = IF LineDumper(c) THEN [dumper EXCEPT ![index] = AfterDumper(@)]
                        ELSE dumper
           /\ dumpDatas' = BufferAfter(c)
           /\ index' = NextIndex(IF Boundary(c) THEN LoopBack ELSE index)
           /\ loopStack' = StackAfter(c, ret)
    /\ phase' = "head"
    /\ UNCHANGED <<request, groupName, sink, written, canceled, report, zip, failures>>

(***************************************************************************)
(* Reset of the executors.  Only ZipFolderOutput has work to do, and only  *)
(* the first time the shared instance is reached: it packs the folder,     *)
(* polling canceled_ before it opens the archive and before each file.     *)
(***************************************************************************)
ResetPlain ==
    /\ phase = "reset"
    /\ ~isZip \/ sink = "unset"
    /\ Proceed("finish")
    /\ UNCHANGED <<request, dumpDatas, dumper, sink, written, canceled, report, zip, failures>>

\* ZipFolder up to the creation of the archive; notify shows progress 0.
ZipFolderOpen ==
    /\ phase = "reset"
    /\ isZip /\ sink # "unset"
    /\ UpdateProgress(0)
    /\ \/ canceled /\ Proceed("finish") /\ UNCHANGED archive /\ Faultless
       \/ ~canceled /\ Proceed("pack") /\ archive' = "partial" /\ Faultless
       \/ ~canceled /\ Proceed("finish") /\ UNCHANGED archive /\ PackFault
    /\ UNCHANGED <<request, dumpDatas, dumper, sink, written, canceled, title, packed>>

FlushItem ==
    /\ phase = "pack"
    /\ packed < ARCHIVE_FILES
    /\ UpdateProgress(0)
    /\ \/ canceled /\ Proceed("finish") /\ UNCHANGED packed /\ Faultless
       \/ ~canceled /\ Proceed("pack") /\ packed' = packed + 1 /\ Faultless
       \/ ~canceled /\ Proceed("finish") /\ UNCHANGED packed /\ PackFault
    /\ UNCHANGED <<request, dumpDatas, dumper, sink, written, canceled, title, archive>>

CloseArchive ==
    /\ phase = "pack"
    /\ packed = ARCHIVE_FILES
    /\ \/ archive' = "whole" /\ Faultless
       \/ UNCHANGED archive /\ PackFault
    /\ Proceed("finish")
    /\ UNCHANGED <<request, dumpDatas, dumper, sink, written, canceled, report, packed>>

\* The last UpdateProgress, then DumpDatas returns and the executors are destroyed.
Finish ==
    /\ phase = "finish"
    /\ UpdateProgress(FINISH)
    /\ Proceed("done")
    /\ dumper' = [i \in Indices |-> CloseFd(dumper[i])]
    /\ UNCHANGED <<request, dumpDatas, sink, written, canceled, title, zip, failures>>

\* CancelAllRequest of the service, on another thread.
Cancel ==
    /\ phase # "done"
    /\ ~canceled
    /\ canceled' = TRUE
    /\ UNCHANGED <<request, control, dumpDatas, dumper, sink, written, report, zip, failures>>

Step ==
    \/ LoopEnd \/ LoopCanceled \/ LoopEnter
    \/ PreExecute
    \/ ExecuteLine \/ ExecuteCanceled \/ ExecuteOnce \/ ExecuteOutput
    \/ AfterExecute
    \/ ResetPlain \/ ZipFolderOpen \/ FlushItem \/ CloseArchive \/ Finish

Done == phase = "done" /\ UNCHANGED vars

Next == Step \/ Cancel \/ Done

Spec == Init /\ [][Next]_vars

\* The thread that serves the request keeps running.
LiveSpec == Spec /\ WF_vars(Step)

(***************************************************************************)
(* Properties.                                                             *)
(***************************************************************************)
\* The lines a dumper has to say, as pairs of a file and a line, and their order.
LinesOf(c) ==
    IF IsDumper(c)
    THEN UNION {{<<f, n>> : n \in (IF c.class = "once" THEN 1 ELSE 0) .. c.content[f]} :
                   f \in 1 .. Len(c.content)}
    ELSE {}

Earlier(l, m) == l[1] < m[1] \/ (l[1] = m[1] /\ l[2] < m[2])

\* What a line of the output says, and the lines of executor i among some.
Said(l) == <<l.file, l.line>>
Of(s, i) == {Said(s[k]) : k \in {k \in DOMAIN s : s[k].from = i + 1}}

\* Lines s go from dumper to dumper in the order of the list p, and have of each
\* its lines in order, from the first on and without a gap.
Ordered(p, s) ==
    /\ \A k \in DOMAIN s : s[k].from # 0 =>
         /\ Said(s[k]) \in LinesOf(p[s[k].from])
         /\ \A l \in LinesOf(p[s[k].from]) : Earlier(l, Said(s[k])) =>
                \E j \in 1 .. k - 1 : s[j].from = s[k].from /\ Said(s[j]) = l
    /\ \A j, k \in DOMAIN s : j < k /\ s[j].from # 0 /\ s[k].from # 0 =>
         \/ s[j].from < s[k].from
         \/ s[j].from = s[k].from /\ Earlier(Said(s[j]), Said(s[k]))

\* The lines of the buffer that no output has written.
Pending == IF phase = "after" /\ IsOutput(Cfg(index)) THEN <<>> ELSE dumpDatas

\* No line is lost in the middle, repeated or moved: as long as the output
\* works, what has been written and what waits in the buffer is, dumper by
\* dumper, the beginning of that dumper's lines, in the order of the list.  This
\* holds after a cancel and after failures too (DumpDatas with LOOP dumpers).
LinesInOrder == sink # "failed" => Ordered(executors, written \o Pending)

\* A dumper that failed costs only its own lines: when the request was not
\* canceled and the output worked, every other dumper has been written whole
\* (the continue statements of DumpDatas, the way back to a LOOP dumper).
FailureIsLocal ==
    phase = "done" /\ ~canceled /\ sink # "failed" =>
        \A i \in Indices \ faulty : Of(written, i) = LinesOf(Cfg(i))

\* DumpDatas returns, whatever fails and whether or not it is canceled.
DumpReturns == <>(phase = "done")
=============================================================================
