---------------------------- MODULE MCDumpDatas -----------------------------
(***************************************************************************)
(* DumpDatas for TLC.  The lists have the shape ConfigData gives them:     *)
(* every dumper, or dumper and filter, is followed by its own output, and  *)
(* a group comes before its members.                                       *)
(***************************************************************************)
EXTENDS DumpDatas

Group           == [class |-> "group", loop |-> FALSE, section |-> 0, content |-> <<>>]
Output(l)       == [class |-> "output", loop |-> l, section |-> 0, content |-> <<>>]
Filter          == [class |-> "filter", loop |-> FALSE, section |-> 0, content |-> <<>>]
Dumper(k, l, s, c) == [class |-> k, loop |-> l, section |-> s, content |-> c]

\* Two LOOP dumpers in a row, the first at index 0 and over several files.
LoopPipeline ==
    <<Dumper("file", TRUE, 1, <<2, 1>>), Output(TRUE),
      Dumper("cmd", TRUE, 2, <<2>>), Output(TRUE)>>

\* A group, a filter, an empty file, and a dumper that answers at once.
MixedPipeline ==
    <<Group, Dumper("cmd", FALSE, 1, <<2>>), Filter, Output(FALSE),
      Dumper("file", FALSE, 1, <<1, 0, 1>>), Output(FALSE),
      Dumper("once", FALSE, 2, <<2>>), Output(FALSE)>>

\* A LOOP dumper between plain ones; a directory with nothing in it.
NestedPipeline ==
    <<Group, Dumper("once", FALSE, 1, <<1>>), Output(FALSE),
      Dumper("file", TRUE, 1, <<2>>), Output(TRUE),
      Group, Dumper("file", FALSE, 2, <<>>), Output(FALSE),
      Dumper("cmd", TRUE, 3, <<1>>), Output(TRUE)>>

\* When the log file cannot be opened, the group at the end sends control back
\* to the LOOP dumper, and the dumper between them runs again.
DrainPipeline ==
    <<Dumper("cmd", TRUE, 1, <<1>>), Output(TRUE),
      Dumper("file", FALSE, 1, <<1>>), Output(FALSE),
      Group, Dumper("once", FALSE, 2, <<1>>), Output(FALSE)>>

MCPipelines == {LoopPipeline, MixedPipeline, NestedPipeline, DrainPipeline}
=============================================================================
