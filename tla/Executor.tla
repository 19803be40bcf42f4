------------------------------ MODULE Executor ------------------------------
(***************************************************************************)
(* One run of a dump executor (HidumperExecutor) within a request:         *)
(* PreExecute, Execute, AfterExecute and the destructor, as DumpDatas      *)
(* drives them.  The modules that extend this one give the steps of        *)
(* Execute; a scenario says which executor runs, with which options.       *)
(***************************************************************************)
EXTENDS Integers, Sequences, FiniteSets

CONSTANTS
    Scenarios   \* records with the field kind and the options the executor reads

VARIABLES
    scenario,   \* the scenario, fixed
    pc,         \* where the executor is
    status,     \* what Execute returned, Empty before
    result,     \* the rows pushed to dumpDatas_
    canceled    \* the request is cancelled (RawParam)

frame == <<scenario, pc, status, result, canceled>>

Empty == ""         \* the empty string
OK == "DUMP_OK"
FAIL == "DUMP_FAIL"

FrameInit ==
    /\ scenario \in Scenarios
    /\ pc = "pre"
    /\ status = Empty
    /\ result = <<>>
    /\ canceled = FALSE

(* The executor goes on within Execute. *)
Goto(from, to) == pc = from /\ pc' = to /\ UNCHANGED <<scenario, status, canceled>>

(* PreExecute succeeds and Execute begins. *)
DoPreExecute(to) == Goto("pre", to) /\ UNCHANGED result

(* DoExecute returns: AfterExecute follows, unless Execute failed. *)
DoExecute(from, ret, rows) ==
    /\ pc = from
    /\ status' = ret
    /\ result' = result \o rows
    /\ pc' = IF ret = OK THEN "after" ELSE "end"
    /\ UNCHANGED <<scenario, canceled>>

(* Nothing is done after Execute by most executors. *)
DoAfterExecute == Goto("after", "end") /\ UNCHANGED result

(* DumpDatas lets the executor go, and it is destroyed. *)
Destroy == Goto("end", "done") /\ UNCHANGED result

(* OnStop of the service cancels the request. *)
Cancel ==
    /\ ~canceled
    /\ pc # "done"
    /\ canceled' = TRUE
    /\ UNCHANGED <<scenario, pc, status, result>>
=============================================================================
