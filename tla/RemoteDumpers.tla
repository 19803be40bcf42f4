---------------------------- MODULE RemoteDumpers ---------------------------
(***************************************************************************)
(* The dumps that ask other services: IPCStatDumper has the manager of a   *)
(* process (or all three managers) start, stop or print IPC statistics,    *)
(* SADumper has system abilities write to the output, ListDumper lists the *)
(* abilities or the clusters of the configuration, TrafficDumper prints    *)
(* network counters.  Abilities and processes come and go meanwhile.       *)
(***************************************************************************)
EXTENDS Executor, FiniteSetsExt

CONSTANTS
    Abilities,      \* system abilities, the three managers included, a sequence
    Clusters,       \* GetSectionNames of the system group, a sequence
    ITEM_SUM_LINE,  \* names on a line of a list
    MaxMoves        \* bound on the abilities and processes that come or go

Managers == <<"samgr", "appmgr", "hdf">>

ASSUME RemoteAssumption ==
    /\ Abilities \in Seq(Range(Abilities)) /\ Range(Managers) \subseteq Range(Abilities)
    /\ "null" \notin Range(Abilities)
    /\ \A s \in Scenarios : s.kind = "sa" => s.names \in Seq(Range(s.names))
    /\ ITEM_SUM_LINE \in Nat \ {0} /\ MaxMoves \in Nat

VARIABLES
    up,         \* abilities that run
    owner,      \* the manager that lists the process of the request, or "none"
    moves,      \* abilities and processes that came or went
    sa,         \* the remote object found, or "null"
    cmd,        \* ipcDumpCmd_ and args_: the arguments of the calls
    names,      \* names still to go through
    output,     \* what was written to the output descriptor
    outputFd,   \* "none", "caller" (the caller's descriptor), "file" (log.txt), "closed"
    owners,     \* managers that listed the process since Execute began (history)
    asked       \* the names Execute went through (history)

remote == <<up, owner, moves, sa, cmd, names, output, outputFd, owners, asked>>

Remote == {"ipc", "sa", "names", "net"}

RemoteInit ==
    /\ up \in IF scenario.kind \in Remote THEN {Range(Abilities)} ELSE {{}}
    /\ owner \in IF scenario.kind \in {"ipc", "net"} THEN Range(Managers) \cup {"none"} ELSE {"none"}
    /\ moves = 0
    /\ sa = "null" /\ cmd = <<>> /\ names = <<>> /\ output = <<>>
    /\ outputFd = "none"
    /\ owners = {owner}
    /\ asked = <<>>

(* An ability goes or comes back; the process goes, or its pid is taken by a
   process of another manager. *)
Move ==
    /\ moves < MaxMoves
    /\ scenario.kind \in Remote /\ pc \notin {"pre", "after", "end", "done"}
    /\ moves' = moves + 1
    /\ \/ \E a \in Range(Abilities) :
            /\ up' = IF a \in up THEN up \ {a} ELSE up \cup {a}
            /\ UNCHANGED <<owner, owners>>
       \/ /\ scenario.kind = "ipc"
          /\ owner' \in (Range(Managers) \cup {"none"}) \ {owner}
          /\ owners' = owners \cup {owner'}
          /\ UNCHANGED up
    /\ UNCHANGED <<sa, cmd, names, output, outputFd, asked, frame>>

CheckSystemAbility(id) == IF id \in up THEN id ELSE "null"

(* The abilities that run, in the order of the registry. *)
ListSystemAbilities ==
    LET at == {i \in DOMAIN Abilities : Abilities[i] \in up}
    IN [n \in 1..Cardinality(at) |->
           Abilities[CHOOSE i \in at : Cardinality({j \in at : j <= i}) = n]]

(* A call of Dump on a remote object: an ability that is gone by then writes
   nothing, and the error is only logged. *)
Dumped(to, args) == IF to \in up THEN << <<"dump", to, args>> >> ELSE <<>>

(* GetSystemAbilityManager finds no registry. *)
NoSamgr ==
    /\ scenario.kind \in {"ipc", "sa"} /\ pc \in {"start_ipc", "start_sa"}
    /\ DoExecute(pc, FAIL, <<>>)
    /\ UNCHANGED remote

-----------------------------------------------------------------------------
(* IPCStatDumper. *)

IpcPreExecute ==
    /\ scenario.kind = "ipc"
    /\ DoPreExecute("start_ipc")
    /\ outputFd' = scenario.outputFd
    /\ UNCHANGED <<up, owner, moves, sa, cmd, names, output, owners, asked>>

(* SetIpcStatCmd begins. *)
SetIpcStatCmd ==
    /\ pc = "start_ipc"
    /\ Goto("start_ipc", IF scenario.all THEN "action" ELSE "check")
    /\ cmd' = <<"--ipc">> \o IF scenario.all THEN <<"all">> ELSE <<>>
    /\ names' = Managers
    /\ UNCHANGED <<result, up, owner, moves, sa, output, outputFd, owners, asked>>

(* Fault: the object of the registry is taken, whoever lists the process. *)
CheckedByRegistry(manager) == CheckSystemAbility("samgr")

Checked(manager) == CheckSystemAbility(manager)

(* The registry names a process, the others have its pid. *)
ProcessArg(manager) == IF manager = "samgr" THEN "process_name" ELSE "pid"

(* CheckPidIsSa, CheckPidIsApp, CheckPidIsDriver, in turn: a manager that
   lists the process is found; one that does not, or fails to answer, hands
   over to the next. *)
CheckPid ==
    /\ names # <<>>
    /\ \/ /\ owner = Head(names)
          /\ Goto("check", "action")
          /\ cmd' = Append(cmd, ProcessArg(Head(names)))
          /\ sa' = Checked(Head(names))
          /\ UNCHANGED names
       \/ /\ Goto("check", "check")
          /\ names' = Tail(names)
          /\ UNCHANGED <<cmd, sa>>
    /\ UNCHANGED <<result, up, owner, moves, output, outputFd, owners, asked>>

(* SendErrorMessage, when there is a descriptor to write to. *)
SendErrorMessage(text) ==
    output' = IF outputFd = "caller" THEN Append(output, <<"error", text>>) ELSE output

NoManager ==
    /\ names = <<>>
    /\ DoExecute("check", FAIL, <<>>)
    /\ SendErrorMessage("pid_is_not_support_ipc_statistic")
    /\ UNCHANGED <<up, owner, moves, sa, cmd, names, outputFd, owners, asked>>

IpcAction ==
    \/ /\ pc = "action" /\ scenario.action # Empty
       /\ Goto("action", "ask") /\ UNCHANGED result
       /\ cmd' = Append(cmd, scenario.action)
       /\ names' = IF scenario.all THEN Managers ELSE <<sa>>
       /\ UNCHANGED <<up, owner, moves, sa, output, outputFd, owners, asked>>
    \/ /\ pc = "action" /\ scenario.action = Empty
       /\ DoExecute("action", FAIL, <<>>)
       /\ SendErrorMessage("input_ARG_is_not_valid")
       /\ UNCHANGED <<up, owner, moves, sa, cmd, names, outputFd, owners, asked>>

(* DoDumpIpcStat of the next manager, found again when all of them are asked. *)
DoDumpIpcStat ==
    /\ pc = "ask" /\ names # <<>>
    /\ LET object == IF scenario.all THEN CheckSystemAbility(Head(names)) ELSE Head(names)
       IN \/ /\ object # "null" /\ outputFd = "caller"
             /\ Goto("ask", "ask") /\ UNCHANGED result
             /\ output' = output \o Dumped(object, cmd)
             /\ names' = Tail(names)
             /\ asked' = Append(asked, object)
          \/ /\ object = "null" \/ outputFd # "caller"
             /\ DoExecute("ask", FAIL, <<>>)
             /\ UNCHANGED <<output, names, asked>>
    /\ UNCHANGED <<up, owner, moves, sa, cmd, outputFd, owners>>

DumpIpcStatReturns == names = <<>> /\ DoExecute("ask", OK, <<>>) /\ UNCHANGED remote

-----------------------------------------------------------------------------
(* SADumper. *)

(* Fault: the arguments are passed to every ability. *)
ArgsOfEach == scenario.args

(* Arguments are for a single ability. *)
ArgsOfOne == IF Len(scenario.names) = 1 THEN scenario.args ELSE <<>>

SaPreExecute ==
    /\ scenario.kind = "sa"
    /\ DoPreExecute("start_sa")
    /\ outputFd' = IF scenario.zip THEN scenario.logFile ELSE "caller"
    /\ names' = scenario.names
    /\ cmd' = ArgsOfOne
    /\ UNCHANGED <<up, owner, moves, sa, output, owners, asked>>

SaExecute ==
    /\ Goto("start_sa", "abilities") /\ UNCHANGED result
    /\ names' = IF names = <<>> THEN ListSystemAbilities ELSE names
    /\ asked' = names'
    /\ UNCHANGED <<up, owner, moves, sa, cmd, output, outputFd, owners>>

(* GetData finds the ability and writes the heading of its section. *)
GetDataHeading ==
    /\ names # <<>>
    /\ LET found == CheckSystemAbility(Head(names))
       IN \/ /\ found # "null"
             /\ Goto("abilities", "dump")
             /\ sa' = found
             /\ output' = IF outputFd = "none" THEN output ELSE Append(output, <<"heading", Head(names)>>)
             /\ UNCHANGED names
          \/ /\ found = "null"
             /\ Goto("abilities", "abilities")
             /\ names' = Tail(names)
             /\ UNCHANGED <<sa, output>>
    /\ UNCHANGED <<result, up, owner, moves, cmd, outputFd, owners, asked>>

(* The ability writes its section; a failure is only logged. *)
GetDataDump ==
    /\ Goto("dump", "abilities") /\ UNCHANGED result
    /\ output' = IF outputFd = "none" THEN output ELSE output \o Dumped(sa, cmd)
    /\ names' = Tail(names)
    /\ UNCHANGED <<up, owner, moves, sa, cmd, outputFd, owners, asked>>

SaExecuteReturns == names = <<>> /\ DoExecute("abilities", OK, <<>>) /\ UNCHANGED remote

(* The destructor closes log.txt. *)
SaDestroy ==
    /\ scenario.kind = "sa"
    /\ Destroy
    /\ outputFd' = IF scenario.zip /\ outputFd = "file" THEN "closed" ELSE outputFd
    /\ UNCHANGED <<up, owner, moves, sa, cmd, names, output, owners, asked>>

-----------------------------------------------------------------------------
(* ListDumper and TrafficDumper. *)

ListPreExecute == scenario.kind = "names" /\ DoPreExecute("names") /\ UNCHANGED remote

(* Names in lines of ITEM_SUM_LINE; the last may be shorter. *)
Lines(list) ==
    [i \in 1..((Len(list) + ITEM_SUM_LINE - 1) \div ITEM_SUM_LINE) |->
        SubSeq(list, (i - 1) * ITEM_SUM_LINE + 1, Min({i * ITEM_SUM_LINE, Len(list)}))]

(* No registry: no list, and no error. *)
ListExecute ==
    /\ scenario.kind = "names"
    /\ \/ /\ scenario.target = "ability"
          /\ DoExecute("names", OK,
                 << <<"System_ability_list">> >> \o Lines(ListSystemAbilities) \o << <<>> >>)
       \/ /\ scenario.target = "ability"
          /\ DoExecute("names", OK, <<>>)
       \/ /\ scenario.target = "system"
          /\ DoExecute("names", OK, << <<"System_cluster_list">> >> \o Lines(Clusters) \o << <<>> >>)
    /\ UNCHANGED remote

NetPreExecute == scenario.kind = "net" /\ DoPreExecute("net") /\ UNCHANGED remote

(* A counter that cannot be read is printed as 0 and the dump is reported as
   done; a process that is gone is a failure. *)
NetExecute ==
    /\ scenario.kind = "net"
    /\ \/ /\ scenario.all \/ owner # "none"
          /\ \E received, sent \in {"0", scenario.bytes} :
               DoExecute("net", OK, << <<"Received_Bytes", received>>, <<"Sent_Bytes", sent>> >>)
       \/ /\ ~scenario.all /\ owner = "none"
          /\ DoExecute("net", FAIL, <<>>)
    /\ UNCHANGED remote

RemoteAfterExecute == DoAfterExecute /\ UNCHANGED remote
RemoteDestroy == scenario.kind # "sa" /\ Destroy /\ UNCHANGED remote

RemoteStep ==
    \/ NoSamgr \/ IpcPreExecute \/ SetIpcStatCmd \/ CheckPid \/ NoManager \/ IpcAction
    \/ DoDumpIpcStat \/ DumpIpcStatReturns
    \/ SaPreExecute \/ SaExecute \/ GetDataHeading \/ GetDataDump \/ SaExecuteReturns \/ SaDestroy
    \/ ListPreExecute \/ ListExecute \/ NetPreExecute \/ NetExecute
    \/ RemoteAfterExecute \/ RemoteDestroy

-----------------------------------------------------------------------------
(* Properties. *)

(* IPC statistics are asked of a manager that listed the process during the
   request, with the argument that manager knows it by, or of the three
   managers in turn; the dump is reported as done only when every one of
   them was asked, and an error is written only by a dump that failed and asked
   nobody.  Not every failure writes one: no registry, a manager that is gone
   and a missing descriptor are only logged. *)
AskedOfOwner ==
    scenario.kind = "ipc" =>
        /\ \A i \in DOMAIN asked :
             IF scenario.all
             THEN asked[i] = Managers[i] /\ cmd = <<"--ipc", "all", scenario.action>>
             ELSE asked[i] \in owners /\ cmd = <<"--ipc", ProcessArg(asked[i]), scenario.action>>
        /\ status = OK => Len(asked) = IF scenario.all THEN Len(Managers) ELSE 1
        /\ \A i \in DOMAIN output : output[i][1] = "error" => status = FAIL /\ asked = <<>>

Headings == {i \in DOMAIN output : output[i][1] = "heading"}

(* The output of an ability dump has at most one section for every name that
   was gone through, in the order of the names, and one for every ability that
   runs when none comes or goes; under the heading of an ability is at most
   what that ability wrote, which got arguments only when it was the only one
   asked for; and the log file of the dump is closed in the end. *)
SectionsOwn ==
    scenario.kind = "sa" =>
        /\ \A i \in DOMAIN output : output[i][1] = "dump" =>
             /\ i > 1 /\ output[i - 1] = <<"heading", output[i][2]>>
             /\ output[i][3] # <<>> => scenario.names = <<output[i][2]>>
        /\ \E of \in [Headings -> DOMAIN asked] :
             /\ \A i \in Headings : output[i] = <<"heading", asked[of[i]]>>
             /\ \A i, j \in Headings : i < j => of[i] < of[j]
             /\ moves = 0 /\ status = OK /\ outputFd # "none" =>
                  \A k \in DOMAIN asked : asked[k] \in up => \E i \in Headings : of[i] = k
        /\ pc = "done" => outputFd # "file"
=============================================================================
