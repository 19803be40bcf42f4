------------------------------ MODULE CpuUsage ------------------------------
(***************************************************************************)
(* The way of "hidumper --cpuusage" through three processes: the command   *)
(* line client finds the dump ability or has it loaded on demand, the CPU  *)
(* dumper of the dump service goes through DumpManagerCpuClient to the CPU *)
(* ability, and that ability collects the figures under its mutex.         *)
(* Applications reach the ability through DumpUsage::GetCpuUsage; their    *)
(* own DumpManagerCpuClient works as the one modelled for the service.     *)
(*                                                                         *)
(* Both abilities can go away: the dump service unloads when idle, the CPU *)
(* ability may die at any moment, and death notices arrive later, one per  *)
(* registered recipient.  Instances of an ability are numbered; 0 stands   *)
(* for no instance and for a null pointer.                                 *)
(***************************************************************************)
EXTENDS Integers, Sequences, FiniteSets, Functions

CONSTANTS
    Clients,        \* runs of the hidumper command
    Apps,           \* threads of applications that call GetCpuUsage
    Pids,           \* the processes there are, natural numbers
    Asked,          \* what callers ask for: processes, or INVALID_PID for all
    TotalUsage,     \* its usage figures, compared by
    UserUsage,      \*   SortProcInfo in this order
    SysUsage,
    Polls,          \* SLEEP_DUR / SLEEP_UNIT, 50 in the code
    MaxServices,    \* bound: instances of the dump ability
    MaxAbilities    \* bound: instances of the CPU ability

ASSUME CpuAssumption ==
    /\ Clients \cap Apps = {} /\ 0 \notin Clients
    /\ Pids \subseteq Nat \ {0} /\ IsFiniteSet(Pids)
    /\ Asked \subseteq Pids \cup {-1}
    /\ {TotalUsage, UserUsage, SysUsage} \subseteq [Pids -> Int]
    /\ Polls \in Nat \ {0} /\ MaxServices \in Nat /\ MaxAbilities \in Nat

INVALID_PID == -1
None == 0
Callers == Clients \cup Apps

VARIABLES
    pc,         \* per caller: where its call is
    pid,        \* per caller: the process it asks for, or INVALID_PID
    loop,       \* per caller: polls of OnDemandStart left
    loading,    \* callers whose load request samgr has not answered
    isRemoteObject_, \* per caller: the flag of its OnDemandLoadCallback
    remote,     \* per caller: the dump service instance it holds
    service,    \* the dump service: its current instance or None
    services,   \* how many instances of it there were
    ability,    \* the CPU ability: its current instance or None
    abilities,  \* how many instances of it there were
    proxy_,     \* the client's proxy_
    watched,    \* instances with a recipient registered
    notices,    \* death notices on their way
    mutex_,     \* the caller inside Connect, or None
    found,      \* per caller: the instance CheckSystemAbility or proxy_ gave
    cpu,        \* the members of the CPU ability
    out         \* per caller: the lines or the figure it ends with

local   == <<pc, pid, out>>
loads   == <<loop, loading, isRemoteObject_, remote, service, services>>
binder  == <<ability, abilities, proxy_, watched, notices, mutex_, found>>
vars    == <<local, loads, binder, cpu>>

Inside == {"init", "dump", "copy"}

NoCpu == [owner |-> None, cpuUsagePid_ |-> INVALID_PID, curSpecProc_ |-> <<>>,
          curProcs_ |-> <<>>, dumpCPUDatas_ |-> <<>>]

Init ==
    /\ pc = [c \in Callers |-> IF c \in Clients THEN "request" ELSE "usage"]
    /\ pid \in [Callers -> Asked]
    /\ loop = [c \in Clients |-> 0]
    /\ loading = {}
    /\ isRemoteObject_ = [c \in Clients |-> FALSE]
    /\ remote = [c \in Clients |-> None]
    /\ service = None /\ services = 0
    /\ ability = None /\ abilities = 0
    /\ proxy_ = None
    /\ watched = {}
    /\ notices = {}
    /\ mutex_ = None
    /\ found = [c \in Clients |-> None]
    /\ cpu = NoCpu
    /\ out = [c \in Callers |-> <<>>]

Goto(c, from, to) == pc[c] = from /\ pc' = [pc EXCEPT ![c] = to]

\* The status that is returned decides nothing further; it is left out.
Return(c) == pc' = [pc EXCEPT ![c] = "done"]

(***************************************************************************)
(* The command line client and the on-demand load of the dump ability.     *)
(***************************************************************************)
\* DumpClientMain::Main refuses too many, missing, empty or too long arguments;
\* SetCmdArgs adds the parent's pid.
Main(c) ==
    /\ pc[c] = "request"
    /\ Return(c)
    /\ UNCHANGED <<pid, out, loads, binder, cpu>>

\* An argument of blanks is refused; with the ability at hand it is used, else
\* samgr is asked to load it, which may fail at once.
Request(c) ==
    /\ pc[c] = "request"
    /\ \/ Return(c) /\ UNCHANGED loads
       \/ /\ service # None
          /\ Goto(c, "request", "send")
          /\ remote' = [remote EXCEPT ![c] = service]
          /\ UNCHANGED <<loop, loading, isRemoteObject_, service, services>>
       \/ /\ service = None
          /\ Return(c)
          /\ UNCHANGED loads
       \/ /\ service = None
          /\ Goto(c, "request", "poll")
          /\ loading' = loading \cup {c}
          /\ loop' = [loop EXCEPT ![c] = Polls]
          /\ UNCHANGED <<isRemoteObject_, remote, service, services>>
    /\ UNCHANGED <<pid, out, binder, cpu>>

\* Fault: the loop counts only the polls that find the flag set.
OnDemandStartUncounted(c) ==
    /\ pc[c] = "poll"
    /\ IF loop[c] = 0
       THEN Return(c) /\ UNCHANGED <<loop, remote>>
       ELSE IF isRemoteObject_[c] /\ service # None
       THEN /\ Goto(c, "poll", "send")
            /\ loop' = [loop EXCEPT ![c] = 0]
            /\ remote' = [remote EXCEPT ![c] = service]
       ELSE /\ loop' = [loop EXCEPT ![c] = IF isRemoteObject_[c] THEN @ - 1 ELSE @]
            /\ UNCHANGED <<pc, remote>>
    /\ UNCHANGED <<pid, out, loading, isRemoteObject_, service, services, binder, cpu>>

\* One round of the loop: the flag of the callback is read, then samgr asked.
OnDemandStart(c) ==
    /\ pc[c] = "poll"
    /\ IF loop[c] = 0
       THEN Return(c) /\ UNCHANGED <<loop, remote>>
       ELSE IF isRemoteObject_[c] /\ service # None
       THEN /\ Goto(c, "poll", "send")
            /\ loop' = [loop EXCEPT ![c] = 0]
            /\ remote' = [remote EXCEPT ![c] = service]
       ELSE loop' = [loop EXCEPT ![c] = @ - 1] /\ UNCHANGED <<pc, remote>>
    /\ UNCHANGED <<pid, out, loading, isRemoteObject_, service, services, binder, cpu>>

\* samgr answers on a thread of its own, perhaps after the client gave up.  An
\* instance that is already there is not started again.
OnLoadSystemAbilitySuccess(c) ==
    /\ c \in loading
    /\ loading' = loading \ {c}
    /\ isRemoteObject_' = [isRemoteObject_ EXCEPT ![c] = TRUE]
    /\ IF service = None
       THEN services < MaxServices /\ service' = services + 1 /\ services' = services + 1
       ELSE UNCHANGED <<service, services>>
    /\ UNCHANGED <<local, loop, remote, binder, cpu>>

OnLoadSystemAbilityFail(c) ==
    /\ c \in loading
    /\ loading' = loading \ {c}
    /\ isRemoteObject_' = [isRemoteObject_ EXCEPT ![c] = FALSE]
    /\ UNCHANGED <<local, loop, remote, service, services, binder, cpu>>

InService(c) == pc[c] \in {"connect", "watch", "proxy", "call", "reply"} \cup Inside

\* The dump service unloads only when no request is in it.  Its process ends,
\* and the singleton's destructor runs Reset.
Unload ==
    /\ service # None
    /\ ~ \E c \in Clients : InService(c)
    /\ service' = None
    /\ proxy_' = None
    /\ watched' = {}
    /\ notices' = {}
    /\ UNCHANGED <<local, loop, loading, isRemoteObject_, remote, services,
                   ability, abilities, mutex_, found, cpu>>

\* proxy->Request: a dead object answers with an error, which Main reports as
\* "request error"; a live one runs CPUDumper::PreExecute.
SendRequest(c) ==
    /\ pc[c] = "send"
    /\ \/ remote[c] = service /\ Goto(c, "send", "connect")
       \/ remote[c] # service /\ Return(c)
    /\ remote' = [remote EXCEPT ![c] = None]
    /\ UNCHANGED <<pid, out, loop, loading, isRemoteObject_, service, services, binder, cpu>>

(***************************************************************************)
(* DumpManagerCpuClient: one proxy per process, guarded by its mutex_.     *)
(***************************************************************************)
\* A call that got no proxy, or whose call failed, leaves the output alone.
CallFails(c) == pc' = [pc EXCEPT ![c] = "reply"]

\* Connect up to CheckSystemAbility: with a proxy_ it returns at once, and
\* while the lock is held nobody else enters.
Connect(c) ==
    /\ pc[c] = "connect"
    /\ mutex_ = None
    /\ \/ /\ proxy_ # None
          /\ Goto(c, "connect", "proxy") /\ UNCHANGED <<mutex_, found>>
       \/ /\ proxy_ = None /\ ability = None
          /\ CallFails(c) /\ UNCHANGED <<mutex_, found>>
       \/ /\ proxy_ = None /\ ability # None
          /\ Goto(c, "connect", "watch")
          /\ mutex_' = c
          /\ found' = [found EXCEPT ![c] = ability]
    /\ UNCHANGED <<pid, out, loads, ability, abilities, proxy_, watched, notices, cpu>>

\* Fault: the proxy is kept although no recipient could be registered.
AddDeathRecipientUnchecked(c) ==
    /\ pc[c] = "watch"
    /\ mutex_' = None
    /\ watched' = IF found[c] = ability THEN watched \cup {found[c]} ELSE watched
    /\ proxy_' = found[c]
    /\ Goto(c, "watch", "proxy")
    /\ UNCHANGED <<pid, out, loads, ability, abilities, notices, found, cpu>>

\* The rest of Connect: AddDeathRecipient fails on an object that died since;
\* otherwise the recipient is registered and proxy_ set under the same lock.
AddDeathRecipient(c) ==
    /\ pc[c] = "watch"
    /\ mutex_' = None
    /\ \/ /\ found[c] = ability
          /\ watched' = watched \cup {ability}
          /\ proxy_' = ability
          /\ Goto(c, "watch", "proxy")
       \/ CallFails(c) /\ UNCHANGED <<watched, proxy_>>
    /\ found' = [found EXCEPT ![c] = None]
    /\ UNCHANGED <<pid, out, loads, ability, abilities, notices, cpu>>

\* GetProxy takes the lock again: proxy_ may be null by now, or a newer one.
GetProxy(c) ==
    /\ pc[c] = "proxy"
    /\ mutex_ = None
    /\ found' = [found EXCEPT ![c] = proxy_]
    /\ IF proxy_ = None THEN CallFails(c) ELSE Goto(c, "proxy", "call")
    /\ UNCHANGED <<pid, out, loads, ability, abilities, proxy_, watched, notices,
                   mutex_, cpu>>

\* The call over the proxy reaches the instance it stands for, or fails.
CallAbility(c) ==
    /\ pc[c] = "call"
    /\ \/ found[c] = ability /\ Goto(c, "call", "init")
       \/ found[c] # ability /\ CallFails(c)
    /\ found' = [found EXCEPT ![c] = None]
    /\ UNCHANGED <<pid, out, loads, ability, abilities, proxy_, watched, notices, mutex_, cpu>>

\* Fault: the recipient does not ask whose death it was told of.
ResetProxyAny(i) == proxy_ # None

\* ResetProxy: only the death of the object behind proxy_ drops proxy_.
ResetProxy(i) == proxy_ # None /\ proxy_ = i

\* A death notice reaches the process; the recipient is removed with the proxy.
OnRemoteDied(i) ==
    /\ i \in notices
    /\ mutex_ = None
    /\ notices' = notices \ {i}
    /\ IF ResetProxy(i)
       THEN /\ proxy_' = None
            /\ watched' = watched \ {proxy_}
       ELSE UNCHANGED <<proxy_, watched>>
    /\ UNCHANGED <<local, loads, ability, abilities, mutex_, found, cpu>>

\* Reset, which the owner of the singleton may call at any time: a notice that
\* is on its way already still arrives.
Reset ==
    /\ mutex_ = None
    /\ proxy_ # None
    /\ watched' = watched \ {proxy_}
    /\ proxy_' = None
    /\ UNCHANGED <<local, loads, ability, abilities, notices, mutex_, found, cpu>>

(***************************************************************************)
(* The CPU ability.                                                        *)
(***************************************************************************)
\* StartService registers the ability with samgr and runs OnStart.
StartService ==
    /\ ability = None
    /\ abilities < MaxAbilities
    /\ abilities' = abilities + 1
    /\ ability' = abilities + 1
    /\ cpu' = NoCpu
    /\ UNCHANGED <<local, loads, proxy_, watched, notices, mutex_, found>>

\* The instance dies: calls inside it end with an error and one notice per
\* recipient sets out.
AbilityDies ==
    /\ ability # None
    /\ ability' = None
    /\ cpu' = NoCpu
    /\ notices' = notices \cup (watched \cap {ability})
    /\ watched' = watched \ {ability}
    /\ pc' = [c \in Callers |-> IF pc[c] \in Inside THEN "reply" ELSE pc[c]]
    /\ UNCHANGED <<pid, out, loads, abilities, proxy_, mutex_, found>>

\* DumpManagerCpuService::InitParam, under the lock that Request holds to its
\* end.  The lines the caller brought are copied; CPUDumper brings none.
InitParam(c) ==
    /\ cpu.owner = None
    /\ Goto(c, "init", "dump")
    /\ cpu' = [cpu EXCEPT !.owner = c, !.cpuUsagePid_ = pid[c],
                          !.curSpecProc_ = IF pid[c] # INVALID_PID THEN <<>> ELSE @,
                          !.dumpCPUDatas_ = out[c]]
    /\ UNCHANGED <<pid, out, loads, binder>>

\* A caller without the permission is refused with the members as they are.
HasDumpPermission(c) ==
    /\ pc[c] = "dump" /\ CallFails(c)
    /\ cpu' = [cpu EXCEPT !.owner = None]
    /\ UNCHANGED <<pid, out, loads, binder>>

\* One row for the single process.
GetSingleProcInfo(members) == {[members EXCEPT !.curSpecProc_ = <<members.cpuUsagePid_>>]}

Orders == Bijection(1 .. Cardinality(Pids), Pids)

\* A row per process, in any order, behind what curProcs_ holds.
GetAllProcInfo(members) == {[members EXCEPT !.curProcs_ = @ \o order] : order \in Orders}

\* SortProcInfo: total, user and system usage, then the longer and the larger
\* pid string, all descending; for positive numbers that is the larger pid.
SortProcInfo(l, r) ==
    \/ TotalUsage[r] < TotalUsage[l]
    \/ /\ TotalUsage[r] = TotalUsage[l]
       /\ \/ UserUsage[r] < UserUsage[l]
          \/ /\ UserUsage[r] = UserUsage[l]
             /\ \/ SysUsage[r] < SysUsage[l]
                \/ SysUsage[r] = SysUsage[l] /\ r < l

\* std::sort: the same rows, none of them behind one it comes before.
Sorted(rows) ==
    {s \in {[i \in DOMAIN rows |-> rows[p[i]]] : p \in Bijection(DOMAIN rows, DOMAIN rows)} :
        \A i, j \in DOMAIN rows : i < j => ~SortProcInfo(s[j], s[i])}

\* A named process gives its row; else the processes follow in sorted order.
DumpProcInfo(members) ==
    {<<"title", "columns">> \o rows :
        rows \in IF members.cpuUsagePid_ # INVALID_PID THEN {members.curSpecProc_}
                 ELSE Sorted(members.curProcs_)}

\* ReadLoadAvgInfo, the time and the CPU line come before the processes.
WithLines(members) ==
    {[members EXCEPT !.dumpCPUDatas_ = @ \o <<"load", "time", "stat">> \o lines] :
        lines \in DumpProcInfo(members)}

\* The system's figures, the processes and the load average are collected in
\* turn.  Each may fail; what the members hold by then is still handed back.
DumpCpuUsageData(c) ==
    LET read == IF cpu.cpuUsagePid_ # INVALID_PID THEN GetSingleProcInfo(cpu) ELSE GetAllProcInfo(cpu)
    IN  /\ Goto(c, "dump", "copy")
        /\ \/ UNCHANGED cpu
           \/ \E members \in read : cpu' = members
           \/ \E members \in read : cpu' \in WithLines(members)
        /\ UNCHANGED <<pid, out, loads, binder>>

\* Fault: the rows of a dump of all processes stay in curProcs_.
ResetParamSpecOnly(c) ==
    [cpu EXCEPT !.curSpecProc_ = IF cpu.cpuUsagePid_ # INVALID_PID THEN <<>> ELSE @]

ResetParam(c) ==
    [cpu EXCEPT !.curProcs_ = <<>>,
                !.curSpecProc_ = IF cpu.cpuUsagePid_ # INVALID_PID THEN <<>> ELSE @]

\* The end of Request: the lines are handed back whatever DumpCpuUsageData
\* returned, then ResetParam runs and the lock is given up.
CopyDatas(c) ==
    /\ Goto(c, "copy", "reply")
    /\ out' = [out EXCEPT ![c] = cpu.dumpCPUDatas_]
    /\ cpu' = [ResetParam(c) EXCEPT !.owner = None]
    /\ UNCHANGED <<pid, loads, binder>>

\* GetCpuUsageByPid, called through DumpUsage::GetCpuUsage.  An application that
\* asks for another process is refused before the lock; the collector may fail;
\* the ability may be gone: each leaves the figure alone, as does INVALID_PID.
GetCpuUsageByPid(a) ==
    /\ pc[a] = "usage"
    /\ \/ UNCHANGED out
       \/ /\ ability # None /\ cpu.owner = None /\ pid[a] # INVALID_PID
          /\ out' = [out EXCEPT ![a] = <<pid[a]>>]
    /\ pc' = [pc EXCEPT ![a] = "done"]
    /\ UNCHANGED <<pid, loads, binder, cpu>>

\* CPUDumper::Execute passes on what it has and reports success, whatever the
\* client returned.
Reply(c) ==
    /\ pc[c] = "reply"
    /\ Return(c)
    /\ UNCHANGED <<pid, out, loads, binder, cpu>>

Step(c) ==
    \/ Main(c) \/ Request(c) \/ OnDemandStart(c) \/ SendRequest(c)
    \/ Connect(c) \/ AddDeathRecipient(c) \/ GetProxy(c) \/ CallAbility(c) \/ Reply(c)
    \/ InitParam(c) \/ HasDumpPermission(c) \/ DumpCpuUsageData(c) \/ CopyDatas(c)

Done == (\A c \in Callers : pc[c] = "done") /\ UNCHANGED vars

Next ==
    \/ \E c \in Clients : Step(c)
    \/ \E a \in Apps : GetCpuUsageByPid(a)
    \/ \E c \in Clients : OnLoadSystemAbilitySuccess(c) \/ OnLoadSystemAbilityFail(c)
    \/ \E i \in notices : OnRemoteDied(i)
    \/ Reset \/ Unload \/ StartService \/ AbilityDies \/ Done

Spec == Init /\ [][Next]_vars

\* Threads that can run do, locks are granted, and notices arrive.  Nothing is
\* assumed of samgr: a load request may stay without an answer.
Fairness ==
    /\ \A c \in Clients : SF_vars(Step(c))
    /\ \A a \in Apps : WF_vars(GetCpuUsageByPid(a))
    /\ \A i \in 1 .. MaxAbilities : SF_vars(OnRemoteDied(i))

LiveSpec == Spec /\ Fairness

(***************************************************************************)
(* Properties.                                                             *)
(***************************************************************************)

\* A proxy_ that DumpManagerCpuClient keeps is never silently stale: the object
\* behind it lives and is watched, or the notice of its death is on its way.
\* Connect registers the recipient before it sets proxy_, and gives up when
\* the registration fails.
StaleProxyNoticed ==
    proxy_ # None =>
        \/ proxy_ = ability /\ ability \in watched
        \/ proxy_ \in notices

\* A notice that is handled late never takes away the proxy of an instance
\* that lives: ResetProxy compares the object of the notice with proxy_, since
\* a Reset and a new Connect may have replaced it meanwhile.
LiveProxyKept ==
    [][\A i \in notices :
           OnRemoteDied(i) /\ proxy_ = ability => proxy_' = proxy_]_vars

RowsOf(lines) == SubSeq(lines, 6, Len(lines))
InOrder(rows) == \A i, j \in DOMAIN rows : i < j => SortProcInfo(rows[i], rows[j])

\* What a caller gets is its own: no lines, or the five header lines and the
\* row of the process it named, or every process once in the order of
\* SortProcInfo -- whatever requests, refusals and deaths came in between.
RepliesOwn ==
    \A c \in Callers :
        /\ c \in Apps => out[c] \in {<<>>, <<pid[c]>>}
        /\ c \in Clients /\ out[c] # <<>> =>
               IF pid[c] # INVALID_PID THEN RowsOf(out[c]) = <<pid[c]>>
               ELSE /\ Range(RowsOf(out[c])) = Pids
                    /\ InOrder(RowsOf(out[c]))

\* Every run of the command and every GetCpuUsage ends, also when samgr never
\* answers the load request: OnDemandStart gives up after its last poll, and
\* no lock of the client or the ability is kept by a call that ended.
CallersReturn == \A c \in Callers : <>(pc[c] = "done")
=============================================================================
