---------------------------- MODULE MCExecutors -----------------------------
(***************************************************************************)
(* Model checking of Executors.                                            *)
(*                                                                         *)
(* The event store has kills by a crash, by a freeze and by the user, two  *)
(* at the same time and one without a reason, and the faults of two runs   *)
(* beside one of a run no kill names.  Process 1 has two descriptors of a  *)
(* sandbox directory, two pipes and a log; process 2 has as many; top      *)
(* lists have two entries, so that some are left out.                      *)
(***************************************************************************)
EXTENDS Executors, TLC

Kill(id, time, process, killId, run) ==
    [id |-> id, time |-> time, domain |-> "FRAMEWORK", name |-> "PROCESS_KILL",
     process |-> process, killId |-> killId, running |-> run, logPath |-> Missing]

FaultEvent(id, time, domain, name, run, path) ==
    [id |-> id, time |-> time, domain |-> domain, name |-> name, process |-> "app.one",
     killId |-> Missing, running |-> run, logPath |-> path]

Crash == Kill("k1", 2, "app.one", "crash", "run1")
Freeze == Kill("k2", 3, "app.two", "freeze", "run2")
ByUser == Kill("k3", 3, "app.one", "user", "run3")
Odd == Kill("k4", 4, "app.one", "odd", "run4")
Nameless == Kill("k5", 4, Missing, "crash", "run5")

CrashLog == FaultEvent("f1", 2, "RELIABILITY", "CPP_CRASH", "run1", "log1")
FreezeLog == FaultEvent("f2", 3, "RELIABILITY", "APP_FREEZE", "run2", "log2")
OtherLog == FaultEvent("f3", 4, "RELIABILITY", "CPP_CRASH", "run9", "log3")
Unlogged == FaultEvent("f4", 1, "RELIABILITY", "SYS_FREEZE", "run2", Missing)

EventOpts(kind, store, count, process, start, end, id) ==
    [kind |-> kind, store |-> store, count |-> count, processName_ |-> process,
     startTime_ |-> start, endTime_ |-> end, eventId_ |-> id,
     expired |-> {"log2"}, lines |-> 2]

Kills == {Crash, Freeze, ByUser, Odd}
Faults == {CrashLog, FreezeLog, OtherLog}

EventScenarios ==
    {EventOpts("list", Kills, c, p, 0, 0, "") : c \in {-1, 1, 2}, p \in {"", "one"}}
    \cup {EventOpts("list", {Crash, ByUser, Odd, Nameless}, 1, "", 3, 3, "")}
    \cup {EventOpts("detail", {Crash, Freeze, ByUser} \cup Faults, c, "", 0, 0, "") : c \in {-1, 1}}
    \cup {EventOpts("detail", {Crash, Freeze, Unlogged, CrashLog}, -1, "one", 2, 3, i) : i \in {"", "k2"}}
    \cup {EventOpts("detail", {Odd, ByUser, Nameless, CrashLog}, -1, "", 0, 0, "")}
    \cup {EventOpts("detail", {Freeze, Unlogged}, -1, "two", 0, 0, "k")}

MCNamesWith == [one |-> {"app.one"}, two |-> {"app.two"}]
MCIdsWith == [k |-> {"k1", "k2", "k3", "k4", "k5"}, k2 |-> {"k2"}]
MCKillReason == [crash |-> "CppCrash", freeze |-> "LIFECYCLE_TIMEOUT", user |-> "UserKill", odd |-> "Unknown"]
MCAppExitReason == [crash |-> "CppCrash", freeze |-> "Freeze", user |-> "UserKill", odd |-> "InvalidKillId"]

Box(n) == <<"/data/storage/el", "1", "cache", n>>
BoxTmp == <<"/data/storage/el", "1", "cache", "2", "tmp">>
BoxDir == <<"/data/storage/el", "1", "cache">>
Log == <<"/data", "log">>
Log2 == <<"/data", "log", "2">>
Pipe == <<"pipe", "1">>

MCPathOrder == << <<"">>, <<"main">>, <<"worker">>, Log, Log2, <<"/data/storage/el">>, BoxDir, Box("1"), Box("2"),
                  BoxTmp, <<"pipe">>, <<"unknown">> >>

OneProcess ==
    (1 :> [fd |-> <<Box("1"), Box("2"), Pipe, Pipe, Log>>,
           task |-> <<(<<"main">>), (<<"worker">>), (<<"worker">>)>>])

FdOpts(kind, fd, all, permitted) ==
    [kind |-> kind, pid |-> 1, proc |-> OneProcess, paths |-> {Pipe, Log, Log2, BoxTmp}, isDumpFd_ |-> fd,
     all |-> all, permitted |-> permitted, requestType |-> "fd"]

TwoProcesses ==
    1 :> [fd |-> <<Log2, Log2, Pipe>>, task |-> <<(<<"main">>)>>]
    @@ 2 :> [fd |-> <<Log, Box("1"), Box("2")>>, task |-> <<(<<"main">>), (<<"worker">>)>>]
    @@ 3 :> [fd |-> <<Log, Log2>>, task |-> <<>>]

ScanOpts(kind, type, limit, orphanLimit) ==
    [kind |-> kind, pid |-> 1, proc |-> TwoProcesses, paths |-> {Log}, requestType |-> type,
     limit |-> limit, orphanLimit |-> orphanLimit, permitted |-> TRUE, existing |-> {Box("1")}]

ScanScenarios ==
    {FdOpts("fdthread", fd, all, TRUE) : fd, all \in BOOLEAN}
    \cup {FdOpts("countfd", TRUE, FALSE, p) : p \in BOOLEAN}
    \cup {ScanOpts("overlimit", t, l, 0) : t \in {"fd", "task", ".."}, l \in {0, 2, 3}}
    \cup {ScanOpts("orphans", "fd", l, o) : l \in {2, 3}, o \in {-1, 0, 2}}

RemoteScenarios ==
    {[kind |-> "ipc", all |-> a, action |-> x, outputFd |-> o] :
        a \in BOOLEAN, x \in {"--start-stat", "--stop-stat", "--stat", ""}, o \in {"caller", "none"}}
    \cup {[kind |-> "sa", names |-> n, args |-> a, zip |-> z, logFile |-> f] :
        n \in {<<>>, <<"a">>, <<"b", "a">>}, a \in {<<>>, <<"-x">>}, z \in BOOLEAN, f \in {"file", "none"}}
    \cup {[kind |-> "names", target |-> t] : t \in {"ability", "system"}}
    \cup {[kind |-> "net", all |-> a, bytes |-> "7"] : a \in BOOLEAN}

(* Every executor has the fields of the processes; those that read none have
   no process. *)
MCScenarios ==
    ScanScenarios \cup {[proc |-> <<>>] @@ s : s \in EventScenarios \cup RemoteScenarios}

MCAbilities == <<"samgr", "appmgr", "hdf", "a", "b">>
MCClusters == <<"c1", "c2", "c3", "c4">>
=============================================================================
