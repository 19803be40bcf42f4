---------------------------- MODULE ProcessScans ----------------------------
(***************************************************************************)
(* The dumps that walk /proc while the processes they look at go on:       *)
(* FdThreadDumper (descriptors and threads of one process), and the        *)
(* service's calls CountFdNums, ScanPidOverLimit and                       *)
(* ScanOrphanVnodeOverLimit.  A directory is listed in one step; every     *)
(* entry of it is read in a step of its own, and may have gone or changed  *)
(* by then.                                                                *)
(*                                                                         *)
(* The path a descriptor points to is a sequence of parts, each of them a  *)
(* word or a number (a member of Numbers).                                 *)
(***************************************************************************)
EXTENDS Executor, Lists

CONSTANTS
    Numbers,                    \* parts of a path that are digits
    PathOrder,                  \* paths and their types in alphabetical order
    FD_TOP_CNT,                 \* entries of a top list
    NEED_DUMP_FDLINK_NUMS,      \* uses that make a link a leak
    ORPHAN_FD_TOP_CNT,          \* processes ScanOrphanVnodeOverLimit reports
    ORPHAN_FDLINKPATH_TOP_CNT,  \* links it reports of a process
    MaxChanges                  \* bound on the changes of the processes

ASSUME TopsAssumption ==
    /\ {FD_TOP_CNT, ORPHAN_FD_TOP_CNT, ORPHAN_FDLINKPATH_TOP_CNT} \subseteq Nat \ {0}
    /\ NEED_DUMP_FDLINK_NUMS \in Nat /\ MaxChanges \in Nat

VARIABLES
    proc,       \* /proc: per running process, its descriptors and its threads
    changes,    \* changes the processes made
    pids,       \* pids of GetAllPids still to look at
    nodes,      \* entries of the directory of the process still to read
    links,      \* what was read of its entries
    fdNums,     \* entries of the directory
    found,      \* processes found by a scan
    had         \* what the listed descriptors, threads and processes were since (history)

scan == <<proc, changes, pids, nodes, links, fdNums, found, had>>

Unknown == <<"unknown">>

ScanInit ==
    /\ proc = scenario.proc
    /\ changes = 0
    /\ pids = <<>> /\ nodes = <<>> /\ links = <<>>
    /\ fdNums = 0
    /\ found = <<>>
    /\ had = [fd |-> <<>>, task |-> <<>>, num |-> <<>>]

-----------------------------------------------------------------------------
(* Counting. *)

KnownTypes == <<"ashmem", "dmabuf", "eventfd", "eventpoll", "pipe", "socket", "sync_file">>

MaybeKnownType(link) ==
    LET in == SelectSeq(KnownTypes, LAMBDA t : t \in Range(link))
    IN IF in = <<>> THEN Unknown ELSE <<Head(in)>>

KeyOf(link) == IF MaybeKnownType(link) # Unknown THEN MaybeKnownType(link) ELSE link

Count(s) == [x \in Range(s) |-> Cardinality({i \in DOMAIN s : s[i] = x})]

CountPaths(ls) == Count([i \in DOMAIN ls |-> KeyOf(ls[i])])

STORAGE_PATH_PREFIX == "/data/storage/el"

FindNonSandBoxPathIndex(path) ==
    LET at == {i \in DOMAIN path : path[i] \in Numbers}
    IN IF at = {} THEN Len(path) ELSE Min(at) - 1

(* Parts before the first number; the number of a sandbox does not count. *)
FindFdClusterStartIndex(path) ==
    IF ~(Len(path) > 1 /\ path[1] = STORAGE_PATH_PREFIX /\ path[2] \in Numbers)
    THEN FindNonSandBoxPathIndex(path)
    ELSE LET at == {i \in 3..Len(path) : path[i] \in Numbers}
         IN IF at = {} THEN Len(path) ELSE Min(at) - 1

TypeOf(path) == SubSeq(path, 1, FindFdClusterStartIndex(path))

TypePaths(counts) ==
    [type \in {TypeOf(p) : p \in {q \in DOMAIN counts : TypeOf(q) # q}} |->
        [p \in {q \in DOMAIN counts : TypeOf(q) = type /\ q # type} |-> counts[p]]]

Total(counts) == MapThenSumSet(LAMBDA p : counts[p], DOMAIN counts)

TypeTotal(typePaths) == [type \in DOMAIN typePaths |-> Total(typePaths[type])]

PlaceOf(path) == CHOOSE i \in DOMAIN PathOrder : PathOrder[i] = path

(* Fault: a full heap gives up an entry to every later one. *)
PushAlways(heap, kv, counter, n) ==
    IF Cardinality(heap) < n THEN {heap \cup {kv}} ELSE {(heap \ {t}) \cup {kv} : t \in heap}

(* One entry goes through the heap: a full heap gives up one of its least
   entries for a greater one. *)
Push(heap, kv, counter, n) ==
    LET tops == {t \in heap : \A u \in heap : counter[t] <= counter[u]}
    IN IF Cardinality(heap) < n THEN {heap \cup {kv}}
       ELSE IF counter[kv] > counter[CHOOSE t \in tops : TRUE]
            THEN {(heap \ {t}) \cup {kv} : t \in tops}
            ELSE {heap}

(* The members of S in an order Before decides. *)
InOrder(S, Before(_, _)) ==
    [i \in 1..Cardinality(S) |-> CHOOSE x \in S : Cardinality({y \in S : Before(y, x)}) = i - 1]

SortEntries(keys, counter) ==
    InOrder({<<k, counter[k]>> : k \in keys},
        LAMBDA a, b : \/ a[2] > b[2]
                      \/ a[2] = b[2] /\ PlaceOf(a[1]) < PlaceOf(b[1]))

(* The heaps the entries leave, which are met in the order of an
   unordered_map: any. *)
Heaps(counter, n) ==
    LET met[i \in 0..Cardinality(DOMAIN counter)] ==
            IF i = 0 THEN {<<{}, {}>>}
            ELSE UNION {UNION {{<<m[1] \cup {kv}, heap>> : heap \in Push(m[2], kv, counter, n)} :
                                  kv \in DOMAIN counter \ m[1]} : m \in met[i - 1]}
    IN {m[2] : m \in met[Cardinality(DOMAIN counter)]}

TopN(counter, n) == {SortEntries(h, counter) : h \in Heaps(counter, n)}

GetSummary(topLinks, topTypes) ==
    IF topTypes # <<>> /\ (topLinks = <<>> \/ topTypes[1][2] > topLinks[1][2])
    THEN <<"Leaked_dir", topTypes[1][1]>>
    ELSE IF topLinks # <<>> THEN <<"Leaked_fd", topLinks[1][1]>> ELSE <<Empty>>

Tagged(tag, entries) == [i \in DOMAIN entries |-> <<tag>> \o entries[i]]

(* Every type of the top, each followed by the top of its paths. *)
GetTopDirInfo(topTypes, typePaths) ==
    FoldLeft(LAMBDA outs, entry : {o \o << <<"dir">> \o entry >> \o Tagged("path", top) :
                                      o \in outs, top \in TopN(typePaths[entry[1]], FD_TOP_CNT)},
             {<<>>}, topTypes)

(* The sections of a descriptor report, in the orders they may come in. *)
Reports(ls) ==
    LET counts == CountPaths(ls)
        typePaths == TypePaths(counts)
    IN UNION {UNION {{[topLinks |-> topLinks, topTypes |-> topTypes, dirs |-> dirs,
                       summary |-> GetSummary(topLinks, topTypes)] :
                         dirs \in GetTopDirInfo(topTypes, typePaths)} :
                     topTypes \in TopN(TypeTotal(typePaths), FD_TOP_CNT)} :
              topLinks \in TopN(counts, FD_TOP_CNT)}

(* Links used often enough; the first of the top is always one. *)
LeakedTypes(topLinks) ==
    LET often == SelectSeq(Tail(topLinks), LAMBDA e : e[2] > NEED_DUMP_FDLINK_NUMS)
    IN <<topLinks[1][1]>> \o [i \in DOMAIN often |-> often[i][1]]

-----------------------------------------------------------------------------
(* The processes. *)

Fds(ps, pid) == IF pid \in DOMAIN ps THEN ps[pid].fd ELSE <<>>
Tasks(ps, pid) == IF pid \in DOMAIN ps THEN ps[pid].task ELSE <<>>

(* A descriptor that is gone by now, and a thread that is. *)
GetFdLink(ps, pid, fd) == IF fd \in DOMAIN Fds(ps, pid) THEN Fds(ps, pid)[fd] ELSE Unknown
GetThreadName(ps, pid, tid) == IF tid \in DOMAIN Tasks(ps, pid) THEN Tasks(ps, pid)[tid] ELSE <<Empty>>

(* Entries of /proc/<pid>/<requestType>; there are none of another directory
   or of a process that is gone. *)
GetFileDescriptorNums(ps, pid, requestType) ==
    CASE requestType = "fd" -> Cardinality(DOMAIN Fds(ps, pid))
      [] requestType = "task" -> Cardinality(DOMAIN Tasks(ps, pid))
      [] OTHER -> 0

Ascending(S) == InOrder(S, <)

(* A process opens, closes or reuses a descriptor, starts or ends a thread,
   or ends, while it is looked at. *)
Change ==
    /\ changes < MaxChanges
    /\ pc \notin {"pre", "after", "end", "done"}
    /\ \E pid \in DOMAIN proc :
        \/ \E fd \in DOMAIN proc[pid].fd, path \in scenario.paths \cup {Unknown} :
             /\ proc[pid].fd[fd] # path
             /\ proc' = [proc EXCEPT ![pid].fd =
                           IF path = Unknown THEN [f \in DOMAIN @ \ {fd} |-> @[f]]
                           ELSE [@ EXCEPT ![fd] = path]]
        \/ \E tid \in DOMAIN proc[pid].task :
             proc' = [proc EXCEPT ![pid].task = [t \in DOMAIN @ \ {tid} |-> @[t]]]
        \/ proc' = [p \in DOMAIN proc \ {pid} |-> proc[p]]
    /\ changes' = changes + 1
    /\ had' = [fd |-> [fd \in DOMAIN had.fd |-> had.fd[fd] \cup {GetFdLink(proc', scenario.pid, fd)}],
               task |-> [t \in DOMAIN had.task |-> had.task[t] \cup {GetThreadName(proc', scenario.pid, t)}],
               num |-> [p \in DOMAIN had.num |->
                           had.num[p] \cup {GetFileDescriptorNums(proc', p, scenario.requestType)}]]
    /\ UNCHANGED <<pids, nodes, links, fdNums, found, frame>>

-----------------------------------------------------------------------------
(* FdThreadDumper and CountFdNums. *)

FdThreadPreExecute ==
    /\ scenario.kind = "fdthread"
    /\ DoPreExecute(IF scenario.isDumpFd_ THEN "list_fds" ELSE "list_threads")
    /\ UNCHANGED scan

CountFdNums ==
    /\ scenario.kind = "countfd"
    /\ \/ scenario.permitted /\ DoPreExecute("list_fds")
       \/ ~scenario.permitted /\ DoExecute("pre", FAIL, <<>>)
    /\ UNCHANGED scan

(* GetSubNodes of /proc/<pid>/fd. *)
ListFds ==
    /\ Goto("list_fds", "fds") /\ UNCHANGED result
    /\ nodes' = Ascending(DOMAIN Fds(proc, scenario.pid))
    /\ fdNums' = Len(nodes')
    /\ had' = [had EXCEPT !.fd = [fd \in DOMAIN Fds(proc, scenario.pid) |-> {Fds(proc, scenario.pid)[fd]}]]
    /\ UNCHANGED <<proc, changes, pids, links, found>>

GetFdLinks ==
    /\ nodes # <<>>
    /\ Goto("fds", "fds") /\ UNCHANGED result
    /\ links' = Append(links, GetFdLink(proc, scenario.pid, Head(nodes)))
    /\ nodes' = Tail(nodes)
    /\ UNCHANGED <<proc, changes, pids, fdNums, found, had>>

(* A process without descriptors leaves no report.  The options refuse --fd
   together with --thread, so the threads do not follow. *)
DumpFdInfo ==
    /\ scenario.kind = "fdthread" /\ nodes = <<>>
    /\ IF links = <<>> THEN DoExecute("fds", OK, <<>>)
       ELSE \E r \in Reports(links) :
              DoExecute("fds", OK,
                  << <<"fd_num", Len(links)>>, <<"summary", r.summary>> >>
                  \o Tagged("top", r.topLinks) \o r.dirs
                  \o IF scenario.all THEN << <<"counts", CountPaths(links)>> >> ELSE <<>>)
    /\ UNCHANGED scan

CountFdNumsReturns ==
    /\ scenario.kind = "countfd" /\ nodes = <<>>
    /\ IF links = <<>> THEN DoExecute("fds", FAIL, <<>>)
       ELSE \E r \in Reports(links) :
              DoExecute("fds", OK,
                  << <<"fd_num", Len(links)>>, <<"summary", r.summary>> >>
                  \o Tagged("top", r.topLinks) \o r.dirs
                  \o << <<"leaked", LeakedTypes(r.topLinks)>> >>)
    /\ UNCHANGED scan

ListThreads ==
    /\ Goto("list_threads", "threads") /\ UNCHANGED result
    /\ nodes' = Ascending(DOMAIN Tasks(proc, scenario.pid))
    /\ fdNums' = Len(nodes')
    /\ had' = [had EXCEPT !.task = [t \in DOMAIN Tasks(proc, scenario.pid) |-> {Tasks(proc, scenario.pid)[t]}]]
    /\ links' = <<>>
    /\ UNCHANGED <<proc, changes, pids, found>>

ReadThread ==
    /\ nodes # <<>>
    /\ Goto("threads", "threads") /\ UNCHANGED result
    /\ links' = Append(links, GetThreadName(proc, scenario.pid, Head(nodes)))
    /\ nodes' = Tail(nodes)
    /\ UNCHANGED <<proc, changes, pids, fdNums, found, had>>

(* The names in descending order of use; names of the same use in any. *)
DumpThreadInfo ==
    /\ nodes = <<>>
    /\ LET nameCntMap == Count(links)
       IN \E order \in SetToSeqs(DOMAIN nameCntMap) :
            /\ \A i, j \in DOMAIN order : i < j => nameCntMap[order[i]] >= nameCntMap[order[j]]
            /\ LET names == [i \in 1..Min({Len(order), FD_TOP_CNT}) |->
                                <<"name", order[i], nameCntMap[order[i]]>>]
               IN DoExecute("threads", OK,
                      << <<"Thread_num", fdNums>> >> \o names
                      \o IF scenario.all THEN [i \in DOMAIN links |-> <<"thread", links[i]>>] ELSE <<>>)
    /\ UNCHANGED scan

-----------------------------------------------------------------------------
(* The scans of all processes. *)

ScanPids ==
    /\ scenario.kind \in {"overlimit", "orphans"}
    /\ IF scenario.permitted /\ scenario.limit >= 0 /\ scenario.orphanLimit >= 0
       THEN /\ DoPreExecute("scan")
            /\ pids' = Ascending(DOMAIN proc)
            /\ had' = [had EXCEPT !.num = [p \in DOMAIN proc |->
                                              {GetFileDescriptorNums(proc, p, scenario.requestType)}]]
       ELSE DoExecute("pre", FAIL, <<>>) /\ UNCHANGED <<pids, had>>
    /\ UNCHANGED <<proc, changes, nodes, links, fdNums, found>>

(* Fault: a process with as many descriptors as the limit is passed over. *)
UnderLimitOrAt(num) == num <= scenario.limit

UnderLimit(num) == num < scenario.limit

ScanPidOverLimit ==
    /\ scenario.kind = "overlimit" /\ pids # <<>>
    /\ Goto("scan", "scan") /\ UNCHANGED result
    /\ LET pid == Head(pids)
       IN found' = IF UnderLimit(GetFileDescriptorNums(proc, pid, scenario.requestType)) \/ pid \in Range(found)
                   THEN found ELSE Append(found, pid)
    /\ pids' = Tail(pids)
    /\ UNCHANGED <<proc, changes, nodes, links, fdNums, had>>

ScanPidOverLimitReturns ==
    /\ scenario.kind = "overlimit" /\ pids = <<>>
    /\ DoExecute("scan", OK, [i \in DOMAIN found |-> <<"pid", found[i]>>])
    /\ UNCHANGED scan

CountProcess ==
    /\ scenario.kind = "orphans" /\ pids # <<>>
    /\ fdNums' = GetFileDescriptorNums(proc, Head(pids), "fd")
    /\ IF UnderLimit(fdNums')
       THEN Goto("scan", "scan") /\ pids' = Tail(pids)
       ELSE Goto("scan", "list_orphans") /\ UNCHANGED pids
    /\ UNCHANGED <<result, proc, changes, nodes, links, found, had>>

ListOrphans ==
    /\ Goto("list_orphans", "orphans") /\ UNCHANGED result
    /\ nodes' = Ascending(DOMAIN Fds(proc, Head(pids)))
    /\ links' = <<>>
    /\ UNCHANGED <<proc, changes, pids, fdNums, found, had>>

(* A descriptor whose path cannot be looked up any more is an orphan. *)
ReadOrphan ==
    /\ nodes # <<>>
    /\ Goto("orphans", "orphans") /\ UNCHANGED result
    /\ LET linkDest == GetFdLink(proc, Head(pids), Head(nodes))
       IN links' = IF linkDest = Unknown \/ linkDest \in scenario.existing THEN links
                   ELSE Append(links, linkDest)
    /\ nodes' = Tail(nodes)
    /\ UNCHANGED <<proc, changes, pids, fdNums, found, had>>

DATA == {"/data", STORAGE_PATH_PREFIX}

(* The uses of the orphaned links of /data; a type takes the place of a link
   of the same name. *)
OrphanCounts(orphans) ==
    LET linkCounts == Count(SelectSeq(orphans, LAMBDA l : Head(l) \in DATA))
        typeTotal == TypeTotal(TypePaths(linkCounts))
    IN [k \in DOMAIN linkCounts \cup DOMAIN typeTotal |->
           IF k \in DOMAIN typeTotal THEN typeTotal[k] ELSE linkCounts[k]]

ScanOrphanVnodesForProcess ==
    /\ nodes = <<>> /\ Goto("orphans", "scan") /\ UNCHANGED result
    /\ IF Len(links) <= scenario.orphanLimit THEN UNCHANGED found
       ELSE \E topLinks \in TopN(OrphanCounts(links), ORPHAN_FDLINKPATH_TOP_CNT) :
              found' = Append(found, [pid |-> Head(pids), fdNum |-> fdNums, topLinks |-> topLinks])
    /\ pids' = Tail(pids)
    /\ links' = <<>>
    /\ UNCHANGED <<proc, changes, nodes, fdNums, had>>

(* The processes with the most descriptors, in an order that leaves ties open. *)
ScanOrphanVnodeOverLimit ==
    /\ scenario.kind = "orphans" /\ pids = <<>>
    /\ \E order \in SetToSeqs(DOMAIN found) :
        /\ \A i, j \in DOMAIN order : i < j => found[order[i]].fdNum >= found[order[j]].fdNum
        /\ DoExecute("scan", OK, [i \in 1..Min({Len(order), ORPHAN_FD_TOP_CNT}) |->
                                     <<"orphans", found[order[i]]>>])
    /\ UNCHANGED scan

ScanAfterExecute == DoAfterExecute /\ UNCHANGED scan
ScanDestroy == Destroy /\ UNCHANGED scan

ScanStep ==
    \/ FdThreadPreExecute \/ CountFdNums \/ ListFds \/ GetFdLinks \/ DumpFdInfo
    \/ CountFdNumsReturns \/ ListThreads \/ ReadThread \/ DumpThreadInfo
    \/ ScanPids \/ ScanPidOverLimit \/ ScanPidOverLimitReturns
    \/ CountProcess \/ ListOrphans \/ ReadOrphan \/ ScanOrphanVnodesForProcess
    \/ ScanOrphanVnodeOverLimit
    \/ ScanAfterExecute \/ ScanDestroy

-----------------------------------------------------------------------------
(* Properties. *)

Rows(tag) == SelectSeq(result, LAMBDA r : r[1] = tag)
Sum(rows) == FoldLeft(LAMBDA n, r : n + r[3], 0, rows)

(* A top list of uses is true to what the listed things were while they were
   read: none counts more than could have been read, the list is in order,
   and a use it leaves out is not greater than one it has. *)
TopExact(top, was, Key(_)) ==
    LET may(k) == Cardinality({x \in DOMAIN was : \E t \in was[x] : Key(t) = k})
        must(k) == Cardinality({x \in DOMAIN was : \A t \in was[x] : Key(t) = k})
        shown == {top[i][2] : i \in DOMAIN top}
    IN /\ Cardinality(shown) = Len(top) /\ Len(top) <= FD_TOP_CNT
       /\ \A i \in DOMAIN top : must(top[i][2]) <= top[i][3] /\ top[i][3] <= may(top[i][2])
       /\ \A i, j \in DOMAIN top : i < j => top[i][3] >= top[j][3]
       /\ \A k \in {Key(t) : t \in UNION {was[x] : x \in DOMAIN was}} \ shown :
             \A i \in DOMAIN top : top[i][3] >= must(k)
       /\ Sum(top) <= Cardinality(DOMAIN was)
       /\ Len(top) < FD_TOP_CNT => Sum(top) = Cardinality(DOMAIN was)

(* The rows of the paths under the directory of row d. *)
PathsUnder(d) == {i \in DOMAIN result : i > d /\ \A j \in (d + 1)..i : result[j][1] = "path"}

(* A directory counts every descriptor that was under it all the time and none
   that never was; below it are paths of its own, each once, in order, and
   together they are the directory's count unless the list of them is full. *)
DirsExact(was) ==
    \A d \in DOMAIN result : result[d][1] = "dir" =>
        LET in(t) == TypeOf(KeyOf(t)) = result[d][2] /\ KeyOf(t) # result[d][2]
            under == PathsUnder(d)
            sum == MapThenSumSet(LAMBDA i : result[i][3], under)
        IN /\ Cardinality({x \in DOMAIN was : \A t \in was[x] : in(t)}) <= result[d][3]
           /\ result[d][3] <= Cardinality({x \in DOMAIN was : \E t \in was[x] : in(t)})
           /\ \A i \in under : in(result[i][2])
           /\ \A i, j \in under : i < j => /\ result[i][2] # result[j][2]
                                          /\ result[i][3] >= result[j][3]
           /\ Cardinality(under) \in 1..FD_TOP_CNT /\ sum <= result[d][3]
           /\ Cardinality(under) < FD_TOP_CNT => sum = result[d][3]

(* However the process changes while it is read, a report of its descriptors
   or threads counts every one that was listed once, the tops and the
   directories are true to what they pointed to meanwhile, and the summary
   names the greatest entry of both tops. *)
FdReportExact ==
    /\ scenario.kind \in {"fdthread", "countfd"} /\ Rows("fd_num") # <<>> =>
        LET top == Rows("top")
            dirs == Rows("dir")
            best == IF dirs # <<>> /\ dirs[1][3] > top[1][3] THEN dirs[1] ELSE top[1]
        IN /\ Rows("fd_num")[1][2] = Cardinality(DOMAIN had.fd)
           /\ TopExact(top, had.fd, KeyOf)
           /\ \A r \in Range(Rows("counts")) : Total(r[2]) = Cardinality(DOMAIN had.fd)
           /\ DirsExact(had.fd)
           /\ \A i, j \in DOMAIN dirs : i < j => dirs[i][2] # dirs[j][2] /\ dirs[i][3] >= dirs[j][3]
           /\ Rows("summary")[1][2][2] = best[2]
           /\ \A r \in Range(Rows("leaked")) : Head(r[2]) = top[1][2]
    /\ scenario.kind = "fdthread" /\ Rows("Thread_num") # <<>> =>
           /\ Rows("Thread_num")[1][2] = Cardinality(DOMAIN had.task)
           /\ TopExact(Rows("name"), had.task, LAMBDA t : t)

(* A scan for processes over a limit reports every process that was over it
   all the time, none that never was, and none twice.  The scan for orphaned
   files reports no process twice, in the order of the number of descriptors,
   and each number is one the process had; which processes it reports is exact
   when none changes meanwhile: those with the most descriptors among the ones
   that have enough descriptors and too many orphans. *)
ScansExact ==
    /\ scenario.kind = "overlimit" /\ status = OK =>
        LET shown == [i \in DOMAIN result |-> result[i][2]]
        IN /\ Cardinality(Range(shown)) = Len(shown)
           /\ \A pid \in Range(shown) : Max(had.num[pid]) >= scenario.limit
           /\ \A pid \in DOMAIN had.num : Min(had.num[pid]) >= scenario.limit => pid \in Range(shown)
    /\ scenario.kind = "orphans" /\ status = OK =>
        LET shown == [i \in DOMAIN result |-> result[i][2]]
            of(pid) == proc[pid].fd
            enough == {pid \in DOMAIN proc :
                         /\ Cardinality(DOMAIN of(pid)) >= scenario.limit
                         /\ Cardinality({fd \in DOMAIN of(pid) : of(pid)[fd] \notin scenario.existing})
                               > scenario.orphanLimit}
            reported == {shown[i].pid : i \in DOMAIN shown}
        IN /\ Cardinality(reported) = Len(shown) /\ Len(shown) <= ORPHAN_FD_TOP_CNT
           /\ \A i \in DOMAIN shown : shown[i].fdNum \in had.num[shown[i].pid]
           /\ \A i, j \in DOMAIN shown : i < j => shown[i].fdNum >= shown[j].fdNum
           /\ changes = 0 =>
                 /\ reported \subseteq enough
                 /\ Len(shown) = Min({Cardinality(enough), ORPHAN_FD_TOP_CNT})
                 /\ \A i \in DOMAIN shown, p \in enough \ reported :
                       shown[i].fdNum >= Cardinality(DOMAIN of(p))
    /\ scenario.kind \in {"overlimit", "orphans"} /\ status = FAIL => result = <<>>
=============================================================================
