---------------------------- MODULE ZipRequests -----------------------------
(***************************************************************************)
(* Concurrent requests with --zip, and the folder of their archives.       *)
(* DumpImplement is a singleton: the parser leaves the path of the archive *)
(* in the member path_ (under mutexCmdLock_) and in the options of the     *)
(* request; Main reads the member again, without the lock, for the line    *)
(* "The result is:" that the client looks for.  DumpLogManager::EraseLogs  *)
(* removes the oldest archives when there are too many or they are too     *)
(* large.  It runs twice for a request: before it is registered, when no   *)
(* other one is (DumpLogManager::Init), and after every dump, whatever the *)
(* other requests are doing with their archives (RequestMain).             *)
(*                                                                         *)
(* The name of an archive is the time at which it was parsed, to the       *)
(* millisecond, so names order like times and 0 stands for no name.        *)
(***************************************************************************)
EXTENDS Integers, FiniteSets, FiniteSetsExt

CONSTANTS
    Threads,          \* the threads that serve requests
    MaxClock,         \* bound on the clock
    MaxSize,          \* bound on the size of an archive
    LOGFILE_MAX,      \* 20 in the code
    ZIP_MAX_SIZE,     \* 100 MB in the code
    ZIP_TARGET_SIZE   \* 80 MB in the code

ASSUME ZipAssumption ==
    /\ MaxClock \in Nat \ {0}
    /\ MaxSize \in Nat \ {0}
    /\ LOGFILE_MAX \in Nat
    /\ ZIP_MAX_SIZE \in Nat
    /\ ZIP_TARGET_SIZE \in 0 .. ZIP_MAX_SIZE

VARIABLES
    clock,     \* gettimeofday, in milliseconds
    archives,  \* ZIP_FOLDER: the size of each archive; 0 means there is none
    path,      \* path_ of the singleton
    pc,        \* per thread: the next step
    isZip,     \* per thread: IsDumpZip
    optPath,   \* per thread: path_ of its options
    title,     \* per thread: path_ of its RawParam
    files,     \* per thread: the files CleanOldFiles has still to visit
    known,     \* per thread: all files and sizes that CleanOldFiles listed
    size,      \* per thread: currentSize of DeleteOldestFiles
    count,     \* per thread: fileCount of DeleteOldestFiles
    alone      \* per thread: nobody else has changed the folder since it was
               \* listed for this request (history)

cleaner == <<files, known, size, count>>
request == <<isZip, optPath, title, alone>>
vars == <<clock, archives, path, pc, request, cleaner>>

Names == 1 .. MaxClock
Present(a) == {n \in Names : a[n] # 0}

\* The sums of the first entries of v.
Sums(v) ==
    LET sum[n \in 0 .. MaxClock] == IF n = 0 THEN 0 ELSE sum[n - 1] + v[n]
    IN  sum
Total(a, s) == Sums([n \in Names |-> IF n \in s THEN a[n] ELSE 0])[MaxClock]

Init ==
    /\ clock = 1
    /\ archives = [n \in Names |-> 0]
    /\ path = 0
    /\ pc = [t \in Threads |-> "idle"]
    /\ isZip = [t \in Threads |-> FALSE]
    /\ optPath = [t \in Threads |-> 0]
    /\ title = [t \in Threads |-> 0]
    /\ files = [t \in Threads |-> {}]
    /\ known = [t \in Threads |-> [n \in Names |-> 0]]
    /\ size = [t \in Threads |-> 0]
    /\ count = [t \in Threads |-> 0]
    /\ alone = [t \in Threads |-> FALSE]

Goto(t, from, to) ==
    /\ pc[t] = from
    /\ pc' = [pc EXCEPT ![t] = to]

\* Only wall time moves the clock.
Tick ==
    /\ clock < MaxClock
    /\ clock' = clock + 1
    /\ UNCHANGED <<archives, path, pc, request, cleaner>>

\* The steps between AddRequestRawParam and EraseRequestRawParam.
Serving == {"parse", "title", "open", "close", "report", "relist", "redelete", "leave"}

\* The requests GetRequestSum counts.
Registered == {t \in Threads : pc[t] \in Serving}

\* DumpManagerService::Request: the first request initialises the log folders.
Enter(t) ==
    /\ Goto(t, "idle", IF Registered = {} THEN "list" ELSE "add")
    /\ \E zip \in BOOLEAN : isZip' = [isZip EXCEPT ![t] = zip]
    /\ optPath' = [optPath EXCEPT ![t] = 0]
    /\ title' = [title EXCEPT ![t] = 0]
    /\ alone' = [alone EXCEPT ![t] = FALSE]
    /\ UNCHANGED <<clock, archives, path, cleaner>>

AddRequestRawParam(t) ==
    /\ Goto(t, "add", "parse")
    /\ UNCHANGED <<clock, archives, path, request, cleaner>>

\* The end of RequestMain: CloseOutputFd and EraseRequestRawParam.
Leave(t) ==
    /\ Goto(t, "leave", "idle")
    /\ UNCHANGED <<clock, archives, path, request, cleaner>>

\* A step of t that writes to the folder.
Touches(t) ==
    alone' = [u \in Threads |-> alone[u] /\ (u = t \/ archives' = archives)]

(***************************************************************************)
(* ZipFileCleaner.                                                         *)
(***************************************************************************)
\* Where CleanOldFiles is called: in DumpLogManager::Init and, after the dump,
\* in RequestMain; and where the request goes on.
Sites == {[list |-> "list", delete |-> "delete", next |-> "add"],
          [list |-> "relist", delete |-> "redelete", next |-> "leave"]}

UnderThreshold(a) ==
    /\ Total(a, Names) <= ZIP_MAX_SIZE
    /\ Cardinality(Present(a)) <= LOGFILE_MAX

\* GetDirTotalSize, taken as one step, and the test of CleanOldFiles.
CleanOldFiles(t) ==
    /\ \E s \in Sites :
          Goto(t, s.list, IF UnderThreshold(archives) THEN s.next ELSE s.delete)
    /\ files' = [files EXCEPT ![t] = Present(archives)]
    /\ known' = [known EXCEPT ![t] = archives]
    /\ size' = [size EXCEPT ![t] = Total(archives, Names)]
    /\ count' = [count EXCEPT ![t] = Cardinality(Present(archives))]
    /\ alone' = [alone EXCEPT ![t] = TRUE]
    /\ UNCHANGED <<clock, archives, path, isZip, optPath, title>>

\* Fault: only the size is looked at.
EnoughSize(t) == size[t] <= ZIP_TARGET_SIZE

Enough(t) == size[t] <= ZIP_TARGET_SIZE /\ count[t] <= LOGFILE_MAX

\* The files are sorted by name.
OldestFile(t) == Min(files[t])

\* One turn of the loop of DeleteOldestFiles.  A file that another request has
\* already removed counts as one that could not be deleted.
DeleteOldestFile(t) ==
    /\ files[t] # {} /\ ~Enough(t)
    /\ \E s \in Sites : Goto(t, s.delete, s.delete)
    /\ LET f == OldestFile(t)
       IN  /\ archives' = [archives EXCEPT ![f] = 0]
           /\ files' = [files EXCEPT ![t] = @ \ {f}]
           /\ IF archives[f] # 0
              THEN /\ size' = [size EXCEPT ![t] = @ - known[t][f]]
                   /\ count' = [count EXCEPT ![t] = @ - 1]
              ELSE UNCHANGED <<size, count>>
    /\ Touches(t)
    /\ UNCHANGED <<clock, path, isZip, optPath, title, known>>

DeleteOldestDone(t) ==
    /\ files[t] = {} \/ Enough(t)
    /\ \E s \in Sites : Goto(t, s.delete, s.next)
    /\ UNCHANGED <<clock, archives, path, request, cleaner>>

(***************************************************************************)
(* DumpImplement::Main.                                                    *)
(***************************************************************************)
\* Fault: the member is only set by the first request.
PathMemberOnce == IF path = 0 THEN clock ELSE path

\* What ParseSubLongCmdOption leaves in path_ for --zip.
PathMember == clock

\* InitHandle, which holds mutexCmdLock_ throughout.  A request whose other
\* options are refused has already set path_.
InitHandle(t) ==
    /\ \/ Goto(t, "parse", "title")
       \/ Goto(t, "parse", "relist")
    /\ path' = IF isZip[t] THEN PathMember ELSE path
    /\ optPath' = [optPath EXCEPT ![t] = IF isZip[t] THEN clock ELSE 0]
    /\ UNCHANGED <<clock, archives, isZip, title, alone, cleaner>>

\* Main reads path_ without the lock.
SetTitle(t) ==
    /\ Goto(t, "title", IF isZip[t] THEN "open" ELSE "report")
    /\ title' = [title EXCEPT ![t] = IF isZip[t] THEN path ELSE 0]
    /\ UNCHANGED <<clock, archives, path, isZip, optPath, alone, cleaner>>

\* ZipWriter::Open creates or truncates the archive named in the options.
ZipOpen(t) ==
    /\ Goto(t, "open", "close")
    /\ archives' = [archives EXCEPT ![optPath[t]] = 1]
    /\ Touches(t)
    /\ UNCHANGED <<clock, path, isZip, optPath, title, cleaner>>

\* ZipWriter::Write and Close; an archive removed meanwhile stays removed.
ZipClose(t) ==
    /\ Goto(t, "close", "report")
    /\ \E s \in 1 .. MaxSize :
          archives' = [archives EXCEPT ![optPath[t]] = IF @ = 0 THEN 0 ELSE s]
    /\ Touches(t)
    /\ UNCHANGED <<clock, path, isZip, optPath, title, cleaner>>

\* The last UpdateProgress prints the title, and Main returns to RequestMain,
\* which goes on with EraseLogs.
Report(t) ==
    /\ Goto(t, "report", "relist")
    /\ UNCHANGED <<clock, archives, path, request, cleaner>>

Main(t) == InitHandle(t) \/ SetTitle(t) \/ ZipOpen(t) \/ ZipClose(t) \/ Report(t)

Next ==
    \/ Tick
    \/ \E t \in Threads :
          \/ Enter(t) \/ AddRequestRawParam(t) \/ Leave(t)
          \/ CleanOldFiles(t) \/ DeleteOldestFile(t) \/ DeleteOldestDone(t)
          \/ Main(t)

Spec == Init /\ [][Next]_vars

(***************************************************************************)
(* Properties.                                                             *)
(***************************************************************************)
\* However requests interleave, the path a client is sent is never one that
\* was parsed before its own request: path_ may belong to another request,
\* but only to a later one (ParseSubLongCmdOption writes, Main reads).
NeverOlder ==
    \A t \in Threads : title[t] # 0 => optPath[t] <= title[t]

\* An archive is only removed when every older archive of the folder that the
\* same clean-up saw is gone, even when clean-ups before and after dumps run
\* side by side (DeleteOldestFiles sorts by name).
OldestFirst ==
    [][\A n \in Names : archives[n] # 0 /\ archives'[n] = 0 =>
           \E t \in Threads :
              /\ pc[t] \in {"delete", "redelete"}
              /\ n \in files[t]
              /\ \A o \in 1 .. n - 1 : o \notin files[t]]_vars

\* hidumper_function_test.cpp:754: the archive a client is told of exists
\* when it is told.
ReportedExists ==
    \A t \in Threads : pc[t] = "report" /\ isZip[t] => archives[title[t]] # 0

\* The newest archives that fit the limits, which is what a clean-up should leave.
Fits(a, s) == Total(a, s) <= ZIP_TARGET_SIZE /\ Cardinality(s) <= LOGFILE_MAX
Newest(a) ==
    LET from == {k \in 1 .. MaxClock + 1 : Fits(a, {n \in Present(a) : n >= k})}
    IN  {n \in Present(a) : n >= Min(from)}

\* A clean-up, before or after a dump, that lists a folder over the thresholds
\* has in the end gone through every archive of its listing that has to go, also
\* when requests or other clean-ups change the folder meanwhile.  When nobody
\* else does, it leaves exactly the newest archives that fit, and every archive
\* when the folder was under the thresholds.
CleanedExactly ==
    \A t \in Threads : pc[t] \in {"add", "leave"} =>
        /\ ~UnderThreshold(known[t]) => files[t] \subseteq Newest(known[t])
        /\ alone[t] => Present(archives) =
               IF UnderThreshold(known[t]) THEN Present(known[t]) ELSE Newest(known[t])
=============================================================================
