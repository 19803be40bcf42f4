------------------------- MODULE DumpManagerService -------------------------
(***************************************************************************)
(* The HiDumper system ability (services/native).  IPC worker threads run  *)
(* Request concurrently: each admits a request, registers a RawParam under *)
(* a fresh id, dumps into a temporary folder named by that id, and tears   *)
(* everything down again.  A life-cycle thread runs OnStart, OnStop and    *)
(* OnIdle, the event handler thread runs the delayed unload task, and the  *)
(* process may die at any moment, leaving its folders on the disk.         *)
(*                                                                         *)
(* A step is what happens between two points where another thread can      *)
(* interfere: one critical section of mutex_, one access to an atomic      *)
(* flag, one call into the file system or the event handler.  What a dump  *)
(* writes is the business of DumpDatas; here it only succeeds or fails.    *)
(***************************************************************************)
EXTENDS Integers, FiniteSets

CONSTANTS
    Threads,        \* IPC worker threads; each serves one Request at a time
    Nobody,         \* no thread
    Stale,          \* a folder left behind by a process that has died
    REQUEST_MAX,    \* 5 in the code
    REQUESTID_MAX,  \* 100000 in the code
    STOP_WAIT       \* 3 in the code

ASSUME ThreadsAssumption ==
    /\ IsFiniteSet(Threads)
    /\ Nobody \notin Threads \cup Nat
    /\ Stale \notin Threads
    /\ Stale # Nobody

ASSUME BoundsAssumption ==
    /\ REQUEST_MAX \in Nat \ {0}
    /\ REQUESTID_MAX \in Nat \ {0}
    /\ STOP_WAIT \in Nat \ {0}

\* The loop of AddRequestRawParam that looks for an unused id ends because a
\* process has far fewer IPC threads than there are ids.
ASSUME EnoughIds == Cardinality(Threads) < REQUESTID_MAX

VARIABLES
    started,            \* started_
    blockRequest,       \* blockRequest_
    requestIndex,       \* requestIndex_
    requestRawParamMap, \* id -> the thread whose RawParam is registered, or Nobody
    pc,                 \* per thread: the next step of Request
    reqId,              \* per thread: reqId_ of its RawParam (meaningful while it has one)
    canceled,           \* per thread: canceled_ of its RawParam
    outfd,              \* per thread: TRUE while the owner holds a descriptor > -1
    closes,             \* per thread: how often the descriptor of this request was closed
    dumpFailed,         \* per thread: DumpImplement::Main has returned an error
    reply,              \* per thread: what the last Request returned
    tmpFolder,          \* id -> creator of TMP_FOLDER/id, Stale, or Nobody when absent
    pendingUnload,      \* number of unload tasks in the event handler's queue
    unloadPc,           \* the event handler thread
    stopPc,             \* the life-cycle thread
    stopWaited          \* the loop counter of OnStop

handlerVars == <<pendingUnload, unloadPc>>
lifeVars    == <<started, blockRequest, stopPc, stopWaited>>
registry    == <<requestIndex, requestRawParamMap>>
request     == <<pc, reqId, canceled, outfd, closes, dumpFailed, reply>>
vars        == <<handlerVars, lifeVars, registry, request, tmpFolder>>

RequestIds == 0 .. REQUESTID_MAX - 1

RequestPc ==
    {"idle", "checkStarted", "getSum", "logInit", "removeTask", "postTask", "add",
     "createTmp", "dump", "eraseTmp", "bareDump", "bareErase", "closeFd", "erase",
     "return"}

Replies == {"none", "DUMP_OK", "DUMP_FAIL", "DUMP_REQUEST_MAX"}

Registered == {i \in RequestIds : requestRawParamMap[i] # Nobody}

\* A thread that has read the sum but has not yet entered the map.
Admitting(t) == pc[t] \in {"logInit", "removeTask", "postTask", "add"}

\* A thread whose RawParam is in the map.
InFlight(t) ==
    pc[t] \in {"createTmp", "dump", "eraseTmp", "bareDump", "bareErase", "closeFd", "erase"}

\* A thread between a CreateTmpFolder that made the folder and EraseTmpFolder.
UsesFolder(t) == pc[t] \in {"dump", "eraseTmp"}

TypeOK ==
    /\ started \in BOOLEAN
    /\ blockRequest \in BOOLEAN
    /\ requestIndex \in RequestIds
    /\ requestRawParamMap \in [RequestIds -> Threads \cup {Nobody}]
    /\ pc \in [Threads -> RequestPc]
    /\ reqId \in [Threads -> RequestIds]
    /\ canceled \in [Threads -> BOOLEAN]
    /\ outfd \in [Threads -> BOOLEAN]
    /\ closes \in [Threads -> Nat]
    /\ dumpFailed \in [Threads -> BOOLEAN]
    /\ reply \in [Threads -> Replies]
    /\ tmpFolder \in [RequestIds -> Threads \cup {Nobody, Stale}]
    /\ pendingUnload \in Nat
    /\ unloadPc \in {"none", "unload"}
    /\ stopPc \in {"none", "cancel", "poll", "clearStarted", "clearBlock", "idleUnload"}
    /\ stopWaited \in 0 .. STOP_WAIT - 1

Init ==
    /\ tmpFolder = [i \in RequestIds |-> Nobody]
    /\ started = FALSE
    /\ blockRequest = FALSE
    /\ requestIndex = 0
    /\ requestRawParamMap = [i \in RequestIds |-> Nobody]
    /\ pc = [t \in Threads |-> "idle"]
    /\ reqId = [t \in Threads |-> 0]
    /\ canceled = [t \in Threads |-> FALSE]
    /\ outfd = [t \in Threads |-> FALSE]
    /\ closes = [t \in Threads |-> 0]
    /\ dumpFailed = [t \in Threads |-> FALSE]
    /\ reply = [t \in Threads |-> "none"]
    /\ pendingUnload = 0
    /\ unloadPc = "none"
    /\ stopPc = "none"
    /\ stopWaited = 0

-----------------------------------------------------------------------------
(***************************************************************************)
(* Request, on IPC thread t.                                               *)
(***************************************************************************)

Goto(t, from, to) ==
    /\ pc[t] = from
    /\ pc' = [pc EXCEPT ![t] = to]

\* HandleRequestError closes the descriptor and Request returns at once.
HandleRequestError(t, from, code) ==
    /\ Goto(t, from, "idle")
    /\ outfd' = [outfd EXCEPT ![t] = FALSE]
    /\ closes' = [closes EXCEPT ![t] = @ + 1]
    /\ reply' = [reply EXCEPT ![t] = code]
    /\ UNCHANGED <<reqId, canceled, dumpFailed>>

\* The stub passes a valid descriptor; Request tags it and reads blockRequest_.
\* A blocked request is refused before anything else happens.
RequestEnter(t) ==
    /\ pc[t] = "idle"
    /\ closes' = [closes EXCEPT ![t] = IF blockRequest THEN 1 ELSE 0]
    /\ outfd' = [outfd EXCEPT ![t] = ~blockRequest]
    /\ reply' = [reply EXCEPT ![t] = IF blockRequest THEN "DUMP_FAIL" ELSE "none"]
    /\ pc' = [pc EXCEPT ![t] = IF blockRequest THEN "idle" ELSE "checkStarted"]
    /\ UNCHANGED <<reqId, canceled, dumpFailed, lifeVars, registry, handlerVars, tmpFolder>>

\* started_ and the caller's permission; whether a caller has it is external.
RequestCheckStarted(t) ==
    /\ \/ HandleRequestError(t, "checkStarted", "DUMP_FAIL")
       \/ /\ started
          /\ Goto(t, "checkStarted", "getSum")
          /\ UNCHANGED <<reqId, canceled, outfd, closes, dumpFailed, reply>>
    /\ UNCHANGED <<lifeVars, registry, handlerVars, tmpFolder>>

\* The branch of Request on the sum: refuse, or go on with or without Init.
Admission(t, refused, cleans) ==
    /\ \/ /\ refused
          /\ HandleRequestError(t, "getSum", "DUMP_REQUEST_MAX")
       \/ /\ ~refused
          /\ Goto(t, "getSum", IF cleans THEN "logInit" ELSE "removeTask")
          /\ UNCHANGED <<reqId, canceled, outfd, closes, dumpFailed, reply>>
    /\ UNCHANGED <<lifeVars, registry, handlerVars, tmpFolder>>

\* Faults in that branch: the limit is off by one, or the folder of the last
\* process is never cleaned.
GetSumOffByOne(t) ==
    Admission(t, Cardinality(Registered) > REQUEST_MAX, Registered = {})

GetSumNoInit(t) ==
    Admission(t, Cardinality(Registered) >= REQUEST_MAX, FALSE)

\* GetRequestSum under mutex_, and the branch on its result.
RequestGetSum(t) ==
    LET sum == Cardinality(Registered) IN
    Admission(t, sum >= REQUEST_MAX, sum = 0)

\* DumpLogManager::Init removes TMP_FOLDER with everything in it; for the
\* archives it cleans up see ZipRequests.
RequestLogInit(t) ==
    /\ Goto(t, "logInit", "removeTask")
    /\ tmpFolder' = [i \in RequestIds |-> Nobody]
    /\ UNCHANGED <<reqId, canceled, outfd, closes, dumpFailed, reply,
                   lifeVars, registry, handlerVars>>

\* DelayUnloadTask: RemoveTask(TASK_ID), then PostTask(task, TASK_ID, 120 s).
DelayUnloadRemove(t) ==
    /\ Goto(t, "removeTask", "postTask")
    /\ pendingUnload' = 0
    /\ UNCHANGED <<reqId, canceled, outfd, closes, dumpFailed, reply,
                   lifeVars, registry, unloadPc, tmpFolder>>

\* A fault in DelayUnloadTask: only the first request posts the task.
DelayUnloadPostFirst(t) ==
    /\ Goto(t, "postTask", "add")
    /\ pendingUnload' = IF Registered = {} THEN pendingUnload + 1 ELSE pendingUnload
    /\ UNCHANGED <<reqId, canceled, outfd, closes, dumpFailed, reply,
                   lifeVars, registry, unloadPc, tmpFolder>>

DelayUnloadPost(t) ==
    /\ Goto(t, "postTask", "add")
    /\ pendingUnload' = pendingUnload + 1
    /\ UNCHANGED <<reqId, canceled, outfd, closes, dumpFailed, reply,
                   lifeVars, registry, unloadPc, tmpFolder>>

\* GetRequestId called until it yields an id that is not in the map.
Successor(k) == (requestIndex + k) % REQUESTID_MAX

\* A fault in AddRequestRawParam: the id is taken without looking it up.
FindRequestIdUnchecked == Successor(1)

FindRequestId ==
    Successor(CHOOSE k \in 1 .. REQUESTID_MAX :
                  /\ requestRawParamMap[Successor(k)] = Nobody
                  /\ \A j \in 1 .. k - 1 : requestRawParamMap[Successor(j)] # Nobody)

AddRequestRawParam(t) ==
    /\ Goto(t, "add", "createTmp")
    /\ requestIndex' = FindRequestId
    /\ requestRawParamMap' =
           [requestRawParamMap EXCEPT ![FindRequestId] = IF @ = Nobody THEN t ELSE @]
    /\ reqId' = [reqId EXCEPT ![t] = FindRequestId]
    /\ canceled' = [canceled EXCEPT ![t] = FALSE]
    /\ UNCHANGED <<outfd, closes, dumpFailed, reply, lifeVars, handlerVars, tmpFolder>>

(***************************************************************************)
(* RequestMain, still on thread t.                                         *)
(***************************************************************************)

\* ForceCreateDirectory succeeds on a directory that exists and keeps its files.
\* When it fails the request goes on without a folder.
CreateTmpFolder(t) ==
    /\ \/ /\ Goto(t, "createTmp", "dump")
          /\ tmpFolder' = [tmpFolder EXCEPT ![reqId[t]] = IF @ = Nobody THEN t ELSE @]
       \/ /\ tmpFolder[reqId[t]] = Nobody
          /\ Goto(t, "createTmp", "bareDump")
          /\ UNCHANGED tmpFolder
    /\ UNCHANGED <<reqId, canceled, outfd, closes, dumpFailed, reply,
                   lifeVars, registry, handlerVars>>

\* DumpImplement::Main, which is skipped when there are no arguments.
RequestDump(t) ==
    /\ Goto(t, "dump", "eraseTmp") \/ Goto(t, "bareDump", "bareErase")
    /\ \E failed \in BOOLEAN : dumpFailed' = [dumpFailed EXCEPT ![t] = failed]
    /\ UNCHANGED <<reqId, canceled, outfd, closes, reply,
                   lifeVars, registry, handlerVars, tmpFolder>>

\* DumpLogManager::EraseTmpFolder.  The clean-up of the archives that follows
\* (EraseLogs) touches nothing here; it is the subject of ZipRequests.
EraseTmpFolder(t) ==
    /\ Goto(t, "eraseTmp", "closeFd") \/ Goto(t, "bareErase", "closeFd")
    /\ tmpFolder' = [tmpFolder EXCEPT ![reqId[t]] = Nobody]
    /\ UNCHANGED <<reqId, canceled, outfd, closes, dumpFailed, reply,
                   lifeVars, registry, handlerVars>>

\* A fault in CloseOutputFd: the descriptor is not forgotten.
CloseOutputFdOnly(t) ==
    /\ closes' = [closes EXCEPT ![t] = IF outfd[t] THEN @ + 1 ELSE @]
    /\ UNCHANGED outfd

\* RawParam::CloseOutputFd closes a descriptor > -1 and forgets it.
CloseOutputFd(t) ==
    /\ outfd' = [outfd EXCEPT ![t] = FALSE]
    /\ closes' = [closes EXCEPT ![t] = IF outfd[t] THEN @ + 1 ELSE @]

\* A fault in RequestMain: closing is left to the destructor.
RequestCloseFdLater(t) ==
    /\ Goto(t, "closeFd", "erase")
    /\ UNCHANGED <<reqId, canceled, outfd, closes, dumpFailed, reply,
                   lifeVars, registry, handlerVars, tmpFolder>>

RequestCloseFd(t) ==
    /\ Goto(t, "closeFd", "erase")
    /\ CloseOutputFd(t)
    /\ UNCHANGED <<reqId, canceled, dumpFailed, reply,
                   lifeVars, registry, handlerVars, tmpFolder>>

EraseRequestRawParam(t) ==
    /\ Goto(t, "erase", "return")
    /\ requestRawParamMap' = [requestRawParamMap EXCEPT ![reqId[t]] = Nobody]
    /\ UNCHANGED <<requestIndex, reqId, canceled, outfd, closes, dumpFailed, reply,
                   lifeVars, handlerVars, tmpFolder>>

\* StartRequest returns DUMP_OK whatever Main returned; the last reference to
\* the RawParam goes, and its destructor closes the descriptor if it is open.
RequestReturn(t) ==
    /\ Goto(t, "return", "idle")
    /\ CloseOutputFd(t)
    /\ reply' = [reply EXCEPT ![t] = "DUMP_OK"]
    /\ reqId' = [reqId EXCEPT ![t] = 0]
    /\ canceled' = [canceled EXCEPT ![t] = FALSE]
    /\ dumpFailed' = [dumpFailed EXCEPT ![t] = FALSE]
    /\ UNCHANGED <<lifeVars, registry, handlerVars, tmpFolder>>

RequestStep(t) ==
    \/ RequestCheckStarted(t)
    \/ RequestGetSum(t)
    \/ RequestLogInit(t)
    \/ DelayUnloadRemove(t)
    \/ DelayUnloadPost(t)
    \/ AddRequestRawParam(t)
    \/ CreateTmpFolder(t)
    \/ RequestDump(t)
    \/ EraseTmpFolder(t)
    \/ RequestCloseFd(t)
    \/ EraseRequestRawParam(t)
    \/ RequestReturn(t)

-----------------------------------------------------------------------------
(***************************************************************************)
(* The event handler thread: the delayed unload task.  Its 120 seconds are *)
(* not modelled, so it may run at any time after it was posted.            *)
(***************************************************************************)

\* The task gives up, and is not posted again, while a request is registered.
UnloadTaskCheck ==
    /\ pendingUnload > 0
    /\ unloadPc = "none"
    /\ pendingUnload' = pendingUnload - 1
    /\ unloadPc' = IF Registered = {} THEN "unload" ELSE "none"
    /\ UNCHANGED <<lifeVars, registry, request, tmpFolder>>

\* UnloadSystemAbility, if there is a samgr proxy.  What samgr does next reaches
\* the process as OnIdle, OnStop or its end, which may come at any time anyway.
UnloadTaskCall ==
    /\ unloadPc = "unload"
    /\ unloadPc' = "none"
    /\ UNCHANGED <<pendingUnload, lifeVars, registry, request, tmpFolder>>

-----------------------------------------------------------------------------
(***************************************************************************)
(* The life-cycle thread of the system ability framework: it calls         *)
(* OnStart, OnStop and OnIdle one at a time.                               *)
(***************************************************************************)

\* Init and Publish have succeeded; when one fails nothing changes.
OnStart ==
    /\ stopPc = "none"
    /\ ~started
    /\ started' = TRUE
    /\ UNCHANGED <<blockRequest, stopPc, stopWaited, registry, request, handlerVars, tmpFolder>>

OnStopBlock ==
    /\ stopPc = "none"
    /\ started
    /\ blockRequest' = TRUE
    /\ stopPc' = "cancel"
    /\ UNCHANGED <<started, stopWaited, registry, request, handlerVars, tmpFolder>>

CancelAllRequest ==
    /\ stopPc = "cancel"
    /\ stopPc' = "poll"
    /\ canceled' = [t \in Threads |->
                       canceled[t] \/ \E i \in RequestIds : requestRawParamMap[i] = t]
    /\ UNCHANGED <<started, blockRequest, stopWaited, registry, pc, reqId, outfd, closes,
                   dumpFailed, reply, handlerVars, tmpFolder>>

\* One turn of the waiting loop, when "last" says whether the loop ends after it.
PollTurn(last) ==
    /\ stopPc = "poll"
    /\ IF Registered = {}
       THEN /\ stopPc' = "clearStarted"
            /\ UNCHANGED stopWaited
       ELSE /\ stopWaited' = IF last THEN stopWaited ELSE stopWaited + 1
            /\ stopPc' = IF last THEN "clearStarted" ELSE "poll"
    /\ UNCHANGED <<started, blockRequest, registry, request, handlerVars, tmpFolder>>

\* Leave the loop when the map is empty, else sleep, at most STOP_WAIT times.
OnStopPoll == PollTurn(stopWaited + 1 = STOP_WAIT)

OnStopClearStarted ==
    /\ stopPc = "clearStarted"
    /\ started' = FALSE
    /\ stopPc' = "clearBlock"
    /\ UNCHANGED <<blockRequest, stopWaited, registry, request, handlerVars, tmpFolder>>

OnStopClearBlock ==
    /\ stopPc = "clearBlock"
    /\ blockRequest' = FALSE
    /\ stopPc' = "none"
    /\ stopWaited' = 0
    /\ UNCHANGED <<started, registry, request, handlerVars, tmpFolder>>

\* OnIdle with reason INTERFACE_CALL: the sum is read under mutex_, started_ is
\* cleared afterwards.  Every other outcome of OnIdle changes nothing here.
OnIdleCheck ==
    /\ stopPc = "none"
    /\ Registered = {}
    /\ stopPc' = "idleUnload"
    /\ UNCHANGED <<started, blockRequest, stopWaited, registry, request, handlerVars, tmpFolder>>

OnIdleClearStarted ==
    /\ stopPc = "idleUnload"
    /\ started' = FALSE
    /\ stopPc' = "none"
    /\ UNCHANGED <<blockRequest, stopWaited, registry, request, handlerVars, tmpFolder>>

\* The process is killed, or exits after an unload, and is created again: all
\* its memory and descriptors go, the folders on the disk stay.
ProcessDies ==
    /\ tmpFolder' = [i \in RequestIds |-> IF tmpFolder[i] = Nobody THEN Nobody ELSE Stale]
    /\ started' = FALSE
    /\ blockRequest' = FALSE
    /\ requestIndex' = 0
    /\ requestRawParamMap' = [i \in RequestIds |-> Nobody]
    /\ pc' = [t \in Threads |-> "idle"]
    /\ reqId' = [t \in Threads |-> 0]
    /\ canceled' = [t \in Threads |-> FALSE]
    /\ outfd' = [t \in Threads |-> FALSE]
    /\ closes' = [t \in Threads |-> 0]
    /\ dumpFailed' = [t \in Threads |-> FALSE]
    /\ reply' = [t \in Threads |-> "none"]
    /\ pendingUnload' = 0
    /\ unloadPc' = "none"
    /\ stopPc' = "none"
    /\ stopWaited' = 0

LifeCycle ==
    \/ OnStart
    \/ OnStopBlock
    \/ CancelAllRequest
    \/ OnStopPoll
    \/ OnStopClearStarted
    \/ OnStopClearBlock
    \/ OnIdleCheck
    \/ OnIdleClearStarted

Next ==
    \/ \E t \in Threads : RequestEnter(t) \/ RequestStep(t)
    \/ UnloadTaskCheck
    \/ UnloadTaskCall
    \/ LifeCycle
    \/ ProcessDies

Spec == Init /\ [][Next]_vars

-----------------------------------------------------------------------------
(***************************************************************************)
(* Properties of every interleaving.                                       *)
(***************************************************************************)

\* The map and the threads agree: a request between AddRequestRawParam and
\* EraseRequestRawParam is found under its own id, and an entry belongs to such
\* a request.  So no two requests in flight share an id, CancelAllRequest
\* reaches each of them, and nobody erases another request's entry.
RegistryAgrees ==
    /\ \A t \in Threads : InFlight(t) => requestRawParamMap[reqId[t]] = t
    /\ \A i \in RequestIds :
          requestRawParamMap[i] # Nobody =>
              /\ InFlight(requestRawParamMap[i])
              /\ reqId[requestRawParamMap[i]] = i

\* The descriptor handed to Request stays open until the dump is over and has
\* been closed exactly once when Request returns, on every path: a refusal
\* closes it in HandleRequestError, an admitted request in RequestMain, and
\* the destructor of RawParam must not close it again.
DescriptorClosedOnce ==
    \A t \in Threads :
        /\ closes[t] <= 1
        /\ (pc[t] \notin {"idle", "erase", "return"}) => outfd[t] /\ closes[t] = 0
        /\ (pc[t] = "idle" /\ reply[t] # "none") => ~outfd[t] /\ closes[t] = 1

\* The folder a request dumps into holds nobody else's files: not those of a
\* concurrent request, and not those a killed process left under the same id
\* (a new process counts its ids from zero again).  Another admission may have
\* wiped it (DumpLogManager::Init), which is what FolderIntact is about.
FolderOwnOrWiped ==
    \A t \in Threads : UsesFolder(t) => tmpFolder[reqId[t]] \in {t, Nobody}

\* While a request dumps, the only thing that can take its folder away is the
\* DumpLogManager::Init of another thread that read a sum of 0 before.
OnlyInitWipes ==
    [][\A t \in Threads :
          (/\ UsesFolder(t)
           /\ UsesFolder(t)'
           /\ tmpFolder[reqId[t]] = t
           /\ tmpFolder'[reqId[t]] # t)
          => \E u \in Threads \ {t} : pc[u] = "logInit" /\ pc'[u] = "removeTask"]_vars

\* What a caller of Request sees (RequestRegistry): it waits until its RawParam
\* is in the map, is served until the RawParam is taken out, and nothing else
\* that happens in the service is visible to it.
Phase(t) ==
    IF InFlight(t) THEN "served" ELSE IF pc[t] \in {"idle", "return"} THEN "none" ELSE "waiting"

Registry ==
    INSTANCE RequestRegistry WITH
        Ids   <- RequestIds,
        NoId  <- Nobody,
        phase <- [t \in Threads |-> Phase(t)],
        id    <- [t \in Threads |-> IF InFlight(t) THEN reqId[t] ELSE Nobody],
        open  <- outfd

\* The service implements RequestRegistry: Request, with its early returns, its
\* id search and its teardown order, never serves two callers under one id and
\* never frees an id whose descriptor is still open.
ImplementsRegistry == Registry!Spec

\* idump_broker.h says of Request "return: = 0 OK; < 0 Error": a caller that is
\* told OK has had its dump made.
ReplyTellsResult ==
    [][\A t \in Threads :
          dumpFailed[t] /\ pc[t] = "return" /\ reply'[t] # reply[t]
              => reply'[t] # "DUMP_OK"]_vars

-----------------------------------------------------------------------------
(***************************************************************************)
(* Properties of serial admission.  Request reads the sum, wipes TMP_FOLDER*)
(* and registers in three separate critical sections.  As long as no two   *)
(* requests are admitted at once, the limit and the folders are safe.      *)
(***************************************************************************)

AdmissionSerial ==
    \A t, u \in Threads : Admitting(t) /\ Admitting(u) => t = u

\* At most REQUEST_MAX requests are registered (the limit of Request).
RequestMaxKept == Cardinality(Registered) <= REQUEST_MAX

\* A request that dumps keeps the folder that was made for it, with its own files
\* only, until it erases the folder itself.
FolderIntact ==
    \A t \in Threads : UsesFolder(t) => tmpFolder[reqId[t]] = t

\* As long as no two requests are admitted at the same time, the limit of
\* Request holds and no request loses its folder to the Init of another.
SerialAdmissionSafe == []AdmissionSerial => [](RequestMaxKept /\ FolderIntact)

-----------------------------------------------------------------------------
(***************************************************************************)
(* Liveness.                                                               *)
(***************************************************************************)

\* An IPC thread that has begun a Request is scheduled until it returns; the
\* dump itself is taken to end.
RequestFairness == \A t \in Threads : WF_vars(RequestStep(t))

UnloadTaskStep == UnloadTaskCheck \/ UnloadTaskCall

\* No request takes 120 seconds: when the unload task runs, every request that
\* was admitted before it was posted, or along with it, is over.  The process
\* lives.
PromptSpec ==
    /\ Init
    /\ [][/\ Next
          /\ UnloadTaskCheck => \A t \in Threads : ~Admitting(t) /\ ~InFlight(t)
          /\ ~ProcessDies]_vars

\* A service whose last request is over gets to the point of asking samgr to
\* unload it: no interleaving of RemoveTask and PostTask of several requests
\* loses the task.
LastRequestUnloads ==
    (/\ RequestFairness
     /\ WF_vars(UnloadTaskStep)
     /\ <>[](\A t \in Threads : pc[t] = "idle"))
    => [](Registered # {} => <>(unloadPc = "unload"))

=============================================================================
