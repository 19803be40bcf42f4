---------------------- MODULE DumpManagerServiceProofs ----------------------
(***************************************************************************)
(* Theorems about DumpManagerService for every number of IPC threads and   *)
(* every value of the bounds.                                              *)
(***************************************************************************)
EXTENDS DumpManagerService, FiniteSetTheorems, FunctionTheorems,
        WellFoundedInduction, NaturalsInduction, TLAPS

-----------------------------------------------------------------------------
(***************************************************************************)
(* AddRequestRawParam finds an id.                                         *)
(***************************************************************************)

\* Each request in flight holds one id, so the entries of the map are an
\* injection into the threads and some id is free.
LEMMA SomeIdIsFree ==
    ASSUME TypeOK, RegistryAgrees
    PROVE  \E i \in RequestIds : requestRawParamMap[i] = Nobody
<1>1. SUFFICES ASSUME \A i \in RequestIds : requestRawParamMap[i] # Nobody
               PROVE  FALSE
  BY Zenon
<1>2. requestRawParamMap \in [RequestIds -> Threads]
  BY <1>1 DEF TypeOK
<1>3. \A i, j \in RequestIds :
         requestRawParamMap[i] = requestRawParamMap[j] => i = j
  BY Zenon, <1>1 DEF RegistryAgrees
<1>4. requestRawParamMap \in Injection(RequestIds, Threads)
  BY Zenon, <1>2, <1>3, Fun_IsInj
<1>5. Cardinality(RequestIds) <= Cardinality(Threads)
  BY Zenon, <1>4, FS_Injection, ThreadsAssumption
<1>6. Cardinality(RequestIds) = REQUESTID_MAX
  BY FS_Interval, BoundsAssumption DEF RequestIds
<1>7. Cardinality(Threads) \in Nat
  BY Zenon, FS_CardinalityType, ThreadsAssumption
<1>. QED
  BY <1>5, <1>6, <1>7, EnoughIds, BoundsAssumption

\* REQUESTID_MAX calls of GetRequestId visit every id, wherever they start.
LEMMA EveryIdIsVisited ==
    ASSUME TypeOK, NEW i \in RequestIds
    PROVE  \E k \in 1 .. REQUESTID_MAX : Successor(k) = i
<1>. DEFINE k == IF i > requestIndex THEN i - requestIndex
                                     ELSE i - requestIndex + REQUESTID_MAX
<1>1. /\ requestIndex \in 0 .. REQUESTID_MAX - 1
      /\ i \in 0 .. REQUESTID_MAX - 1
      /\ REQUESTID_MAX \in Nat \ {0}
  BY Zenon, BoundsAssumption DEF TypeOK, RequestIds
<1>2. k \in 1 .. REQUESTID_MAX
  BY <1>1
<1>3. Successor(k) = i
  <2>1. CASE i > requestIndex
    <3>1. requestIndex + k = i
      BY <1>1, <2>1
    <3>2. i % REQUESTID_MAX = i
      BY <1>1
    <3>. QED
      BY Zenon, <3>1, <3>2 DEF Successor
  <2>2. CASE ~(i > requestIndex)
    <3>1. requestIndex + k = i + REQUESTID_MAX
      BY <1>1, <2>2
    <3>2. (i + REQUESTID_MAX) % REQUESTID_MAX = i
      BY <1>1
    <3>. QED
      BY Zenon, <3>1, <3>2 DEF Successor
  <2>. QED
    BY Zenon, <2>1, <2>2
<1>. QED
  BY Zenon, <1>2, <1>3

\* GetRequestId answers an id in 0..REQUESTID_MAX - 1.
LEMMA SuccessorType ==
    ASSUME TypeOK, NEW k \in Nat
    PROVE  Successor(k) \in RequestIds
  BY BoundsAssumption DEF TypeOK, RequestIds, Successor

\* The loop of AddRequestRawParam ends, and with an id that is not in use.
LEMMA FindRequestIdIsFree ==
    ASSUME TypeOK, RegistryAgrees
    PROVE  /\ FindRequestId \in RequestIds
           /\ requestRawParamMap[FindRequestId] = Nobody
<1>. DEFINE Free == {k \in 1 .. REQUESTID_MAX : requestRawParamMap[Successor(k)] = Nobody}
<1>1. Free # {}
  BY Zenon, SomeIdIsFree, EveryIdIsVisited
<1>2. Free \subseteq Nat
  BY BoundsAssumption
<1>3. PICK m \in Free : \A j \in Free : ~(<<j, m>> \in OpToRel(<, Nat))
  BY Zenon, <1>1, <1>2, WFMin, NatLessThanWellFounded
<1>4. \A j \in Free : ~(j < m)
  BY Zenon, <1>2, <1>3 DEF OpToRel
<1>5. \A j \in 1 .. m - 1 : requestRawParamMap[Successor(j)] # Nobody
  BY <1>4, BoundsAssumption
<1>. DEFINE First(k) ==
         /\ requestRawParamMap[Successor(k)] = Nobody
         /\ \A j \in 1 .. k - 1 : requestRawParamMap[Successor(j)] # Nobody
<1>6. \E k \in 1 .. REQUESTID_MAX : First(k)
  BY Zenon, <1>3, <1>5
<1>. DEFINE c == CHOOSE k \in 1 .. REQUESTID_MAX : First(k)
<1>7. c \in 1 .. REQUESTID_MAX /\ First(c)
  <2>. HIDE DEF First
  <2>. QED
    BY Zenon, <1>6
<1>8. FindRequestId = Successor(c)
  BY Zenon DEF FindRequestId
<1>9. c \in Nat
  BY <1>7, BoundsAssumption
<1>. QED
  BY Zenon, <1>7, <1>8, <1>9, SuccessorType

-----------------------------------------------------------------------------
(***************************************************************************)
(* The types and the registry are preserved together: an id has its type   *)
(* because some id is free, and some id is free because of the registry.   *)
(***************************************************************************)

\* Every step keeps the type invariant.
LEMMA TypeStep ==
    ASSUME TypeOK, RegistryAgrees, [Next]_vars
    PROVE  TypeOK'
<1>. USE DEF TypeOK
<1>1. ASSUME NEW t \in Threads, RequestEnter(t) PROVE TypeOK'
  BY Zenon, <1>1 DEF RequestEnter, RequestPc, Replies, lifeVars, registry, handlerVars
<1>2. ASSUME NEW t \in Threads, RequestCheckStarted(t) PROVE TypeOK'
  <2>1. CASE HandleRequestError(t, "checkStarted", "DUMP_FAIL")
    BY <1>2, <2>1 DEF RequestCheckStarted, HandleRequestError, Goto, RequestPc, Replies,
                      lifeVars, registry, handlerVars
  <2>2. CASE ~HandleRequestError(t, "checkStarted", "DUMP_FAIL")
    BY Zenon, <1>2, <2>2 DEF RequestCheckStarted, Goto, RequestPc,
                      lifeVars, registry, handlerVars
  <2>. QED
    BY Zenon, <2>1, <2>2
<1>3. ASSUME NEW t \in Threads, RequestGetSum(t) PROVE TypeOK'
  <2>1. CASE HandleRequestError(t, "getSum", "DUMP_REQUEST_MAX")
    BY <1>3, <2>1 DEF RequestGetSum, Admission, HandleRequestError, Goto, RequestPc, Replies,
                      lifeVars, registry, handlerVars
  <2>2. CASE ~HandleRequestError(t, "getSum", "DUMP_REQUEST_MAX")
    BY Zenon, <1>3, <2>2 DEF RequestGetSum, Admission, Goto, RequestPc, lifeVars, registry, handlerVars
  <2>. QED
    BY Zenon, <2>1, <2>2
<1>4. ASSUME NEW t \in Threads, RequestLogInit(t) PROVE TypeOK'
  BY Zenon, <1>4 DEF RequestLogInit, Goto, RequestPc, lifeVars, registry, handlerVars
<1>5. ASSUME NEW t \in Threads, DelayUnloadRemove(t) PROVE TypeOK'
  BY Zenon, <1>5 DEF DelayUnloadRemove, Goto, RequestPc, lifeVars, registry
<1>6. ASSUME NEW t \in Threads, DelayUnloadPost(t) PROVE TypeOK'
  BY <1>6 DEF DelayUnloadPost, Goto, RequestPc, lifeVars, registry
<1>7. ASSUME NEW t \in Threads, AddRequestRawParam(t) PROVE TypeOK'
  <2>1. FindRequestId \in RequestIds
    BY Zenon, FindRequestIdIsFree
  <2>. QED
    BY Zenon, <1>7, <2>1 DEF AddRequestRawParam, Goto, RequestPc, lifeVars, handlerVars
<1>8. ASSUME NEW t \in Threads, CreateTmpFolder(t) PROVE TypeOK'
  <2>1. pc' \in [Threads -> RequestPc]
    BY ZenonT(60), <1>8 DEF CreateTmpFolder, Goto, RequestPc
  <2>2. tmpFolder' \in [RequestIds -> Threads \cup {Nobody, Stale}]
    BY Zenon, <1>8 DEF CreateTmpFolder
  <2>. QED
    BY Zenon, <1>8, <2>1, <2>2 DEF CreateTmpFolder, lifeVars, registry, handlerVars
<1>9. ASSUME NEW t \in Threads, RequestDump(t) PROVE TypeOK'
  BY ZenonT(60), <1>9 DEF RequestDump, Goto, RequestPc, lifeVars, registry, handlerVars
<1>10. ASSUME NEW t \in Threads, EraseTmpFolder(t) PROVE TypeOK'
  BY Zenon, <1>10 DEF EraseTmpFolder, Goto, RequestPc, lifeVars, registry, handlerVars
<1>11. ASSUME NEW t \in Threads, RequestCloseFd(t) PROVE TypeOK'
  BY <1>11 DEF RequestCloseFd, CloseOutputFd, Goto, RequestPc,
               lifeVars, registry, handlerVars
<1>12. ASSUME NEW t \in Threads, EraseRequestRawParam(t) PROVE TypeOK'
  BY Zenon, <1>12 DEF EraseRequestRawParam, Goto, RequestPc, lifeVars, handlerVars
<1>13. ASSUME NEW t \in Threads, RequestReturn(t) PROVE TypeOK'
  <2>1. 0 \in RequestIds
    BY BoundsAssumption DEF RequestIds
  <2>. QED
    BY <1>13, <2>1 DEF RequestReturn, CloseOutputFd, Goto, RequestPc, Replies,
                       lifeVars, registry, handlerVars
<1>14. CASE UnloadTaskCheck
  BY <1>14 DEF UnloadTaskCheck, lifeVars, registry, request
<1>15. CASE UnloadTaskCall
  BY Zenon, <1>15 DEF UnloadTaskCall, lifeVars, registry, request
<1>16. CASE LifeCycle
  <2>1. CASE OnStart
    BY Zenon, <2>1 DEF OnStart, registry, request, handlerVars
  <2>2. CASE OnStopBlock
    BY Zenon, <2>2 DEF OnStopBlock, registry, request, handlerVars
  <2>3. CASE CancelAllRequest
    BY Zenon, <2>3 DEF CancelAllRequest, registry, handlerVars
  <2>4. CASE OnStopPoll
    <3>1. stopWaited' \in 0 .. STOP_WAIT - 1
      BY <2>4, BoundsAssumption DEF OnStopPoll, PollTurn
    <3>. QED
      BY Zenon, <2>4, <3>1 DEF OnStopPoll, PollTurn, registry, request, handlerVars
  <2>5. CASE OnStopClearStarted
    BY Zenon, <2>5 DEF OnStopClearStarted, registry, request, handlerVars
  <2>6. CASE OnStopClearBlock
    <3>1. 0 \in 0 .. STOP_WAIT - 1
      BY BoundsAssumption
    <3>. QED
      BY Zenon, <2>6, <3>1 DEF OnStopClearBlock, registry, request, handlerVars
  <2>7. CASE OnIdleCheck
    BY Zenon, <2>7 DEF OnIdleCheck, registry, request, handlerVars
  <2>8. CASE OnIdleClearStarted
    BY Zenon, <2>8 DEF OnIdleClearStarted, registry, request, handlerVars
  <2>. QED
    BY Zenon, <1>16, <2>1, <2>2, <2>3, <2>4, <2>5, <2>6, <2>7, <2>8 DEF LifeCycle
<1>17. CASE ProcessDies
  <2>1. 0 \in RequestIds /\ 0 \in 0 .. STOP_WAIT - 1
    BY BoundsAssumption DEF RequestIds
  <2>. QED
    BY Zenon, <1>17, <2>1 DEF ProcessDies, RequestPc, Replies
<1>18. CASE UNCHANGED vars
  BY Zenon, <1>18 DEF vars, lifeVars, registry, request, handlerVars
<1>. QED
  BY Zenon, <1>1, <1>2, <1>3, <1>4, <1>5, <1>6, <1>7, <1>8, <1>9, <1>10, <1>11, <1>12, <1>13,
     <1>14, <1>15, <1>16, <1>17, <1>18 DEF Next, RequestStep

\* Every step keeps the map and the threads in agreement.  Only three actions
\* touch what the invariant talks about: the insertion relies on the id being
\* free, the erasure on the id being the thread's own.
LEMMA RegistryStep ==
    ASSUME TypeOK, RegistryAgrees, [Next]_vars
    PROVE  RegistryAgrees'
<1>. DEFINE Same == /\ UNCHANGED requestRawParamMap
                    /\ \A u \in Threads : InFlight(u)' = InFlight(u)
                    /\ \A u \in Threads : InFlight(u) => reqId'[u] = reqId[u]
<1>1. ASSUME Same PROVE RegistryAgrees'
  BY <1>1 DEF RegistryAgrees, TypeOK
<1>2. ASSUME NEW t \in Threads, RequestEnter(t) PROVE Same
  BY <1>2 DEF RequestEnter, InFlight, TypeOK, registry
<1>3. ASSUME NEW t \in Threads, RequestCheckStarted(t) PROVE Same
  BY <1>3 DEF RequestCheckStarted, HandleRequestError, Goto, InFlight, TypeOK, registry
<1>4. ASSUME NEW t \in Threads, RequestGetSum(t) PROVE Same
  BY <1>4 DEF RequestGetSum, Admission, HandleRequestError, Goto, InFlight, TypeOK, registry
<1>5. ASSUME NEW t \in Threads,
             RequestLogInit(t) \/ DelayUnloadRemove(t) \/ DelayUnloadPost(t)
      PROVE  Same
  BY <1>5 DEF RequestLogInit, DelayUnloadRemove, DelayUnloadPost, Goto, InFlight,
              TypeOK, registry
<1>6. ASSUME NEW t \in Threads,
             CreateTmpFolder(t) \/ RequestDump(t) \/ EraseTmpFolder(t) \/ RequestCloseFd(t)
      PROVE  Same
  BY <1>6 DEF CreateTmpFolder, RequestDump, EraseTmpFolder, RequestCloseFd, Goto, InFlight,
              TypeOK, registry
<1>7. ASSUME NEW t \in Threads, RequestReturn(t) PROVE Same
  BY <1>7 DEF RequestReturn, Goto, InFlight, TypeOK, registry
<1>8. ASSUME UnloadTaskCheck \/ UnloadTaskCall \/ LifeCycle \/ UNCHANGED vars PROVE Same
  BY Zenon, <1>8 DEF UnloadTaskCheck, UnloadTaskCall, LifeCycle, OnStart, OnStopBlock,
              CancelAllRequest, OnStopPoll, PollTurn, OnStopClearStarted, OnStopClearBlock,
              OnIdleCheck, OnIdleClearStarted, vars, request, registry, InFlight
<1>9. ASSUME NEW t \in Threads, AddRequestRawParam(t) PROVE RegistryAgrees'
  <2>. DEFINE i == FindRequestId
  <2>1. i \in RequestIds /\ requestRawParamMap[i] = Nobody
    BY Zenon, FindRequestIdIsFree
  <2>. HIDE DEF i
  <2>2. /\ requestRawParamMap' = [requestRawParamMap EXCEPT ![i] = t]
        /\ reqId' = [reqId EXCEPT ![t] = i]
        /\ pc[t] = "add"
        /\ pc' = [pc EXCEPT ![t] = "createTmp"]
    BY Zenon, <1>9, <2>1 DEF AddRequestRawParam, Goto, i, TypeOK
  <2>3. ~InFlight(t) /\ InFlight(t)'
    BY Zenon, <2>2 DEF InFlight, TypeOK
  <2>4. \A u \in Threads \ {t} : InFlight(u)' = InFlight(u) /\ reqId'[u] = reqId[u]
    BY Zenon, <2>2 DEF InFlight, TypeOK
  <2>5. ASSUME NEW u \in Threads, InFlight(u)' PROVE requestRawParamMap'[reqId'[u]] = u
    <3>1. CASE u = t
      BY Zenon, <2>1, <2>2, <3>1 DEF TypeOK
    <3>2. CASE u # t
      <4>1. requestRawParamMap[reqId[u]] = u /\ reqId[u] \in RequestIds
        BY Zenon, <2>4, <2>5, <3>2 DEF RegistryAgrees, TypeOK
      <4>2. reqId[u] # i
        BY Zenon, <4>1, <2>1, ThreadsAssumption
      <4>. QED
        BY Zenon, <2>2, <2>4, <3>2, <4>1, <4>2 DEF TypeOK
    <3>. QED
      BY Zenon, <3>1, <3>2
  <2>6. ASSUME NEW j \in RequestIds, requestRawParamMap'[j] # Nobody
        PROVE  \E u \in Threads :
                   requestRawParamMap'[j] = u /\ InFlight(u)' /\ reqId'[u] = j
    <3>1. CASE j = i
      BY Zenon, <2>1, <2>2, <2>3, <3>1 DEF TypeOK
    <3>2. CASE j # i
      <4>1. requestRawParamMap'[j] = requestRawParamMap[j]
        BY Zenon, <2>2, <3>2 DEF TypeOK
      <4>2. /\ requestRawParamMap[j] \in Threads
            /\ InFlight(requestRawParamMap[j])
            /\ reqId[requestRawParamMap[j]] = j
        BY <2>6, <4>1 DEF RegistryAgrees, TypeOK
      <4>. QED
        BY Zenon, <2>3, <2>4, <4>1, <4>2
    <3>. QED
      BY Zenon, <3>1, <3>2
  <2>. QED
    BY Zenon, <2>5, <2>6 DEF RegistryAgrees, InFlight
<1>10. ASSUME NEW t \in Threads, EraseRequestRawParam(t) PROVE RegistryAgrees'
  <2>1. /\ requestRawParamMap' = [requestRawParamMap EXCEPT ![reqId[t]] = Nobody]
        /\ UNCHANGED reqId
        /\ InFlight(t) /\ ~InFlight(t)'
        /\ \A u \in Threads \ {t} : InFlight(u)' = InFlight(u)
    BY Zenon, <1>10 DEF EraseRequestRawParam, Goto, InFlight, TypeOK
  <2>2. requestRawParamMap[reqId[t]] = t
    BY Zenon, <2>1 DEF RegistryAgrees
  <2>. QED
    BY <2>1, <2>2, ThreadsAssumption DEF RegistryAgrees, TypeOK
<1>11. ASSUME ProcessDies PROVE RegistryAgrees'
  BY Zenon, <1>11 DEF ProcessDies, RegistryAgrees, InFlight
<1>. QED
  BY Zenon, <1>1, <1>2, <1>3, <1>4, <1>5, <1>6, <1>7, <1>8, <1>9, <1>10, <1>11
     DEF Next, RequestStep

-----------------------------------------------------------------------------
(***************************************************************************)
(* The descriptor.                                                         *)
(***************************************************************************)

\* Where the descriptor is, at each point of Request.
Descriptors ==
    \A t \in Threads :
        /\ pc[t] \notin {"idle", "erase", "return"} => outfd[t] /\ closes[t] = 0
        /\ pc[t] \in {"erase", "return"} => ~outfd[t] /\ closes[t] = 1
        /\ pc[t] = "idle" => ~outfd[t] /\ closes[t] = IF reply[t] = "none" THEN 0 ELSE 1

\* Every step closes the descriptor of the request it ends, and no other.
LEMMA DescriptorsStep ==
    ASSUME TypeOK, Descriptors, [Next]_vars
    PROVE  Descriptors'
<1>. USE DEF TypeOK, Descriptors
<1>1. ASSUME NEW t \in Threads, RequestEnter(t) PROVE Descriptors'
  BY Zenon, <1>1 DEF RequestEnter
<1>2. ASSUME NEW t \in Threads, RequestCheckStarted(t) PROVE Descriptors'
  BY <1>2 DEF RequestCheckStarted, HandleRequestError, Goto
<1>3. ASSUME NEW t \in Threads, RequestGetSum(t) PROVE Descriptors'
  BY <1>3 DEF RequestGetSum, Admission, HandleRequestError, Goto
<1>4. ASSUME NEW t \in Threads,
             \/ RequestLogInit(t)
             \/ DelayUnloadRemove(t)
             \/ DelayUnloadPost(t)
             \/ AddRequestRawParam(t)
             \/ CreateTmpFolder(t)
             \/ RequestDump(t)
             \/ EraseTmpFolder(t)
      PROVE  Descriptors'
  <2>1. /\ UNCHANGED <<outfd, closes, reply>>
        /\ \E from, to \in RequestPc \ {"idle", "erase", "return"} : Goto(t, from, to)
    BY Zenon, <1>4 DEF RequestLogInit, DelayUnloadRemove, DelayUnloadPost, AddRequestRawParam,
                CreateTmpFolder, RequestDump, EraseTmpFolder, RequestPc
  <2>. QED
    BY SMTT(30), <2>1 DEF Goto
<1>5. ASSUME NEW t \in Threads, RequestCloseFd(t) PROVE Descriptors'
  BY <1>5 DEF RequestCloseFd, CloseOutputFd, Goto
<1>6. ASSUME NEW t \in Threads, EraseRequestRawParam(t) PROVE Descriptors'
  BY ZenonT(60), <1>6 DEF EraseRequestRawParam, Goto
<1>7. ASSUME NEW t \in Threads, RequestReturn(t) PROVE Descriptors'
  BY ZenonT(60), <1>7 DEF RequestReturn, CloseOutputFd, Goto
<1>8. CASE UnloadTaskCheck \/ UnloadTaskCall \/ LifeCycle \/ UNCHANGED vars
  <2>1. UNCHANGED <<pc, outfd, closes, reply>>
    BY Zenon, <1>8 DEF UnloadTaskCheck, UnloadTaskCall, LifeCycle, OnStart, OnStopBlock,
                CancelAllRequest, OnStopPoll, PollTurn, OnStopClearStarted, OnStopClearBlock,
                OnIdleCheck, OnIdleClearStarted, vars, request
  <2>. QED
    BY Zenon, <2>1
<1>9. CASE ProcessDies
  BY Zenon, <1>9 DEF ProcessDies
<1>. QED
  BY Zenon, <1>1, <1>2, <1>3, <1>4, <1>5, <1>6, <1>7, <1>8, <1>9 DEF Next, RequestStep

-----------------------------------------------------------------------------
(***************************************************************************)
(* The temporary folders.                                                  *)
(***************************************************************************)

\* A thread that is past the decision on DumpLogManager::Init.
Prepared(t) ==
    pc[t] \in {"removeTask", "postTask", "add", "createTmp", "dump", "eraseTmp",
               "bareDump", "bareErase", "closeFd", "erase"}

\* Once a request is prepared the files of dead processes are gone, and every
\* folder on the disk belongs to the request that dumps into it.
Folders ==
    /\ \A t \in Threads : Prepared(t) => \A i \in RequestIds : tmpFolder[i] # Stale
    /\ \A i \in RequestIds :
          tmpFolder[i] \in Threads =>
              UsesFolder(tmpFolder[i]) /\ reqId[tmpFolder[i]] = i

\* No two requests in flight have the same id.
LEMMA IdsDiffer ==
    ASSUME RegistryAgrees, NEW t \in Threads, NEW u \in Threads,
           InFlight(t), InFlight(u), reqId[t] = reqId[u]
    PROVE  t = u
  BY Zenon DEF RegistryAgrees

\* Every step keeps the relation between folders, their owners and the requests.
LEMMA FoldersStep ==
    ASSUME TypeOK, RegistryAgrees, Folders, [Next]_vars
    PROVE  Folders'
<1>. DEFINE Quiet == /\ UNCHANGED tmpFolder
                     /\ \A u \in Threads : Prepared(u)' => Prepared(u)
                     /\ \A u \in Threads : UsesFolder(u)' = UsesFolder(u)
                     /\ \A u \in Threads : UsesFolder(u) => reqId'[u] = reqId[u]
<1>1. ASSUME Quiet PROVE Folders'
  BY Zenon, <1>1 DEF Folders, TypeOK
<1>2. ASSUME NEW t \in Threads,
             \/ RequestEnter(t)
             \/ RequestCheckStarted(t)
      PROVE  Quiet
  BY <1>2 DEF RequestEnter, RequestCheckStarted, HandleRequestError, Goto,
              Prepared, UsesFolder, TypeOK
<1>3. ASSUME NEW t \in Threads,
             \/ DelayUnloadRemove(t)
             \/ DelayUnloadPost(t)
             \/ AddRequestRawParam(t)
             \/ RequestDump(t)
      PROVE  Quiet
  BY <1>3 DEF DelayUnloadRemove, DelayUnloadPost, AddRequestRawParam, RequestDump, Goto,
              Prepared, UsesFolder, TypeOK
<1>4. ASSUME NEW t \in Threads,
             \/ RequestCloseFd(t)
             \/ EraseRequestRawParam(t)
             \/ RequestReturn(t)
      PROVE  Quiet
  BY SMTT(30), <1>4 DEF RequestCloseFd, EraseRequestRawParam, RequestReturn, Goto,
              Prepared, UsesFolder, TypeOK
<1>5. ASSUME UnloadTaskCheck \/ UnloadTaskCall \/ LifeCycle \/ UNCHANGED vars
      PROVE  Quiet
  BY Zenon, <1>5 DEF UnloadTaskCheck, UnloadTaskCall, LifeCycle, OnStart, OnStopBlock,
              CancelAllRequest, OnStopPoll, PollTurn, OnStopClearStarted, OnStopClearBlock,
              OnIdleCheck, OnIdleClearStarted, vars, request, Prepared, UsesFolder
<1>6. ASSUME NEW t \in Threads, RequestGetSum(t) PROVE Folders'
  <2>1. CASE Registered = {}
    <3>1. Cardinality(Registered) = 0
      BY Zenon, <2>1, FS_EmptySet
    <3>2. Quiet
      BY <1>6, <3>1 DEF RequestGetSum, Admission, HandleRequestError, Goto,
                        Prepared, UsesFolder, TypeOK
    <3>. QED
      BY Zenon, <1>1, <3>2
  <2>2. CASE Registered # {}
    <3>1. PICK u \in Threads : InFlight(u)
      BY SMTT(30), <2>2 DEF Registered, RegistryAgrees, TypeOK
    <3>2. \A i \in RequestIds : tmpFolder[i] # Stale
      BY Zenon, <3>1 DEF Folders, Prepared, InFlight
    <3>3. /\ UNCHANGED <<tmpFolder, reqId>>
          /\ \A v \in Threads : UsesFolder(v)' = UsesFolder(v)
      BY SMTT(30), <1>6 DEF RequestGetSum, Admission, HandleRequestError, Goto, UsesFolder, TypeOK
    <3>. QED
      BY Zenon, <3>2, <3>3 DEF Folders, TypeOK
  <2>. QED
    BY Zenon, <2>1, <2>2
<1>7. ASSUME NEW t \in Threads, RequestLogInit(t) PROVE Folders'
  BY Zenon, <1>7, ThreadsAssumption DEF RequestLogInit, Folders
<1>8. ASSUME NEW t \in Threads, CreateTmpFolder(t) PROVE Folders'
  <2>1. CASE /\ Goto(t, "createTmp", "dump") /\ UNCHANGED reqId
             /\ tmpFolder' = [tmpFolder EXCEPT ![reqId[t]] = IF @ = Nobody THEN t ELSE @]
    <3>1. /\ tmpFolder' = [tmpFolder EXCEPT ![reqId[t]] = IF @ = Nobody THEN t ELSE @]
          /\ UNCHANGED reqId
          /\ InFlight(t) /\ Prepared(t) /\ ~UsesFolder(t) /\ UsesFolder(t)'
          /\ \A u \in Threads : Prepared(u)' => Prepared(u)
          /\ \A u \in Threads \ {t} : UsesFolder(u)' = UsesFolder(u)
      BY Zenon, <2>1 DEF Goto, InFlight, Prepared, UsesFolder, TypeOK
    <3>2. tmpFolder[reqId[t]] \notin Threads
      <4>1. SUFFICES ASSUME tmpFolder[reqId[t]] \in Threads PROVE FALSE
        BY Zenon
      <4>2. PICK u \in Threads : UsesFolder(u) /\ reqId[u] = reqId[t]
        BY Zenon, <4>1 DEF Folders, TypeOK
      <4>3. u = t
        BY Zenon, <3>1, <4>2, IdsDiffer DEF UsesFolder, InFlight
      <4>. QED
        BY Zenon, <3>1, <4>2, <4>3
    <3>3. tmpFolder[reqId[t]] = Nobody
      BY <3>1, <3>2 DEF Folders, TypeOK
    <3>4. tmpFolder' = [tmpFolder EXCEPT ![reqId[t]] = t]
      BY Zenon, <3>1, <3>3
    <3>. QED
      BY <3>1, <3>4, ThreadsAssumption DEF Folders, TypeOK
  <2>2. CASE Goto(t, "createTmp", "bareDump") /\ UNCHANGED <<tmpFolder, reqId>>
    <3>1. /\ \A u \in Threads : Prepared(u)' => Prepared(u)
          /\ \A u \in Threads : UsesFolder(u) => UsesFolder(u)'
      BY Zenon, <2>2 DEF Goto, Prepared, UsesFolder, TypeOK
    <3>. QED
      BY Zenon, <2>2, <3>1 DEF Folders, TypeOK
  <2>. QED
    BY Zenon, <1>8, <2>1, <2>2 DEF CreateTmpFolder
<1>9. ASSUME NEW t \in Threads, EraseTmpFolder(t) PROVE Folders'
  <2>1. /\ tmpFolder' = [tmpFolder EXCEPT ![reqId[t]] = Nobody]
        /\ UNCHANGED reqId
        /\ \A u \in Threads : Prepared(u)' => Prepared(u)
        /\ \A u \in Threads \ {t} : UsesFolder(u)' = UsesFolder(u)
    BY Zenon, <1>9 DEF EraseTmpFolder, Goto, Prepared, UsesFolder, TypeOK
  <2>. QED
    BY Zenon, <2>1, ThreadsAssumption DEF Folders, TypeOK
<1>10. ASSUME ProcessDies PROVE Folders'
  BY Zenon, <1>10, ThreadsAssumption DEF ProcessDies, Folders, Prepared
<1>. QED
  BY Zenon, <1>1, <1>2, <1>3, <1>4, <1>5, <1>6, <1>7, <1>8, <1>9, <1>10 DEF Next, RequestStep

-----------------------------------------------------------------------------
(***************************************************************************)
(* The invariant of every interleaving, and what follows from it.          *)
(***************************************************************************)

ServiceInv ==
    /\ TypeOK
    /\ RegistryAgrees
    /\ Descriptors
    /\ Folders

\* The service starts, with no request registered, in its invariant.
LEMMA ServiceInvInit == Init => ServiceInv
<1>. SUFFICES ASSUME Init PROVE ServiceInv
  BY Zenon
<1>1. 0 \in RequestIds /\ 0 \in 0 .. STOP_WAIT - 1
  BY BoundsAssumption DEF RequestIds
<1>2. TypeOK
  BY Zenon, <1>1 DEF Init, TypeOK, RequestPc, Replies
<1>4. RegistryAgrees
  BY Zenon DEF Init, RegistryAgrees, InFlight
<1>5. Descriptors
  BY Zenon DEF Init, Descriptors
<1>6. Folders
  BY Zenon, ThreadsAssumption DEF Init, Folders, Prepared
<1>. QED
  BY Zenon, <1>2, <1>4, <1>5, <1>6 DEF ServiceInv

\* All the parts of ServiceInv hold in every reachable state of the service.
THEOREM ServiceInvariance == Spec => []ServiceInv
<1>1. ServiceInv /\ [Next]_vars => ServiceInv'
  BY Zenon, TypeStep, RegistryStep, DescriptorsStep, FoldersStep DEF ServiceInv
<1>. QED
  BY <1>1, ServiceInvInit, PTL DEF Spec

\* Every variable of the service has its type: in particular request ids wrap
\* within REQUESTID_MAX and OnStop polls at most STOP_WAIT times.
THEOREM TypeCorrectness == Spec => []TypeOK
<1>1. ServiceInv => TypeOK
  BY Zenon DEF ServiceInv
<1>. QED
  BY <1>1, ServiceInvariance, PTL

\* For any number of IPC threads, requests in flight are registered under ids of
\* their own and every entry of the map belongs to a request in flight.
THEOREM RegistryTheorem == Spec => []RegistryAgrees
<1>1. ServiceInv => RegistryAgrees
  BY Zenon DEF ServiceInv
<1>. QED
  BY <1>1, ServiceInvariance, PTL

\* On every path through Request the descriptor is closed exactly once.
THEOREM DescriptorTheorem == Spec => []DescriptorClosedOnce
<1>1. ServiceInv => DescriptorClosedOnce
  <2>. SUFFICES ASSUME TypeOK, Descriptors PROVE DescriptorClosedOnce
    BY Zenon DEF ServiceInv
  <2>. QED
    BY DEF DescriptorClosedOnce, Descriptors, TypeOK
<1>. QED
  BY <1>1, ServiceInvariance, PTL

\* What the invariant says of the folder a dumping request finds.
LEMMA FolderIsOwn ==
    ASSUME ServiceInv, NEW t \in Threads, UsesFolder(t)
    PROVE  tmpFolder[reqId[t]] \in {t, Nobody}
<1>1. reqId[t] \in RequestIds /\ tmpFolder[reqId[t]] \in Threads \cup {Nobody, Stale}
  BY Zenon DEF ServiceInv, TypeOK
<1>2. tmpFolder[reqId[t]] # Stale
  BY Zenon, <1>1 DEF ServiceInv, Folders, Prepared, UsesFolder
<1>3. tmpFolder[reqId[t]] \in Threads => tmpFolder[reqId[t]] = t
  <2>. SUFFICES ASSUME NEW u \in Threads, tmpFolder[reqId[t]] = u PROVE u = t
    BY Zenon
  <2>1. UsesFolder(u) /\ reqId[u] = reqId[t]
    BY Zenon, <1>1 DEF ServiceInv, Folders
  <2>. QED
    BY Zenon, <2>1, IdsDiffer DEF ServiceInv, UsesFolder, InFlight
<1>. QED
  BY Zenon, <1>1, <1>2, <1>3

\* A request never finds files of another request, or of a process that was
\* killed, in its temporary folder.
THEOREM FolderTheorem == Spec => []FolderOwnOrWiped
<1>1. ServiceInv => FolderOwnOrWiped
  BY Zenon, FolderIsOwn DEF FolderOwnOrWiped
<1>. QED
  BY <1>1, ServiceInvariance, PTL

\* Only DumpLogManager::Init, run by another thread, takes the folder of a
\* request away while it dumps: EraseTmpFolder of another request has another id.
THEOREM OnlyInitWipesTheorem == Spec => OnlyInitWipes
<1>. DEFINE Wiped(t) == /\ UsesFolder(t)
                        /\ UsesFolder(t)'
                        /\ tmpFolder[reqId[t]] = t
                        /\ tmpFolder'[reqId[t]] # t
            ByInit(t) == \E u \in Threads \ {t} : pc[u] = "logInit" /\ pc'[u] = "removeTask"
<1>1. ASSUME ServiceInv, [Next]_vars, NEW t \in Threads, Wiped(t)
      PROVE  ByInit(t)
  <2>. USE DEF UsesFolder
  <2>1. /\ reqId[t] \in RequestIds
        /\ pc \in [Threads -> RequestPc]
        /\ tmpFolder \in [RequestIds -> Threads \cup {Nobody, Stale}]
    BY Zenon, <1>1 DEF ServiceInv, TypeOK
  <2>2. tmpFolder' # tmpFolder
    BY Zenon, <1>1
  <2>3. ~ProcessDies
    BY Zenon, <1>1 DEF ProcessDies
  <2>4. PICK u \in Threads : RequestLogInit(u) \/ CreateTmpFolder(u) \/ EraseTmpFolder(u)
    BY Zenon, <1>1, <2>2, <2>3
       DEF Next, RequestStep, RequestEnter, RequestCheckStarted, RequestGetSum, Admission,
           DelayUnloadRemove, DelayUnloadPost, AddRequestRawParam, RequestDump,
           RequestCloseFd, EraseRequestRawParam, RequestReturn, UnloadTaskCheck,
           UnloadTaskCall, LifeCycle, OnStart, OnStopBlock, CancelAllRequest, OnStopPoll, PollTurn,
           OnStopClearStarted, OnStopClearBlock, OnIdleCheck, OnIdleClearStarted, vars
  <2>5. CASE RequestLogInit(u)
    <3>1. pc[u] = "logInit" /\ pc' = [pc EXCEPT ![u] = "removeTask"]
      BY Zenon, <2>5 DEF RequestLogInit, Goto
    <3>2. u # t
      BY Zenon, <1>1, <3>1
    <3>. QED
      BY Zenon, <2>1, <3>1, <3>2
  <2>6. CASE CreateTmpFolder(u)
    <3>1. tmpFolder'[reqId[t]] = tmpFolder[reqId[t]]
      BY Zenon, <1>1, <2>1, <2>6, ThreadsAssumption DEF CreateTmpFolder
    <3>. QED
      BY Zenon, <1>1, <3>1
  <2>7. CASE EraseTmpFolder(u)
    <3>1. tmpFolder' = [tmpFolder EXCEPT ![reqId[u]] = Nobody]
          /\ pc[u] \in {"eraseTmp", "bareErase"} /\ pc' = [pc EXCEPT ![u] = "closeFd"]
      BY Zenon, <2>7 DEF EraseTmpFolder, Goto
    <3>2. reqId[u] = reqId[t]
      BY Zenon, <1>1, <2>1, <3>1
    <3>3. u = t
      BY Zenon, <1>1, <3>1, <3>2, IdsDiffer DEF ServiceInv, InFlight
    <3>. QED
      BY Zenon, <1>1, <2>1, <3>1, <3>3
  <2>. QED
    BY Zenon, <2>4, <2>5, <2>6, <2>7
<1>2. ServiceInv /\ [Next]_vars => [\A t \in Threads : Wiped(t) => ByInit(t)]_vars
  BY Zenon, <1>1
<1>. QED
  BY <1>2, ServiceInvariance, PTL DEF Spec, OnlyInitWipes

-----------------------------------------------------------------------------
(***************************************************************************)
(* Serial admission.  The sum a thread has read stays an upper bound until *)
(* the thread registers, because nobody else registers in between.         *)
(***************************************************************************)

SerialInv ==
    /\ ServiceInv
    /\ AdmissionSerial
    /\ RequestMaxKept
    /\ FolderIntact
    /\ \A t \in Threads : Admitting(t) => Cardinality(Registered) < REQUEST_MAX
    /\ \A t \in Threads : pc[t] = "logInit" => Registered = {}

\* The map of the service has finitely many entries, one per thread at most.
LEMMA RegisteredFinite ==
    /\ IsFiniteSet(Registered)
    /\ Cardinality(Registered) \in Nat
<1>1. IsFiniteSet(RequestIds)
  BY FS_Interval, BoundsAssumption DEF RequestIds
<1>2. Registered \in SUBSET RequestIds
  BY Zenon DEF Registered
<1>3. IsFiniteSet(Registered)
  BY Zenon, <1>1, <1>2, FS_Subset
<1>. QED
  BY Zenon, <1>3, FS_CardinalityType

\* The two conjuncts that count the map.
LEMMA SerialCountStep ==
    ASSUME SerialInv, [Next]_vars, AdmissionSerial'
    PROVE  /\ RequestMaxKept'
           /\ \A t \in Threads : Admitting(t)' => Cardinality(Registered)' < REQUEST_MAX
           /\ \A t \in Threads : pc'[t] = "logInit" => Registered' = {}
<1>. DEFINE Goal == /\ RequestMaxKept'
                    /\ \A t \in Threads : Admitting(t)' => Cardinality(Registered)' < REQUEST_MAX
                    /\ \A t \in Threads : pc'[t] = "logInit" => Registered' = {}
            Calm == /\ Registered' = Registered
                    /\ \A t \in Threads : Admitting(t)' => Admitting(t)
                    /\ \A t \in Threads : pc'[t] = "logInit" => pc[t] = "logInit"
<1>0. TypeOK
  BY Zenon DEF SerialInv, ServiceInv
<1>1. ASSUME Calm PROVE Goal
  BY Zenon, <1>1 DEF SerialInv, RequestMaxKept
<1>2. ASSUME NEW t \in Threads, RequestEnter(t) \/ RequestCheckStarted(t) PROVE Calm
  BY ZenonT(60), <1>0, <1>2 DEF RequestEnter, RequestCheckStarted, HandleRequestError, Goto, registry,
                    Registered, Admitting, TypeOK
<1>3. ASSUME NEW t \in Threads,
             RequestLogInit(t) \/ DelayUnloadRemove(t) \/ DelayUnloadPost(t)
      PROVE  Calm
  BY Zenon, <1>0, <1>3 DEF RequestLogInit, DelayUnloadRemove, DelayUnloadPost, Goto, registry,
                    Registered, Admitting, TypeOK
<1>4. ASSUME NEW t \in Threads,
             \/ CreateTmpFolder(t)
             \/ RequestDump(t)
             \/ EraseTmpFolder(t)
             \/ RequestCloseFd(t)
             \/ RequestReturn(t)
      PROVE  Calm
  BY <1>0, <1>4 DEF CreateTmpFolder, RequestDump, EraseTmpFolder, RequestCloseFd,
                    RequestReturn, Goto, registry, Registered, Admitting, TypeOK
<1>5. ASSUME UnloadTaskCheck \/ UnloadTaskCall \/ LifeCycle \/ UNCHANGED vars PROVE Calm
  BY Zenon, <1>5 DEF UnloadTaskCheck, UnloadTaskCall, LifeCycle, OnStart, OnStopBlock,
              CancelAllRequest, OnStopPoll, PollTurn, OnStopClearStarted, OnStopClearBlock,
              OnIdleCheck, OnIdleClearStarted, vars, request, registry, Registered, Admitting
<1>6. ASSUME NEW t \in Threads, RequestGetSum(t) PROVE Goal
  <2>1. Registered' = Registered
    BY Zenon, <1>6 DEF RequestGetSum, Admission, registry, Registered
  <2>2. CASE Cardinality(Registered) >= REQUEST_MAX
    <3>1. \A u \in Threads : /\ Admitting(u)' => Admitting(u)
                             /\ pc'[u] = "logInit" => pc[u] = "logInit"
      BY Zenon, <1>0, <1>6, <2>2, RegisteredFinite, BoundsAssumption
         DEF RequestGetSum, Admission, HandleRequestError, Goto, Admitting, TypeOK
    <3>. QED
      BY Zenon, <1>1, <2>1, <3>1
  <2>3. CASE ~(Cardinality(Registered) >= REQUEST_MAX)
    <3>1. Cardinality(Registered) < REQUEST_MAX
      BY <2>3, RegisteredFinite, BoundsAssumption
    <3>2. pc' = [pc EXCEPT ![t] =
                    IF Cardinality(Registered) = 0 THEN "logInit" ELSE "removeTask"]
      BY Zenon, <1>6, <2>3 DEF RequestGetSum, Admission, Goto
    <3>3. Cardinality(Registered) = 0 => Registered = {}
      BY Zenon, RegisteredFinite, FS_EmptySet
    <3>4. \A u \in Threads : pc'[u] = "logInit" => Registered' = {}
      BY Zenon, <1>0, <2>1, <3>2, <3>3 DEF TypeOK, SerialInv
    <3>. QED
      BY <2>1, <3>1, <3>4, RegisteredFinite, BoundsAssumption DEF RequestMaxKept
  <2>. QED
    BY Zenon, <2>2, <2>3
<1>7. ASSUME NEW t \in Threads, AddRequestRawParam(t) PROVE Goal
  <2>. DEFINE i == FindRequestId
  <2>1. i \in RequestIds /\ requestRawParamMap[i] = Nobody
    BY Zenon, FindRequestIdIsFree DEF SerialInv, ServiceInv
  <2>. HIDE DEF i
  <2>2. /\ requestRawParamMap' = [requestRawParamMap EXCEPT ![i] = t]
        /\ pc[t] = "add"
        /\ pc' = [pc EXCEPT ![t] = "createTmp"]
    BY Zenon, <1>7, <2>1 DEF AddRequestRawParam, Goto, i
  <2>3. Registered' = Registered \cup {i} /\ i \notin Registered
    BY <1>0, <2>1, <2>2, ThreadsAssumption DEF Registered, TypeOK
  <2>4. Cardinality(Registered)' = Cardinality(Registered) + 1
    BY Zenon, <2>3, RegisteredFinite, FS_AddElement
  <2>5. Cardinality(Registered) < REQUEST_MAX
    BY Zenon, <2>2 DEF SerialInv, Admitting
  <2>6. \A u \in Threads : ~Admitting(u)'
    BY Zenon, <1>0, <2>2 DEF SerialInv, AdmissionSerial, Admitting, TypeOK
  <2>7. \A u \in Threads : pc'[u] # "logInit"
    BY Zenon, <2>6 DEF Admitting
  <2>. QED
    BY <2>4, <2>5, <2>6, <2>7, RegisteredFinite, BoundsAssumption DEF RequestMaxKept
<1>8. ASSUME NEW t \in Threads, EraseRequestRawParam(t) PROVE Goal
  <2>1. /\ requestRawParamMap' = [requestRawParamMap EXCEPT ![reqId[t]] = Nobody]
        /\ \A u \in Threads : Admitting(u)' => Admitting(u)
        /\ \A u \in Threads : pc'[u] = "logInit" => pc[u] = "logInit"
    BY Zenon, <1>0, <1>8 DEF EraseRequestRawParam, Goto, Admitting, TypeOK
  <2>2. Registered' = Registered \ {reqId[t]}
    BY Zenon, <1>0, <2>1 DEF Registered, TypeOK
  <2>3. Cardinality(Registered)' <= Cardinality(Registered)
        /\ Cardinality(Registered)' \in Nat
    BY Zenon, <2>2, RegisteredFinite, FS_Subset, FS_CardinalityType
  <2>. QED
    BY SMTT(30), <2>1, <2>2, <2>3, RegisteredFinite, BoundsAssumption DEF SerialInv, RequestMaxKept
<1>9. ASSUME ProcessDies PROVE Goal
  <2>1. Registered' = {}
    BY Zenon, <1>9 DEF ProcessDies, Registered
  <2>2. Cardinality(Registered)' = 0
    BY Zenon, <2>1, FS_EmptySet
  <2>. QED
    BY <2>1, <2>2, BoundsAssumption DEF RequestMaxKept
<1>. QED
  BY Zenon, <1>1, <1>2, <1>3, <1>4, <1>5, <1>6, <1>7, <1>8, <1>9 DEF Next, RequestStep

\* The folders: Init runs only when nobody is registered, so nobody uses one.
LEMMA SerialFolderStep ==
    ASSUME SerialInv, [Next]_vars, FolderOwnOrWiped'
    PROVE  FolderIntact'
<1>. DEFINE Kept == /\ UNCHANGED tmpFolder
                    /\ \A u \in Threads : UsesFolder(u)' => UsesFolder(u)
                    /\ \A u \in Threads : UsesFolder(u)' => reqId'[u] = reqId[u]
<1>0. TypeOK /\ RegistryAgrees /\ Folders
  BY Zenon DEF SerialInv, ServiceInv
<1>1. ASSUME Kept PROVE FolderIntact'
  BY Zenon, <1>1 DEF SerialInv, FolderIntact
<1>2. ASSUME NEW t \in Threads,
             RequestEnter(t) \/ RequestCheckStarted(t) \/ RequestGetSum(t)
      PROVE  Kept
  BY Zenon, <1>0, <1>2 DEF RequestEnter, RequestCheckStarted, RequestGetSum, Admission, HandleRequestError,
                    Goto, UsesFolder, TypeOK
<1>3. ASSUME NEW t \in Threads,
             DelayUnloadRemove(t) \/ DelayUnloadPost(t) \/ AddRequestRawParam(t)
      PROVE  Kept
  BY Zenon, <1>0, <1>3 DEF DelayUnloadRemove, DelayUnloadPost, AddRequestRawParam, Goto,
                    UsesFolder, TypeOK
<1>4. ASSUME NEW t \in Threads,
             \/ RequestDump(t)
             \/ RequestCloseFd(t)
             \/ EraseRequestRawParam(t)
             \/ RequestReturn(t)
      PROVE  Kept
  BY Zenon, <1>0, <1>4 DEF RequestDump, RequestCloseFd, EraseRequestRawParam, RequestReturn, Goto,
                    UsesFolder, TypeOK
<1>5. ASSUME UnloadTaskCheck \/ UnloadTaskCall \/ LifeCycle \/ UNCHANGED vars PROVE Kept
  BY Zenon, <1>5 DEF UnloadTaskCheck, UnloadTaskCall, LifeCycle, OnStart, OnStopBlock,
              CancelAllRequest, OnStopPoll, PollTurn, OnStopClearStarted, OnStopClearBlock,
              OnIdleCheck, OnIdleClearStarted, vars, request, UsesFolder
<1>6. ASSUME NEW t \in Threads, RequestLogInit(t) PROVE FolderIntact'
  <2>1. /\ pc[t] = "logInit"
        /\ UNCHANGED reqId
        /\ \A u \in Threads : UsesFolder(u)' => UsesFolder(u)
    BY Zenon, <1>0, <1>6 DEF RequestLogInit, Goto, UsesFolder, TypeOK
  <2>2. Registered = {}
    BY Zenon, <2>1 DEF SerialInv
  <2>3. ASSUME NEW u \in Threads, InFlight(u) PROVE FALSE
    <3>1. reqId[u] \in RequestIds
      BY Zenon, <1>0 DEF TypeOK
    <3>2. requestRawParamMap[reqId[u]] = u
      BY Zenon, <1>0, <2>3 DEF RegistryAgrees
    <3>3. u # Nobody
      BY Zenon, ThreadsAssumption
    <3>4. reqId[u] \in Registered
      BY Zenon, <3>1, <3>2, <3>3 DEF Registered
    <3>. QED
      BY Zenon, <2>2, <3>4
  <2>4. \A u \in Threads : UsesFolder(u) => InFlight(u)
    BY Zenon DEF UsesFolder, InFlight
  <2>5. \A u \in Threads : ~UsesFolder(u)'
    BY Zenon, <2>1, <2>3, <2>4
  <2>. QED
    BY Zenon, <2>5 DEF FolderIntact
<1>7. ASSUME NEW t \in Threads, CreateTmpFolder(t) PROVE FolderIntact'
  <2>1. CASE /\ Goto(t, "createTmp", "dump") /\ UNCHANGED reqId
             /\ tmpFolder' = [tmpFolder EXCEPT ![reqId[t]] = IF @ = Nobody THEN t ELSE @]
    <3>1. /\ tmpFolder' = [tmpFolder EXCEPT ![reqId[t]] = IF @ = Nobody THEN t ELSE @]
          /\ UNCHANGED reqId
          /\ UsesFolder(t)'
          /\ \A u \in Threads \ {t} : UsesFolder(u)' = UsesFolder(u)
          /\ InFlight(t)
      BY Zenon, <1>0, <2>1 DEF Goto, UsesFolder, InFlight, TypeOK
    <3>2. tmpFolder'[reqId[t]] \in {t, Nobody}
      BY Zenon, <3>1 DEF FolderOwnOrWiped
    <3>3. tmpFolder'[reqId[t]] = t
      BY Zenon, <1>0, <3>1, <3>2, ThreadsAssumption DEF TypeOK
    <3>4. ASSUME NEW u \in Threads \ {t}, UsesFolder(u) PROVE tmpFolder'[reqId[u]] = u
      <4>1. reqId[u] # reqId[t]
        BY Zenon, <1>0, <3>1, <3>4, IdsDiffer DEF UsesFolder, InFlight
      <4>. QED
        BY Zenon, <1>0, <3>1, <3>4, <4>1 DEF SerialInv, FolderIntact, TypeOK
    <3>. QED
      BY Zenon, <3>1, <3>3, <3>4 DEF FolderIntact
  <2>2. CASE Goto(t, "createTmp", "bareDump") /\ UNCHANGED <<tmpFolder, reqId>>
    <3>1. \A u \in Threads : UsesFolder(u)' => UsesFolder(u)
      BY Zenon, <1>0, <2>2 DEF Goto, UsesFolder, TypeOK
    <3>. QED
      BY Zenon, <1>1, <2>2, <3>1
  <2>. QED
    BY Zenon, <1>7, <2>1, <2>2 DEF CreateTmpFolder
<1>8. ASSUME NEW t \in Threads, EraseTmpFolder(t) PROVE FolderIntact'
  <2>1. /\ tmpFolder' = [tmpFolder EXCEPT ![reqId[t]] = Nobody]
        /\ UNCHANGED reqId
        /\ ~UsesFolder(t)'
        /\ InFlight(t)
        /\ \A u \in Threads \ {t} : UsesFolder(u)' = UsesFolder(u)
    BY Zenon, <1>0, <1>8 DEF EraseTmpFolder, Goto, UsesFolder, InFlight, TypeOK
  <2>2. ASSUME NEW u \in Threads \ {t}, UsesFolder(u) PROVE tmpFolder'[reqId[u]] = u
    <3>1. reqId[u] # reqId[t]
      BY Zenon, <1>0, <2>1, <2>2, IdsDiffer DEF UsesFolder, InFlight
    <3>. QED
      BY Zenon, <1>0, <2>1, <2>2, <3>1 DEF SerialInv, FolderIntact, TypeOK
  <2>. QED
    BY Zenon, <2>1, <2>2 DEF FolderIntact
<1>9. ASSUME ProcessDies PROVE FolderIntact'
  BY Zenon, <1>9 DEF ProcessDies, FolderIntact, UsesFolder
<1>. QED
  BY Zenon, <1>1, <1>2, <1>3, <1>4, <1>5, <1>6, <1>7, <1>8, <1>9 DEF Next, RequestStep

\* The strengthened invariant for serial admission holds at the start.
LEMMA SerialInvInit == Init => SerialInv
<1>. SUFFICES ASSUME Init PROVE SerialInv
  BY Zenon
<1>1. ServiceInv
  BY Zenon, ServiceInvInit
<1>2. Registered = {} /\ Cardinality(Registered) = 0
  BY Zenon, FS_EmptySet DEF Init, Registered
<1>3. \A t \in Threads : pc[t] = "idle"
  BY Zenon DEF Init
<1>. QED
  BY <1>1, <1>2, <1>3, BoundsAssumption
     DEF SerialInv, AdmissionSerial, RequestMaxKept, FolderIntact, Admitting, UsesFolder

\* While no two requests are admitted at the same time, SerialInv holds.
THEOREM SerialInvariance == Spec /\ []AdmissionSerial => []SerialInv
<1>0. (ServiceInv => FolderOwnOrWiped)'
  <2>1. ServiceInv => FolderOwnOrWiped
    BY Zenon, FolderIsOwn DEF FolderOwnOrWiped
  <2>. QED
    BY <2>1, PTL
<1>1. SerialInv /\ [Next]_vars /\ AdmissionSerial' => SerialInv'
  <2>. SUFFICES ASSUME SerialInv, [Next]_vars, AdmissionSerial' PROVE SerialInv'
    BY Zenon
  <2>3. ServiceInv'
    BY Zenon, TypeStep, RegistryStep, DescriptorsStep, FoldersStep
       DEF SerialInv, ServiceInv
  <2>4. FolderIntact'
    BY Zenon, <1>0, <2>3, SerialFolderStep
  <2>5. /\ RequestMaxKept'
        /\ \A t \in Threads : Admitting(t)' => Cardinality(Registered)' < REQUEST_MAX
        /\ \A t \in Threads : pc'[t] = "logInit" => Registered' = {}
    BY Zenon, SerialCountStep
  <2>. QED
    BY Zenon, <2>3, <2>4, <2>5 DEF SerialInv
<1>. QED
  BY <1>1, SerialInvInit, PTL DEF Spec

\* At most REQUEST_MAX requests run and none of them loses its temporary
\* folder, whatever REQUEST_MAX and however many IPC threads there are, as long
\* as no two are admitted at the same time.
THEOREM SerialAdmissionTheorem == Spec => SerialAdmissionSafe
<1>1. SerialInv => RequestMaxKept /\ FolderIntact
  BY Zenon DEF SerialInv
<1>. QED
  BY <1>1, SerialInvariance, PTL DEF SerialAdmissionSafe

-----------------------------------------------------------------------------
(***************************************************************************)
(* The service implements RequestRegistry.                                 *)
(***************************************************************************)

\* Every step of the service is a step of RequestRegistry or changes nothing
\* that a caller can see.
LEMMA RegistryRefinementStep ==
    ASSUME ServiceInv, [Next]_vars
    PROVE  [Registry!Next]_(Registry!vars)
<1>. DEFINE ph == [u \in Threads |-> Phase(u)]
            rid == [u \in Threads |-> IF InFlight(u) THEN reqId[u] ELSE Nobody]
            Hidden == /\ UNCHANGED outfd
                      /\ \A u \in Threads : Phase(u)' = Phase(u)
                      /\ \A u \in Threads : InFlight(u)' = InFlight(u)
                      /\ \A u \in Threads : InFlight(u) => reqId'[u] = reqId[u]
<1>0. TypeOK /\ RegistryAgrees /\ Descriptors
  BY Zenon DEF ServiceInv
<1>1. ASSUME Hidden PROVE UNCHANGED Registry!vars
  <2>1. ph' = ph /\ rid' = rid
    BY Zenon, <1>1
  <2>. QED
    BY Zenon, <1>1, <2>1 DEF Registry!vars
<1>2. ASSUME NEW t \in Threads, RequestEnter(t)
      PROVE  Hidden \/ Registry!Call(t)
  <2>1. CASE blockRequest
    <3>1. outfd' = outfd
      BY ZenonT(60), <1>0, <1>2, <2>1 DEF RequestEnter, Descriptors, TypeOK
    <3>2. pc' = pc /\ reqId' = reqId
      BY Zenon, <1>0, <1>2, <2>1 DEF RequestEnter, TypeOK
    <3>. QED
      BY Zenon, <3>1, <3>2 DEF Phase, InFlight
  <2>2. CASE ~blockRequest
    <3>1. /\ pc[t] = "idle"
          /\ pc' = [pc EXCEPT ![t] = "checkStarted"]
          /\ outfd' = [outfd EXCEPT ![t] = TRUE]
          /\ reqId' = reqId
      BY Zenon, <1>0, <1>2, <2>2 DEF RequestEnter, TypeOK
    <3>2. ph' = [ph EXCEPT ![t] = "waiting"] /\ ph[t] = "none"
      BY Zenon, <1>0, <3>1 DEF Phase, InFlight, TypeOK
    <3>3. rid' = rid
      BY Zenon, <1>0, <3>1 DEF InFlight, TypeOK
    <3>. QED
      BY Zenon, <3>1, <3>2, <3>3 DEF Registry!Call
  <2>. QED
    BY Zenon, <1>0, <2>1, <2>2 DEF TypeOK
<1>3. ASSUME NEW t \in Threads, NEW from \in {"checkStarted", "getSum"}, NEW code,
             HandleRequestError(t, from, code)
      PROVE  Registry!Refuse(t)
  <2>1. /\ pc[t] = from
        /\ pc' = [pc EXCEPT ![t] = "idle"]
        /\ outfd' = [outfd EXCEPT ![t] = FALSE]
        /\ reqId' = reqId
    BY Zenon, <1>3 DEF HandleRequestError, Goto
  <2>2. ph' = [ph EXCEPT ![t] = "none"] /\ ph[t] = "waiting"
    BY Zenon, <1>0, <2>1 DEF Phase, InFlight, TypeOK
  <2>3. rid' = rid
    BY Zenon, <1>0, <2>1 DEF InFlight, TypeOK
  <2>. QED
    BY Zenon, <2>1, <2>2, <2>3 DEF Registry!Refuse
<1>4. ASSUME NEW t \in Threads, RequestCheckStarted(t)
      PROVE  Hidden \/ Registry!Refuse(t)
  <2>1. CASE HandleRequestError(t, "checkStarted", "DUMP_FAIL")
    BY Zenon, <1>3, <2>1
  <2>2. CASE ~HandleRequestError(t, "checkStarted", "DUMP_FAIL")
    BY SMTT(30), <1>0, <1>4, <2>2 DEF RequestCheckStarted, Goto, Phase, InFlight, TypeOK
  <2>. QED
    BY Zenon, <2>1, <2>2
<1>5. ASSUME NEW t \in Threads, RequestGetSum(t)
      PROVE  Hidden \/ Registry!Refuse(t)
  <2>1. CASE HandleRequestError(t, "getSum", "DUMP_REQUEST_MAX")
    BY Zenon, <1>3, <2>1
  <2>2. CASE ~HandleRequestError(t, "getSum", "DUMP_REQUEST_MAX")
    BY SMTT(30), <1>0, <1>5, <2>2 DEF RequestGetSum, Admission, Goto, Phase, InFlight, TypeOK
  <2>. QED
    BY Zenon, <2>1, <2>2
<1>6. ASSUME NEW t \in Threads,
             RequestLogInit(t) \/ DelayUnloadRemove(t) \/ DelayUnloadPost(t)
      PROVE  Hidden
  BY <1>0, <1>6 DEF RequestLogInit, DelayUnloadRemove, DelayUnloadPost, Goto, Phase,
                    InFlight, TypeOK
<1>7. ASSUME NEW t \in Threads, CreateTmpFolder(t) \/ RequestDump(t) \/ EraseTmpFolder(t)
      PROVE  Hidden
  BY <1>0, <1>7 DEF CreateTmpFolder, RequestDump, EraseTmpFolder, Goto, Phase, InFlight, TypeOK
<1>8. ASSUME NEW t \in Threads, AddRequestRawParam(t) PROVE Registry!Admit(t)
  <2>. DEFINE i == FindRequestId
  <2>1. i \in RequestIds /\ requestRawParamMap[i] = Nobody
    BY Zenon, <1>0, FindRequestIdIsFree
  <2>. HIDE DEF i
  <2>2. /\ reqId' = [reqId EXCEPT ![t] = i]
        /\ pc[t] = "add"
        /\ pc' = [pc EXCEPT ![t] = "createTmp"]
        /\ outfd' = outfd
    BY Zenon, <1>8 DEF AddRequestRawParam, Goto, i
  <2>3. ph' = [ph EXCEPT ![t] = "served"] /\ ph[t] = "waiting"
    BY Zenon, <1>0, <2>2 DEF Phase, InFlight, TypeOK
  <2>4. rid' = [rid EXCEPT ![t] = i]
    BY Zenon, <1>0, <2>2 DEF InFlight, TypeOK
  <2>5. i \notin {rid[u] : u \in Threads}
    <3>1. i # Nobody
      BY <2>1, ThreadsAssumption, BoundsAssumption DEF RequestIds
    <3>2. \A u \in Threads : InFlight(u) => reqId[u] # i
      BY <1>0, <2>1, ThreadsAssumption DEF RegistryAgrees
    <3>. QED
      BY Zenon, <3>1, <3>2
  <2>. HIDE DEF rid, ph
  <2>6. \E j \in RequestIds \ {rid[u] : u \in Threads} : rid' = [rid EXCEPT ![t] = j]
    BY ZenonT(60), <2>1, <2>4, <2>5
  <2>. QED
    BY Zenon, <2>2, <2>3, <2>6 DEF Registry!Admit, ph, rid
<1>9. ASSUME NEW t \in Threads, RequestCloseFd(t) PROVE Registry!CloseDescriptor(t)
  <2>1. /\ pc[t] = "closeFd"
        /\ pc' = [pc EXCEPT ![t] = "erase"]
        /\ outfd' = [outfd EXCEPT ![t] = FALSE]
        /\ reqId' = reqId
    BY Zenon, <1>9 DEF RequestCloseFd, CloseOutputFd, Goto
  <2>2. ph' = ph /\ ph[t] = "served"
    BY Zenon, <1>0, <2>1 DEF Phase, InFlight, TypeOK
  <2>3. rid' = rid
    BY Zenon, <1>0, <2>1 DEF InFlight, TypeOK
  <2>4. outfd[t]
    BY Zenon, <1>0, <2>1 DEF Descriptors
  <2>. QED
    BY Zenon, <2>1, <2>2, <2>3, <2>4 DEF Registry!CloseDescriptor
<1>10. ASSUME NEW t \in Threads, EraseRequestRawParam(t) PROVE Registry!Release(t)
  <2>1. /\ pc[t] = "erase"
        /\ pc' = [pc EXCEPT ![t] = "return"]
        /\ UNCHANGED <<outfd, reqId>>
    BY Zenon, <1>10 DEF EraseRequestRawParam, Goto
  <2>2. ph' = [ph EXCEPT ![t] = "none"] /\ ph[t] = "served"
    BY Zenon, <1>0, <2>1 DEF Phase, InFlight, TypeOK
  <2>3. rid' = [rid EXCEPT ![t] = Nobody]
    BY ZenonT(60), <1>0, <2>1 DEF InFlight, TypeOK
  <2>4. ~outfd[t]
    BY Zenon, <1>0, <2>1 DEF Descriptors
  <2>. QED
    BY Zenon, <2>1, <2>2, <2>3, <2>4 DEF Registry!Release
<1>11. ASSUME NEW t \in Threads, RequestReturn(t) PROVE Hidden
  <2>1. pc[t] = "return" /\ ~outfd[t]
    BY Zenon, <1>0, <1>11 DEF RequestReturn, Goto, Descriptors
  <2>2. outfd' = outfd
    BY Zenon, <1>0, <1>11, <2>1 DEF RequestReturn, CloseOutputFd, TypeOK
  <2>. QED
    BY SMTT(30), <1>0, <1>11, <2>2 DEF RequestReturn, Goto, Phase, InFlight, TypeOK
<1>12. ASSUME UnloadTaskCheck \/ UnloadTaskCall \/ LifeCycle \/ UNCHANGED vars PROVE Hidden
  BY Zenon, <1>12 DEF UnloadTaskCheck, UnloadTaskCall, LifeCycle, OnStart, OnStopBlock,
               CancelAllRequest, OnStopPoll, PollTurn, OnStopClearStarted, OnStopClearBlock,
               OnIdleCheck, OnIdleClearStarted, vars, request, Phase, InFlight
<1>13. ASSUME ProcessDies PROVE Registry!ServiceDies
  BY Zenon, <1>13 DEF ProcessDies, Registry!ServiceDies, Phase, InFlight
<1>. QED
  BY Zenon, <1>1, <1>2, <1>4, <1>5, <1>6, <1>7, <1>8, <1>9, <1>10, <1>11, <1>12, <1>13
     DEF Next, RequestStep, Registry!Next

\* DumpManagerService implements RequestRegistry, for every number of threads:
\* callers are served under ids of their own, and an id is free again only after
\* the descriptor of its request was closed.
THEOREM RegistryRefinement == Spec => ImplementsRegistry
<1>1. Init => Registry!Init
  BY Zenon DEF Init, Registry!Init, Phase, InFlight
<1>2. ServiceInv /\ [Next]_vars => [Registry!Next]_(Registry!vars)
  BY Zenon, RegistryRefinementStep
<1>. QED
  BY <1>1, <1>2, ServiceInvariance, PTL DEF Spec, ImplementsRegistry, Registry!Spec

=============================================================================
