------------------------- MODULE TaskControlProofs --------------------------
(***************************************************************************)
(* The order of tasks and the life of their data, proved of TaskControl    *)
(* for every registry, every configuration and any number of requests.     *)
(* DependenciesFirst and DataKept are not inductive: what makes a selected *)
(* task safe is what the passes of SelectRunnableTasks have left of its    *)
(* dependencies, and what the tasks that still wait need of the data.      *)
(***************************************************************************)
EXTENDS TaskControl, TLAPS

Settled   == {"none", "ok", "fail"}
InProcess == {"first", "retry", "reset", "read", "store"}

\* The variables of ExecuteTask have an entry for each request.
Shape ==
    /\ pc \in [Requests -> {"idle", "scan", "run"}]
    /\ mode \in [Requests -> {"verify", "execute"}]
    /\ runnable \in [Requests -> SUBSET Tasks]
    /\ stage \in [Requests -> [Tasks -> Settled \cup InProcess]]
    /\ DOMAIN taskTopo = Requests /\ DOMAIN tasks = Requests /\ DOMAIN scan = Requests
    /\ DOMAIN data = Requests /\ DOMAIN injected = Requests

\* What a selected or waiting task of request r may still wait for.
Awaited(r) == IF pc[r] = "run" THEN runnable[r] ELSE {}

\* The passes: in the execution, a dependency that a waiting task no longer
\* waits for is finished or runs in the present level, and a selected task
\* has no dependency left that is not finished.
OrderInv(r) ==
    /\ pc[r] # "run" => \A t \in Tasks : stage[r][t] \in Settled
    /\ pc[r] = "run" => mode[r] = "execute"
    /\ pc[r] = "run" => \A t \in Tasks : stage[r][t] \in InProcess => t \in runnable[r]
    /\ pc[r] = "scan" => scan[r] \subseteq DOMAIN tasks[r]
    /\ pc[r] = "scan" /\ mode[r] = "verify" => \A t \in Tasks : stage[r][t] = "none"
    /\ pc[r] # "idle" /\ mode[r] = "execute" =>
          \A t \in DOMAIN tasks[r] :
             /\ taskTopo[r][t] \subseteq tasks[r][t] \cup Finished(r) \cup Awaited(r)
             /\ t \notin runnable[r]
             /\ t \in Tasks => stage[r][t] = "none"
    /\ pc[r] = "scan" /\ mode[r] = "execute" =>
          \A t \in runnable[r] : stage[r][t] = "none" /\ taskTopo[r][t] \subseteq Finished(r)
    /\ \A t \in Started(r) : taskTopo[r][t] \subseteq Finished(r)

\* The inventory: what was injected and a task that waits or is selected
\* declares is held.
Keeps(r, t) == injected[r] \cap dataDependency[t] \subseteq data[r]

DataInv(r) ==
    /\ pc[r] = "scan" /\ mode[r] = "verify" => injected[r] = {}
    /\ pc[r] # "idle" /\ mode[r] = "execute" => \A t \in DOMAIN tasks[r] : Keeps(r, t)
    /\ pc[r] = "scan" => \A t \in runnable[r] : Keeps(r, t)
    /\ \A t \in Tasks : stage[r][t] \in {"first", "retry"} => Keeps(r, t)

IInv == Shape /\ \A r \in Requests : OrderInv(r) /\ DataInv(r)

Untouched(q) ==
    /\ pc'[q] = pc[q] /\ mode'[q] = mode[q] /\ runnable'[q] = runnable[q]
    /\ stage'[q] = stage[q] /\ taskTopo'[q] = taskTopo[q] /\ tasks'[q] = tasks[q]
    /\ scan'[q] = scan[q] /\ data'[q] = data[q] /\ injected'[q] = injected[q]

\* A request that a step leaves alone keeps its part of the invariant.
LEMMA UntouchedKeeps ==
    ASSUME NEW q, OrderInv(q), DataInv(q), Untouched(q)
    PROVE  OrderInv(q)' /\ DataInv(q)'
  BY SMTT(30) DEF OrderInv, DataInv, Untouched, Keeps, Awaited, Finished, Started

\* Before the first request nothing runs and nothing is selected.
LEMMA InitIInv == Init => IInv
  BY DEF Init, IInv, Shape, OrderInv, DataInv, Keeps, Awaited, Finished, Started, Settled, InProcess

\* The head of ExecuteTask resets the request.
LEMMA ExecuteTaskKeeps ==
    ASSUME IInv, NEW r \in Requests, ExecuteTask(r)
    PROVE  IInv'
<1>1. Shape'
  BY ZenonT(60) DEF IInv, Shape, ExecuteTask, Return, Settled, InProcess
<1>2. \A q \in Requests \ {r} : Untouched(q)
  BY DEF IInv, Shape, ExecuteTask, Return, Untouched
<1>3. /\ \A t \in Tasks : stage'[r][t] = "none"
      /\ mode'[r] = "verify" /\ pc'[r] \in {"idle", "scan"} /\ runnable'[r] = {}
      /\ injected'[r] = {} /\ (pc'[r] = "scan" => scan'[r] = DOMAIN tasks'[r])
  BY DEF IInv, Shape, ExecuteTask, Return
<1>4. OrderInv(r)' /\ DataInv(r)'
  BY Zenon, <1>3 DEF OrderInv, DataInv, Keeps, Started, Finished, Settled, InProcess
<1>. QED
  BY Zenon, <1>1, <1>2, <1>4, UntouchedKeeps DEF IInv

\* A turn of SelectRunnableTasks: a task is selected when nothing is left of
\* its dependencies, which in the execution means they are finished.
LEMMA VisitTaskKeeps ==
    ASSUME IInv, NEW r \in Requests, NEW t \in Tasks, VisitTask(r, t)
    PROVE  IInv'
<1>1. Shape'
  BY DEF IInv, Shape, VisitTask, Without, work
<1>2. \A q \in Requests \ {r} : Untouched(q)
  BY Zenon DEF IInv, Shape, VisitTask, work, Untouched
<1>3. /\ pc[r] = "scan" /\ pc'[r] = "scan" /\ mode'[r] = mode[r] /\ stage' = stage
      /\ taskTopo' = taskTopo /\ data' = data /\ injected' = injected
      /\ t \in scan[r] /\ scan'[r] = scan[r] \ {t}
  BY Zenon DEF IInv, Shape, VisitTask, work
<1>4. OrderInv(r) /\ DataInv(r)
  BY Zenon DEF IInv
<1>5. t \in DOMAIN tasks[r]
  BY Zenon, <1>3, <1>4 DEF OrderInv
<1>6. CASE tasks' = [tasks EXCEPT ![r] = Without(@, t)] /\ runnable'[r] = runnable[r]
  <2>1. /\ DOMAIN tasks'[r] = DOMAIN tasks[r] \ {t}
        /\ \A u \in DOMAIN tasks'[r] : tasks'[r][u] = tasks[r][u]
    BY Zenon, <1>6 DEF IInv, Shape, Without
  <2>2. OrderInv(r)'
    BY SMTT(30), <1>3, <1>4, <1>6, <2>1 DEF OrderInv, Awaited, Finished, Started
  <2>3. DataInv(r)'
    BY Zenon, <1>3, <1>4, <1>6, <2>1 DEF DataInv, Keeps
  <2>. QED  BY <2>2, <2>3, <1>1, <1>2, UntouchedKeeps DEF IInv
<1>7. CASE /\ NoDependencyLeft(r, t) /\ tasks' = [tasks EXCEPT ![r] = Without(@, t)]
           /\ runnable'[r] = runnable[r] \cup {t}
  <2>1. /\ DOMAIN tasks'[r] = DOMAIN tasks[r] \ {t}
        /\ \A u \in DOMAIN tasks'[r] : tasks'[r][u] = tasks[r][u]
    BY Zenon, <1>7 DEF IInv, Shape, Without
  <2>2. mode[r] = "execute" => stage[r][t] = "none" /\ taskTopo[r][t] \subseteq Finished(r)
    BY Zenon, <1>3, <1>4, <1>5, <1>7 DEF OrderInv, Awaited, NoDependencyLeft
  <2>3. OrderInv(r)'
    BY <1>3, <1>4, <1>7, <2>1, <2>2 DEF OrderInv, Awaited, Finished, Started
  <2>4. Keeps(r, t)
    BY Zenon, <1>3, <1>4, <1>5 DEF DataInv, Keeps, IInv, Shape
  <2>5. DataInv(r)'
    BY Zenon, <1>3, <1>4, <1>7, <2>1, <2>4 DEF DataInv, Keeps
  <2>. QED  BY <2>3, <2>5, <1>1, <1>2, UntouchedKeeps DEF IInv
<1>8. CASE tasks' = tasks /\ runnable' = runnable
  <2>1. OrderInv(r)'
    BY ZenonT(60), <1>3, <1>4, <1>8 DEF OrderInv, Awaited, Finished, Started
  <2>2. DataInv(r)'
    BY Zenon, <1>3, <1>4, <1>8 DEF DataInv, Keeps
  <2>. QED  BY <2>1, <2>2, <1>1, <1>2, UntouchedKeeps DEF IInv
<1>. QED
  BY Zenon, <1>6, <1>7, <1>8 DEF VisitTask, IInv, Shape

\* The verification runs nothing and injects nothing.
LEMMA VerificationKeeps ==
    ASSUME IInv, NEW r \in Requests, VerifyPass(r) \/ VerifyFailed(r) \/ Verified(r)
    PROVE  IInv'
<1>1. Shape'
  <2>1. CASE VerifyPass(r)
    BY Zenon, <2>1 DEF IInv, Shape, VerifyPass, work
  <2>2. CASE VerifyFailed(r)
    BY Zenon, <2>2 DEF IInv, Shape, VerifyFailed, Return, work
  <2>3. CASE Verified(r)
    BY Zenon, <2>3 DEF IInv, Shape, Verified, work
  <2>. QED  BY <2>1, <2>2, <2>3
<1>2. \A q \in Requests \ {r} : Untouched(q)
  BY ZenonT(60) DEF IInv, Shape, VerifyPass, VerifyFailed, Verified, Return, work, Untouched
<1>3. /\ pc[r] = "scan" /\ mode[r] = "verify" /\ stage' = stage
      /\ injected' = injected /\ data' = data /\ taskTopo' = taskTopo
      /\ runnable'[r] = {}
  BY Zenon DEF IInv, Shape, VerifyPass, VerifyFailed, Verified, PassDone, work
<1>4. OrderInv(r) /\ DataInv(r)
  BY Zenon DEF IInv
<1>5. (\A t \in Tasks : stage[r][t] = "none") /\ injected[r] = {}
  BY Zenon, <1>3, <1>4 DEF OrderInv, DataInv
<1>6. \/ pc'[r] = "scan" /\ mode'[r] = "verify" /\ scan'[r] \subseteq DOMAIN tasks'[r]
      \/ pc'[r] = "idle"
      \/ /\ pc'[r] = "scan" /\ mode'[r] = "execute"
         /\ tasks'[r] = taskTopo[r] /\ scan'[r] = DOMAIN tasks'[r]
  BY <1>3 DEF IInv, Shape, VerifyPass, VerifyFailed, Verified, Return, UpdateTaskDependencies
<1>7. OrderInv(r)'
  BY Zenon, <1>3, <1>5, <1>6 DEF OrderInv, Awaited, Finished, Started, Settled, InProcess
<1>8. DataInv(r)'
  BY Zenon, <1>3, <1>5, <1>6 DEF DataInv, Keeps
<1>. QED
  BY Zenon, <1>1, <1>2, <1>7, <1>8, UntouchedKeeps DEF IInv

\* The selected tasks start together, and what waits for one of them goes on
\* waiting until the level is over.
LEMMA SubmitKeeps ==
    ASSUME IInv, NEW r \in Requests, SubmitRunnableTasks(r)
    PROVE  IInv'
<1>1. Shape'
  BY ZenonT(60) DEF IInv, Shape, SubmitRunnableTasks, InProcess
<1>2. \A q \in Requests \ {r} : Untouched(q)
  BY Zenon DEF IInv, Shape, SubmitRunnableTasks, Untouched
<1>3. /\ pc[r] = "scan" /\ pc'[r] = "run" /\ mode[r] = "execute" /\ mode' = mode
      /\ runnable' = runnable /\ taskTopo' = taskTopo /\ data' = data /\ injected' = injected
      /\ DOMAIN tasks'[r] = DOMAIN tasks[r]
      /\ \A u \in DOMAIN tasks[r] : tasks'[r][u] = tasks[r][u] \ runnable[r]
      /\ \A u \in Tasks : stage'[r][u] = IF u \in runnable[r] THEN "first" ELSE stage[r][u]
  BY Zenon DEF IInv, Shape, SubmitRunnableTasks, PassDone, UpdateTaskDependencies
<1>4. OrderInv(r) /\ DataInv(r) /\ runnable[r] \subseteq Tasks
  BY Zenon DEF IInv, Shape
<1>5. \A u \in runnable[r] : stage[r][u] = "none"
  BY Zenon, <1>3, <1>4 DEF OrderInv
<1>6. Finished(r)' = Finished(r) /\ Started(r)' = Started(r) \cup runnable[r]
  BY Zenon, <1>3, <1>4, <1>5 DEF Finished, Started
<1>7. OrderInv(r)'
  BY SMTT(30), <1>3, <1>4, <1>6 DEF OrderInv, Awaited, Settled, InProcess
<1>8. DataInv(r)'
  BY Zenon, <1>3, <1>4 DEF DataInv, Keeps
<1>. QED
  BY Zenon, <1>1, <1>2, <1>7, <1>8, UntouchedKeeps DEF IInv

\* The returns of ExecuteTaskInner leave no task under way.
LEMMA ReturnKeeps ==
    ASSUME IInv, NEW r \in Requests, ExecuteDone(r) \/ LevelFailed(r)
    PROVE  IInv'
<1>1. Shape'
  BY DEF IInv, Shape, ExecuteDone, LevelFailed, Return, work
<1>2. \A q \in Requests \ {r} : Untouched(q)
  BY Zenon DEF IInv, Shape, ExecuteDone, LevelFailed, Return, work, Untouched
<1>3. pc'[r] = "idle" /\ stage' = stage /\ taskTopo' = taskTopo /\ data' = data /\ injected' = injected
  BY Zenon DEF IInv, Shape, ExecuteDone, LevelFailed, Return, work
<1>4. OrderInv(r) /\ DataInv(r)
  BY Zenon DEF IInv
<1>5. \A t \in Tasks : stage[r][t] \in Settled
  BY SMTT(30), <1>4 DEF IInv, Shape, OrderInv, ExecuteDone, LevelFailed, PassDone, AllFinished, Settled, InProcess
<1>6. OrderInv(r)'
  BY Zenon, <1>3, <1>4, <1>5 DEF OrderInv, Finished, Started
<1>7. DataInv(r)'
  BY Zenon, <1>3, <1>4 DEF DataInv, Keeps
<1>. QED
  BY Zenon, <1>1, <1>2, <1>6, <1>7, UntouchedKeeps DEF IInv

\* After ffrt::wait the level is finished, and ReleaseNoUsedData keeps what the
\* tasks that are left declare.
LEMMA LevelDoneKeeps ==
    ASSUME IInv, NEW r \in Requests, LevelDone(r)
    PROVE  IInv'
<1>1. Shape'
  BY Zenon DEF IInv, Shape, LevelDone
<1>2. \A q \in Requests \ {r} : Untouched(q)
  BY Zenon DEF IInv, Shape, LevelDone, Untouched
<1>3. /\ pc[r] = "run" /\ pc'[r] = "scan" /\ mode' = mode /\ stage' = stage
      /\ taskTopo' = taskTopo /\ tasks' = tasks /\ injected' = injected
      /\ scan'[r] = DOMAIN tasks[r] /\ runnable'[r] = {}
      /\ data'[r] = data[r] \cap UsingData(r)
      /\ \A t \in runnable[r] : stage[r][t] \in {"ok", "fail"}
  BY Zenon DEF IInv, Shape, LevelDone, AllFinished, RemoveRestData
<1>4. OrderInv(r) /\ DataInv(r) /\ runnable[r] \subseteq Tasks
  BY Zenon DEF IInv, Shape
<1>5. mode[r] = "execute" /\ \A t \in Tasks : stage[r][t] \in Settled
  BY SMTT(30), <1>3, <1>4 DEF IInv, Shape, OrderInv, Settled, InProcess
<1>6. runnable[r] \subseteq Finished(r) /\ Finished(r)' = Finished(r) /\ Started(r)' = Started(r)
  BY Zenon, <1>3, <1>4 DEF Finished, Started
<1>7. OrderInv(r)'
  BY SMTT(30), <1>3, <1>4, <1>5, <1>6 DEF OrderInv, Awaited
<1>8. \A t \in DOMAIN tasks[r] : Keeps(r, t)'
  <2>1. \A t \in DOMAIN tasks[r] : dataDependency[t] \subseteq UsingData(r)
    BY Zenon DEF UsingData
  <2>. QED  BY <1>3, <1>4, <1>5, <2>1 DEF DataInv, Keeps
<1>9. DataInv(r)'
  BY Zenon, <1>3, <1>5, <1>8 DEF DataInv, Settled
<1>. QED
  BY Zenon, <1>1, <1>2, <1>7, <1>9, UntouchedKeeps DEF IInv

\* A task under way goes from one of its stages to the next; what it injects is
\* held as well.
LEMMA WorkerKeeps ==
    ASSUME IInv, NEW r \in Requests, NEW t \in Tasks, Worker(r, t)
    PROVE  IInv'
<1>1. \E next \in {"reset", "retry", "read", "store", "ok", "fail"} :
          stage' = [stage EXCEPT ![r][t] = next]
  BY Zenon DEF Worker, ExecuteSingleTask, HandleTaskRetry, RunTask, ResetFailureCount,
         ReadFailureCount, StoreFailureCount
<1>2. /\ stage[r][t] \in InProcess
      /\ pc' = pc /\ mode' = mode /\ runnable' = runnable /\ taskTopo' = taskTopo
      /\ tasks' = tasks /\ scan' = scan
  BY Zenon DEF Worker, ExecuteSingleTask, HandleTaskRetry, RunTask, ResetFailureCount,
         ReadFailureCount, StoreFailureCount, control, InProcess
<1>3. /\ DOMAIN data' = Requests /\ DOMAIN injected' = Requests
      /\ \A q \in Requests \ {r} : data'[q] = data[q] /\ injected'[q] = injected[q]
      /\ \E put : data'[r] = data[r] \cup put /\ injected'[r] = injected[r] \cup put
  <2>1. CASE ExecuteSingleTask(r, t) \/ HandleTaskRetry(r, t)
    BY Zenon, <2>1 DEF IInv, Shape, ExecuteSingleTask, HandleTaskRetry, RunTask
  <2>2. CASE data' = data /\ injected' = injected
    <3>1. data'[r] = data[r] \cup {} /\ injected'[r] = injected[r] \cup {}
      BY Zenon, <2>2
    <3>. QED  BY Zenon, <2>2, <3>1 DEF IInv, Shape
  <2>. QED
    BY Zenon, <2>1, <2>2 DEF Worker, ResetFailureCount, ReadFailureCount, StoreFailureCount
<1>4. Shape'
  BY <1>1, <1>2, <1>3 DEF IInv, Shape, Settled, InProcess
<1>5. \A q \in Requests \ {r} : Untouched(q)
  BY Zenon, <1>1, <1>2, <1>3 DEF IInv, Shape, Untouched
<1>6. OrderInv(r) /\ DataInv(r)
  BY Zenon DEF IInv
<1>7. /\ pc[r] = "run" /\ mode[r] = "execute" /\ t \in runnable[r]
  BY Zenon, <1>2, <1>6 DEF IInv, Shape, OrderInv, Settled, InProcess
<1>8. /\ stage'[r][t] \notin {"none", "first"}
      /\ \A u \in Tasks \ {t} : stage'[r][u] = stage[r][u]
  BY SMTT(30), <1>1 DEF IInv, Shape
<1>9. Finished(r) \subseteq Finished(r)' /\ Started(r)' = Started(r)
  BY Zenon, <1>2, <1>8 DEF Finished, Started, InProcess
<1>10. OrderInv(r)'
  BY ZenonT(60), <1>2, <1>6, <1>7, <1>8, <1>9 DEF OrderInv, Awaited
<1>11. \A u : Keeps(r, u) => Keeps(r, u)'
  BY Zenon, <1>3 DEF Keeps, IInv, Shape
<1>12. stage'[r][t] = "retry" => stage[r][t] = "first"
  BY DEF IInv, Shape, Worker, ExecuteSingleTask, HandleTaskRetry, RunTask, ResetFailureCount,
         ReadFailureCount, StoreFailureCount
<1>13. DataInv(r)'
  BY Zenon, <1>2, <1>6, <1>7, <1>8, <1>11, <1>12 DEF DataInv
<1>. QED
  BY Zenon, <1>4, <1>5, <1>10, <1>13, UntouchedKeeps DEF IInv

\* Every step of a request and of its workers keeps the invariant.
LEMMA StepIInv == IInv /\ [Next]_vars => IInv'
<1>1. ASSUME IInv, UNCHANGED vars PROVE IInv'
  <2>1. Shape' /\ \A q \in Requests : Untouched(q)
    BY Zenon, <1>1 DEF IInv, Shape, Untouched, vars, control, work
  <2>. QED  BY <1>1, <2>1, UntouchedKeeps DEF IInv
<1>2. ASSUME IInv, NEW r \in Requests, Control(r) PROVE IInv'
  BY Zenon, <1>2, VisitTaskKeeps, VerificationKeeps, SubmitKeeps, ReturnKeeps, LevelDoneKeeps DEF Control
<1>. QED
  BY Zenon, <1>1, <1>2, ExecuteTaskKeeps, WorkerKeeps DEF Next

\* The passes and the inventory are sound in every reachable state.
THEOREM TaskInvariance == Spec => []IInv
  BY InitIInv, StepIInv, PTL DEF Spec

\* DependenciesFirst for every registry and any number of requests: whatever
\* fails, is disabled or is left out, ExecuteTask starts a task only when what
\* its topology says it depends on has finished.
THEOREM DependenciesTheorem == Spec => []DependenciesFirst
<1>1. IInv => DependenciesFirst
  BY DEF IInv, OrderInv, DependenciesFirst
<1>. QED  BY <1>1, TaskInvariance, PTL

\* DataKept for every registry and any number of requests: ReleaseNoUsedData
\* never takes what a task that is still to run declares.
THEOREM DataTheorem == Spec => []DataKept
<1>1. IInv => DataKept
  BY DEF IInv, DataInv, DataKept, Keeps
<1>. QED  BY <1>1, TaskInvariance, PTL

(***************************************************************************)
(* Why a task of a successful request may be missing.                      *)
(***************************************************************************)
\* The tasks the verification has selected.
Selected(r) == DOMAIN taskTopo[r] \ (DOMAIN tasks[r] \cup erased[r])

\* No dependency runs in a circle among the tasks of S.
Grounded(topo, S) == \A C \in SUBSET S : C # {} => \E u \in C : topo[u] \cap C = {}

\* The verification: it drops a dependency of a task, and selects a task, only
\* when what it depends on was selected before.
VerifyInv(r) ==
    /\ DOMAIN tasks[r] \subseteq DOMAIN taskTopo[r] /\ DOMAIN tasks[r] \cap erased[r] = {}
    /\ runnable[r] \subseteq Selected(r)
    /\ \A u \in DOMAIN tasks[r] : taskTopo[r][u] \subseteq tasks[r][u] \cup Selected(r)
    /\ \A u \in Selected(r) : taskTopo[r][u] \subseteq Selected(r)
    /\ Grounded(taskTopo[r], Selected(r))

\* The execution: a task that is not left out depends on tasks of the topology,
\* in no circle; a task that waits and was visited waits for one not started.
ExecuteInv(r) ==
    /\ DOMAIN tasks[r] \subseteq DOMAIN taskTopo[r]
    /\ DOMAIN taskTopo[r] \subseteq DOMAIN tasks[r] \cup runnable[r] \cup Started(r) \cup erased[r]
    /\ \A u \in DOMAIN taskTopo[r] \ erased[r] : taskTopo[r][u] \subseteq DOMAIN taskTopo[r]
    /\ Grounded(taskTopo[r], DOMAIN taskTopo[r] \ erased[r])
    /\ \A u \in DOMAIN tasks[r] : tasks[r][u] \subseteq taskTopo[r][u] \ Started(r)
    /\ pc[r] = "scan" => \A u \in DOMAIN tasks[r] \ scan[r] : tasks[r][u] # {}

SkippedByFailure(r) ==
    \A t \in DOMAIN taskTopo[r] \ Finished(r) : Needs(taskTopo[r], t) \cap erased[r] # {}

SkipInv(r) ==
    /\ pc[r] = "scan" /\ mode[r] = "verify" => VerifyInv(r)
    /\ pc[r] # "idle" /\ mode[r] = "execute" => ExecuteInv(r)
    /\ result[r] = "DUMP_OK" => pc[r] = "idle" /\ SkippedByFailure(r)

Skips == DOMAIN erased = Requests /\ DOMAIN result = Requests /\ \A r \in Requests : SkipInv(r)


\* A part of a set without circles has none.
LEMMA GroundedPart ==
    ASSUME NEW topo, NEW S, NEW T, Grounded(topo, S), T \subseteq S
    PROVE  Grounded(topo, T)
  BY Zenon DEF Grounded

\* A task that depends on tasks of a closed set only brings no circle into it.
LEMMA GroundedMore ==
    ASSUME NEW topo, NEW S, NEW t, Grounded(topo, S), t \notin S,
           topo[t] \subseteq S, \A u \in S : topo[u] \subseteq S
    PROVE  Grounded(topo, S \cup {t})
<1>. SUFFICES ASSUME NEW C \in SUBSET (S \cup {t}), C # {}
              PROVE  \E u \in C : topo[u] \cap C = {}
  BY Zenon DEF Grounded
<1>1. CASE C \cap S = {}
  <2>1. t \in C /\ topo[t] \cap C = {}
    BY Zenon, <1>1
  <2>. QED
    BY Zenon, <2>1
<1>2. CASE C \cap S # {}
  <2>1. C \cap S \in SUBSET S
    BY Zenon
  <2>2. PICK u \in C \cap S : topo[u] \cap (C \cap S) = {}
    BY Zenon, <1>2, <2>1 DEF Grounded
  <2>3. topo[u] \cap C = {}
    BY Zenon, <2>2
  <2>. QED
    BY Zenon, <2>2, <2>3
<1>. QED
  BY Zenon, <1>1, <1>2

\* What a needed task of the topology depends on is needed as well.
LEMMA NeedsClosed ==
    ASSUME NEW topo, NEW t \in DOMAIN topo
    PROVE  /\ t \in Needs(topo, t) /\ Needs(topo, t) \subseteq DOMAIN topo
           /\ \A u \in Needs(topo, t) : topo[u] \cap DOMAIN topo \subseteq Needs(topo, t)
<1>. DEFINE closed == {S \in SUBSET DOMAIN topo :
                          t \in S /\ \A u \in S : topo[u] \cap DOMAIN topo \subseteq S}
<1>1. Needs(topo, t) = {u \in DOMAIN topo : \A S \in closed : u \in S}
  BY Zenon DEF Needs
<1>2. \A S \in closed : t \in S /\ \A u \in S : topo[u] \cap DOMAIN topo \subseteq S
  BY Zenon
<1>. HIDE DEF closed
<1>. QED
  BY Zenon, <1>1, <1>2

\* The execution ends: the tasks it leaves wait for each other in no circle, so
\* one of them waits for a task that was left out.
LEMMA LeftByFailure ==
    ASSUME NEW r \in Requests, ExecuteInv(r), pc[r] = "scan", scan[r] = {}, runnable[r] = {},
           \A u \in Started(r) : u \in Finished(r)
    PROVE  SkippedByFailure(r)
<1>. SUFFICES ASSUME NEW t \in DOMAIN taskTopo[r] \ Finished(r),
                     Needs(taskTopo[r], t) \cap erased[r] = {}
              PROVE  FALSE
  BY Zenon DEF SkippedByFailure
<1>. DEFINE needs == Needs(taskTopo[r], t)
            left  == needs \cap DOMAIN tasks[r]
<1>1. /\ t \in needs /\ needs \subseteq DOMAIN taskTopo[r]
      /\ \A u \in needs : taskTopo[r][u] \cap DOMAIN taskTopo[r] \subseteq needs
  BY Zenon, NeedsClosed
<1>2. \A u \in needs : u \notin erased[r]
  BY Zenon
<1>. HIDE DEF needs
<1>3. t \in left
  BY Zenon, <1>1, <1>2 DEF ExecuteInv
<1>4. PICK u \in left : taskTopo[r][u] \cap left = {}
  <2>1. left \in SUBSET (DOMAIN taskTopo[r] \ erased[r]) /\ left # {}
    BY Zenon, <1>1, <1>2, <1>3
  <2>. QED
    BY Zenon, <2>1 DEF ExecuteInv, Grounded
<1>5. PICK v : v \in tasks[r][u]
  <2>1. u \in DOMAIN tasks[r] \ scan[r]
    BY Zenon
  <2>2. tasks[r][u] # {}
    BY Zenon, <2>1 DEF ExecuteInv
  <2>. QED
    BY Zenon, <2>2
<1>6. v \in taskTopo[r][u] /\ v \notin Started(r) /\ v \in DOMAIN taskTopo[r]
  BY Zenon, <1>1, <1>2, <1>5 DEF ExecuteInv
<1>7. v \in needs
  BY Zenon, <1>1, <1>6
<1>8. v \in DOMAIN tasks[r]
  BY Zenon, <1>2, <1>6, <1>7 DEF ExecuteInv
<1>. QED
  BY Zenon, <1>4, <1>6, <1>7, <1>8

\* What SkipInv of request q reads.
Same(q) == Untouched(q) /\ erased'[q] = erased[q] /\ result'[q] = result[q]

\* A request that a step leaves alone keeps its part of the invariant.
LEMMA SameSkips ==
    ASSUME NEW q, SkipInv(q), Same(q)
    PROVE  SkipInv(q)'
<1>1. Started(q)' = Started(q) /\ Finished(q)' = Finished(q) /\ Selected(q)' = Selected(q)
  BY Zenon DEF Same, Untouched, Started, Finished, Selected
<1>2. VerifyInv(q) => VerifyInv(q)'
  BY Zenon, <1>1 DEF Same, Untouched, VerifyInv
<1>3. ExecuteInv(q) => ExecuteInv(q)'
  BY Zenon, <1>1 DEF Same, Untouched, ExecuteInv
<1>4. SkippedByFailure(q) => SkippedByFailure(q)'
  BY Zenon, <1>1 DEF Same, Untouched, SkippedByFailure
<1>. QED
  BY Zenon, <1>2, <1>3, <1>4 DEF SkipInv, Same, Untouched

\* A step of one request only has to keep the part of that request.
LEMMA SkipsOf ==
    ASSUME Skips, NEW r \in Requests, SkipInv(r)', \A q \in Requests \ {r} : Same(q),
           DOMAIN erased' = Requests, DOMAIN result' = Requests
    PROVE  Skips'
  BY Zenon, SameSkips DEF Skips

\* Nothing is selected or left out when ExecuteTask begins.
LEMMA ExecuteTaskSkips ==
    ASSUME IInv, Skips, NEW r \in Requests, ExecuteTask(r)
    PROVE  Skips'
<1>1. /\ \A q \in Requests \ {r} : Same(q)
      /\ DOMAIN erased' = Requests /\ DOMAIN result' = Requests
  BY ZenonT(60) DEF IInv, Shape, Skips, ExecuteTask, Return, Same, Untouched
<1>2. /\ mode'[r] = "verify" /\ runnable'[r] = {} /\ erased'[r] = {}
      /\ result'[r] # "DUMP_OK"
      /\ pc'[r] = "idle" \/ tasks'[r] = taskTopo'[r]
  BY DEF IInv, Shape, Skips, ExecuteTask, Return
<1>3. tasks'[r] = taskTopo'[r] => VerifyInv(r)'
  <2>. SUFFICES ASSUME tasks'[r] = taskTopo'[r] PROVE VerifyInv(r)'
    BY Zenon
  <2>1. Selected(r)' = {}
    BY Zenon DEF Selected
  <2>2. Grounded(taskTopo'[r], {})
    BY Zenon DEF Grounded
  <2>. QED
    BY Zenon, <1>2, <2>1, <2>2 DEF VerifyInv
<1>4. SkipInv(r)'
  BY Zenon, <1>2, <1>3 DEF SkipInv
<1>. QED
  BY Zenon, <1>1, <1>4, SkipsOf

\* A turn of SelectRunnableTasks, in the verification: a task is selected when
\* all it depends on was selected before.
LEMMA VisitVerifies ==
    ASSUME IInv, NEW r \in Requests, NEW t \in Tasks, VisitTask(r, t), VerifyInv(r),
           DOMAIN erased = Requests
    PROVE  VerifyInv(r)'
<1>1. /\ taskTopo' = taskTopo /\ t \in DOMAIN tasks[r]
  BY Zenon DEF IInv, OrderInv, VisitTask
<1>2. CASE tasks' = tasks /\ runnable' = runnable /\ erased' = erased
  BY Zenon, <1>1, <1>2 DEF VerifyInv, Selected
<1>3. CASE /\ tasks' = [tasks EXCEPT ![r] = Without(@, t)]
           /\ erased' = [erased EXCEPT ![r] = @ \cup {t}] /\ runnable' = runnable
  <2>1. /\ DOMAIN tasks'[r] = DOMAIN tasks[r] \ {t} /\ erased'[r] = erased[r] \cup {t}
        /\ \A u \in DOMAIN tasks'[r] : tasks'[r][u] = tasks[r][u]
    BY Zenon, <1>3 DEF IInv, Shape, Without
  <2>2. Selected(r)' = Selected(r)
    BY Zenon, <1>1, <2>1 DEF Selected
  <2>. QED
    BY ZenonT(60), <1>1, <1>3, <2>1, <2>2 DEF VerifyInv
<1>4. CASE /\ NoDependencyLeft(r, t) /\ tasks' = [tasks EXCEPT ![r] = Without(@, t)]
           /\ runnable' = [runnable EXCEPT ![r] = @ \cup {t}] /\ erased' = erased
  <2>1. /\ DOMAIN tasks'[r] = DOMAIN tasks[r] \ {t} /\ runnable'[r] = runnable[r] \cup {t}
        /\ \A u \in DOMAIN tasks'[r] : tasks'[r][u] = tasks[r][u]
    BY Zenon, <1>4 DEF IInv, Shape, Without
  <2>0. t \in DOMAIN taskTopo[r] /\ t \notin erased[r]
    BY Zenon, <1>1 DEF VerifyInv
  <2>2. Selected(r)' = Selected(r) \cup {t} /\ t \notin Selected(r)
    BY Zenon, <1>1, <1>4, <2>0, <2>1 DEF Selected
  <2>3. taskTopo[r][t] \subseteq Selected(r)
    BY Zenon, <1>1, <1>4 DEF VerifyInv, NoDependencyLeft
  <2>4. Grounded(taskTopo[r], Selected(r) \cup {t})
    BY Zenon, <2>2, <2>3, GroundedMore DEF VerifyInv
  <2>5. \A u \in Selected(r)' : taskTopo[r][u] \subseteq Selected(r)'
    BY Zenon, <2>2, <2>3 DEF VerifyInv
  <2>6. \A u \in DOMAIN tasks'[r] : taskTopo[r][u] \subseteq tasks'[r][u] \cup Selected(r)'
    BY Zenon, <2>1, <2>2 DEF VerifyInv
  <2>. QED
    BY Zenon, <1>1, <1>4, <2>1, <2>2, <2>4, <2>5, <2>6 DEF VerifyInv
<1>. QED
  BY Zenon, <1>2, <1>3, <1>4 DEF VisitTask

\* In the execution: a task leaves the list to be started or as left out, and
\* one that stays waits for something.
LEMMA VisitExecutes ==
    ASSUME IInv, NEW r \in Requests, NEW t \in Tasks, VisitTask(r, t), ExecuteInv(r),
           DOMAIN erased = Requests
    PROVE  ExecuteInv(r)'
<1>1. /\ taskTopo' = taskTopo /\ stage' = stage /\ pc[r] = "scan" /\ pc' = pc
      /\ t \in DOMAIN tasks[r] /\ scan'[r] = scan[r] \ {t}
  BY Zenon DEF IInv, OrderInv, Shape, VisitTask, work
<1>2. Started(r)' = Started(r)
  BY Zenon, <1>1 DEF Started
<1>3. CASE tasks' = tasks /\ runnable' = runnable /\ erased' = erased /\ ~NoDependencyLeft(r, t)
  <2>1. \A u \in DOMAIN tasks[r] \ scan'[r] : tasks[r][u] # {}
    BY Zenon, <1>1, <1>3 DEF ExecuteInv, NoDependencyLeft
  <2>. QED
    BY Zenon, <1>1, <1>2, <1>3, <2>1 DEF ExecuteInv
<1>4. CASE /\ tasks' = [tasks EXCEPT ![r] = Without(@, t)]
           /\ \/ erased'[r] = erased[r] \cup {t} /\ runnable'[r] = runnable[r]
              \/ erased'[r] = erased[r] /\ runnable'[r] = runnable[r] \cup {t}
  <2>1. /\ DOMAIN tasks'[r] = DOMAIN tasks[r] \ {t}
        /\ \A u \in DOMAIN tasks'[r] : tasks'[r][u] = tasks[r][u]
    BY Zenon, <1>4 DEF IInv, Shape, Without
  <2>2. erased[r] \subseteq erased'[r]
    BY Zenon, <1>4
  <2>3. Grounded(taskTopo[r], DOMAIN taskTopo[r] \ erased'[r])
    BY ZenonT(60), <2>2, GroundedPart DEF ExecuteInv
  <2>4. \A u \in DOMAIN taskTopo[r] \ erased'[r] : taskTopo[r][u] \subseteq DOMAIN taskTopo[r]
    BY Zenon, <2>2 DEF ExecuteInv
  <2>5. DOMAIN taskTopo[r] \subseteq DOMAIN tasks'[r] \cup runnable'[r] \cup Started(r) \cup erased'[r]
    BY Zenon, <1>4, <2>1 DEF ExecuteInv
  <2>6. \A u \in DOMAIN tasks'[r] \ scan'[r] : tasks'[r][u] # {}
    BY Zenon, <1>1, <2>1 DEF ExecuteInv
  <2>. QED
    BY Zenon, <1>1, <1>2, <2>1, <2>3, <2>4, <2>5, <2>6 DEF ExecuteInv
<1>. QED
  BY Zenon, <1>3, <1>4 DEF VisitTask, IInv, Shape

\* A turn of SelectRunnableTasks.
LEMMA VisitTaskSkips ==
    ASSUME IInv, Skips, NEW r \in Requests, NEW t \in Tasks, VisitTask(r, t)
    PROVE  Skips'
<1>1. /\ \A q \in Requests \ {r} : Same(q)
      /\ DOMAIN erased' = Requests /\ DOMAIN result' = Requests
  BY Zenon DEF IInv, Shape, Skips, VisitTask, work, Same, Untouched
<1>2. /\ pc[r] = "scan" /\ pc' = pc /\ mode' = mode /\ result' = result
      /\ SkipInv(r) /\ DOMAIN erased = Requests
  BY Zenon DEF Skips, VisitTask
<1>3. SkipInv(r)'
  BY Zenon, <1>2, VisitVerifies, VisitExecutes DEF SkipInv
<1>. QED
  BY Zenon, <1>1, <1>3, SkipsOf

\* The verification goes on, gives up, or hands the whole topology, which is now
\* known to hold no circle but through what was left out, to the execution.
LEMMA VerificationSkips ==
    ASSUME IInv, Skips, NEW r \in Requests, VerifyPass(r) \/ VerifyFailed(r) \/ Verified(r)
    PROVE  Skips'
<1>1. /\ \A q \in Requests \ {r} : Same(q)
      /\ DOMAIN erased' = Requests /\ DOMAIN result' = Requests
  <2>1. CASE VerifyPass(r)
    BY Zenon, <2>1 DEF IInv, Shape, Skips, VerifyPass, work, Same, Untouched
  <2>2. CASE VerifyFailed(r)
    BY Zenon, <2>2 DEF IInv, Shape, Skips, VerifyFailed, Return, work, Same, Untouched
  <2>3. CASE Verified(r)
    BY Zenon, <2>3 DEF IInv, Shape, Skips, Verified, work, Same, Untouched
  <2>. QED
    BY Zenon, <2>1, <2>2, <2>3
<1>2. /\ pc[r] = "scan" /\ mode[r] = "verify" /\ taskTopo' = taskTopo /\ stage' = stage
      /\ erased' = erased /\ runnable'[r] = {}
  BY Zenon DEF IInv, Shape, VerifyPass, VerifyFailed, Verified, PassDone, work
<1>3. VerifyInv(r) /\ result[r] # "DUMP_OK" /\ \A t \in Tasks : stage[r][t] = "none"
  BY Zenon, <1>2 DEF Skips, SkipInv, IInv, OrderInv
<1>4. CASE VerifyPass(r)
  <2>1. /\ pc' = pc /\ mode' = mode /\ result' = result /\ DOMAIN tasks'[r] = DOMAIN tasks[r]
        /\ \A u \in DOMAIN tasks[r] : tasks'[r][u] = tasks[r][u] \ runnable[r]
    BY Zenon, <1>4 DEF IInv, Shape, VerifyPass, UpdateTaskDependencies
  <2>2. Selected(r)' = Selected(r)
    BY Zenon, <1>2, <2>1 DEF Selected
  <2>3. \A u \in DOMAIN tasks'[r] : taskTopo[r][u] \subseteq tasks'[r][u] \cup Selected(r)
    BY Zenon, <1>3, <2>1 DEF VerifyInv
  <2>4. VerifyInv(r)'
    BY Zenon, <1>2, <1>3, <2>1, <2>2, <2>3 DEF VerifyInv
  <2>5. SkipInv(r)'
    BY Zenon, <1>2, <1>3, <2>1, <2>4 DEF SkipInv
  <2>. QED
    BY Zenon, <1>1, <2>5, SkipsOf
<1>5. CASE VerifyFailed(r)
  <2>1. pc'[r] = "idle" /\ result'[r] # "DUMP_OK"
    BY <1>5 DEF IInv, Shape, Skips, VerifyFailed, Return
  <2>2. SkipInv(r)'
    BY Zenon, <2>1 DEF SkipInv
  <2>. QED
    BY Zenon, <1>1, <2>2, SkipsOf
<1>6. CASE Verified(r)
  <2>1. /\ pc' = pc /\ mode'[r] = "execute" /\ result' = result /\ DOMAIN tasks[r] = {}
        /\ tasks'[r] = taskTopo[r] /\ scan'[r] = DOMAIN taskTopo[r]
    BY Zenon, <1>6 DEF IInv, Shape, Verified
  <2>2. Started(r)' = {}
    BY Zenon, <1>2, <1>3 DEF Started
  <2>3. Selected(r) = DOMAIN taskTopo[r] \ erased[r]
    BY Zenon, <2>1 DEF Selected
  <2>4. Grounded(taskTopo[r], DOMAIN taskTopo[r] \ erased[r])
    BY Zenon, <1>3, <2>3 DEF VerifyInv
  <2>5. \A u \in DOMAIN taskTopo[r] \ erased[r] : taskTopo[r][u] \subseteq DOMAIN taskTopo[r]
    BY Zenon, <1>3, <2>3 DEF VerifyInv
  <2>6. ExecuteInv(r)'
    BY Zenon, <1>2, <2>1, <2>2, <2>4, <2>5 DEF ExecuteInv
  <2>7. mode'[r] # "verify"
    BY <2>1
  <2>8. SkipInv(r)'
    BY Zenon, <1>3, <2>1, <2>6, <2>7 DEF SkipInv
  <2>. QED
    BY Zenon, <1>1, <2>8, SkipsOf
<1>. QED
  BY Zenon, <1>4, <1>5, <1>6

\* The selected tasks start, and none of the waiting ones waits for them any more.
LEMMA SubmitSkips ==
    ASSUME IInv, Skips, NEW r \in Requests, SubmitRunnableTasks(r)
    PROVE  Skips'
<1>1. /\ \A q \in Requests \ {r} : Same(q)
      /\ DOMAIN erased' = Requests /\ DOMAIN result' = Requests
  BY Zenon DEF IInv, Shape, Skips, SubmitRunnableTasks, Same, Untouched
<1>2. /\ pc[r] = "scan" /\ pc'[r] = "run" /\ mode[r] = "execute" /\ mode' = mode
      /\ runnable' = runnable /\ taskTopo' = taskTopo /\ erased' = erased /\ result' = result
      /\ DOMAIN tasks'[r] = DOMAIN tasks[r]
      /\ \A u \in DOMAIN tasks[r] : tasks'[r][u] = tasks[r][u] \ runnable[r]
      /\ \A u \in Tasks : stage'[r][u] = IF u \in runnable[r] THEN "first" ELSE stage[r][u]
  BY Zenon DEF IInv, Shape, SubmitRunnableTasks, PassDone, UpdateTaskDependencies
<1>3. ExecuteInv(r) /\ result[r] # "DUMP_OK" /\ runnable[r] \subseteq Tasks
  BY Zenon, <1>2 DEF Skips, SkipInv, IInv, Shape
<1>4. Started(r)' = Started(r) \cup runnable[r]
  BY Zenon, <1>2, <1>3 DEF Started
<1>5. \A u \in DOMAIN tasks'[r] : tasks'[r][u] \subseteq taskTopo[r][u] \ Started(r)'
  <2>1. \A u \in DOMAIN tasks[r] : tasks[r][u] \subseteq taskTopo[r][u] \ Started(r)
    BY Zenon, <1>3 DEF ExecuteInv
  <2>. SUFFICES ASSUME NEW u \in DOMAIN tasks[r] PROVE tasks'[r][u] \subseteq taskTopo[r][u] \ Started(r)'
    BY Zenon, <1>2
  <2>2. tasks'[r][u] = tasks[r][u] \ runnable[r]
    BY Zenon, <1>2
  <2>. QED
    BY Zenon, <1>4, <2>1, <2>2
<1>6. pc'[r] # "scan"
  BY <1>2
<1>7. ExecuteInv(r)'
  BY Zenon, <1>2, <1>3, <1>4, <1>5, <1>6 DEF ExecuteInv
<1>8. SkipInv(r)'
  BY Zenon, <1>2, <1>3, <1>6, <1>7 DEF SkipInv
<1>. QED
  BY Zenon, <1>1, <1>8, SkipsOf

\* The returns of ExecuteTaskInner: DUMP_OK only when nothing is runnable.
LEMMA ReturnSkips ==
    ASSUME IInv, Skips, NEW r \in Requests, ExecuteDone(r) \/ LevelFailed(r)
    PROVE  Skips'
<1>1. /\ \A q \in Requests \ {r} : Same(q)
      /\ DOMAIN erased' = Requests /\ DOMAIN result' = Requests
  BY ZenonT(60) DEF IInv, Shape, Skips, ExecuteDone, LevelFailed, Return, work, Same, Untouched
<1>2. pc'[r] = "idle" /\ stage' = stage /\ taskTopo' = taskTopo /\ erased' = erased
  BY Zenon DEF IInv, Shape, ExecuteDone, LevelFailed, Return, work
<1>3. CASE ExecuteDone(r)
  <2>1. pc[r] = "scan" /\ mode[r] = "execute" /\ scan[r] = {} /\ runnable[r] = {} /\ pc[r] # "idle"
    BY <1>3 DEF ExecuteDone, PassDone
  <2>2. ExecuteInv(r) /\ \A t \in Tasks : stage[r][t] \in Settled
    BY <2>1 DEF Skips, SkipInv, IInv, OrderInv
  <2>3. \A u \in Started(r) : u \in Finished(r)
    BY Zenon, <2>2 DEF Started, Finished, Settled
  <2>4. SkippedByFailure(r)
    BY Zenon, <2>1, <2>2, <2>3, LeftByFailure
  <2>5. Finished(r)' = Finished(r)
    BY Zenon, <1>2 DEF Finished
  <2>6. SkippedByFailure(r)'
    BY Zenon, <1>2, <2>4, <2>5 DEF SkippedByFailure
  <2>7. SkipInv(r)'
    BY <1>2, <2>6 DEF SkipInv
  <2>. QED
    BY Zenon, <1>1, <2>7, SkipsOf
<1>4. CASE LevelFailed(r)
  <2>1. result'[r] # "DUMP_OK"
    BY <1>4 DEF Skips, LevelFailed, Return
  <2>2. SkipInv(r)'
    BY <1>2, <2>1 DEF SkipInv
  <2>. QED
    BY Zenon, <1>1, <2>2, SkipsOf
<1>. QED
  BY Zenon, <1>3, <1>4

\* The next level: every task that waits is to be visited again.
LEMMA LevelDoneSkips ==
    ASSUME IInv, Skips, NEW r \in Requests, LevelDone(r)
    PROVE  Skips'
<1>1. /\ \A q \in Requests \ {r} : Same(q)
      /\ DOMAIN erased' = Requests /\ DOMAIN result' = Requests
  BY Zenon DEF IInv, Shape, Skips, LevelDone, Same, Untouched
<1>2. /\ pc[r] = "run" /\ pc'[r] = "scan" /\ mode' = mode /\ stage' = stage /\ tasks' = tasks
      /\ taskTopo' = taskTopo /\ erased' = erased /\ result' = result
      /\ scan'[r] = DOMAIN tasks[r] /\ runnable'[r] = {}
      /\ \A t \in runnable[r] : stage[r][t] \in {"ok", "fail"}
  BY Zenon DEF IInv, Shape, LevelDone, AllFinished
<1>3. mode[r] = "execute" /\ runnable[r] \subseteq Tasks /\ pc[r] # "idle" /\ mode'[r] # "verify"
  BY <1>2 DEF IInv, OrderInv, Shape
<1>4. ExecuteInv(r) /\ result[r] # "DUMP_OK"
  BY Zenon, <1>2, <1>3 DEF Skips, SkipInv
<1>5. Started(r)' = Started(r) /\ runnable[r] \subseteq Started(r)
  BY Zenon, <1>2, <1>3 DEF Started
<1>6. DOMAIN taskTopo[r] \subseteq DOMAIN tasks[r] \cup Started(r) \cup erased[r]
  BY Zenon, <1>4, <1>5 DEF ExecuteInv
<1>7. ExecuteInv(r)'
  BY Zenon, <1>2, <1>4, <1>5, <1>6 DEF ExecuteInv
<1>8. SkipInv(r)'
  BY Zenon, <1>2, <1>3, <1>4, <1>7 DEF SkipInv
<1>. QED
  BY Zenon, <1>1, <1>8, SkipsOf

\* The tasks of a level change nothing of the topology, and no task is under way
\* once a request has returned.
LEMMA WorkerSkips ==
    ASSUME IInv, Skips, NEW r \in Requests, NEW t \in Tasks, Worker(r, t)
    PROVE  Skips'
<1>1. \E next \in {"reset", "retry", "read", "store", "ok", "fail"} :
          stage' = [stage EXCEPT ![r][t] = next]
  BY Zenon DEF Worker, ExecuteSingleTask, HandleTaskRetry, RunTask, ResetFailureCount,
         ReadFailureCount, StoreFailureCount
<1>2. /\ stage[r][t] \in InProcess
      /\ pc' = pc /\ mode' = mode /\ runnable' = runnable /\ taskTopo' = taskTopo
      /\ tasks' = tasks /\ scan' = scan /\ erased' = erased /\ result' = result
  BY Zenon DEF Worker, ExecuteSingleTask, HandleTaskRetry, RunTask, ResetFailureCount,
         ReadFailureCount, StoreFailureCount, control, InProcess
<1>3. \A q \in Requests \ {r} : data'[q] = data[q] /\ injected'[q] = injected[q] /\ stage'[q] = stage[q]
  BY Zenon, <1>1 DEF IInv, Shape, Worker, ExecuteSingleTask, HandleTaskRetry, RunTask,
         ResetFailureCount, ReadFailureCount, StoreFailureCount
<1>4. /\ \A q \in Requests \ {r} : Same(q)
      /\ DOMAIN erased' = Requests /\ DOMAIN result' = Requests
  BY Zenon, <1>2, <1>3 DEF Skips, Same, Untouched
<1>5. pc[r] = "run" /\ mode[r] = "execute"
  BY Zenon, <1>2 DEF IInv, Shape, OrderInv, Settled, InProcess
<1>6. pc[r] # "idle" /\ pc[r] # "scan"
  BY <1>5
<1>7. ExecuteInv(r) /\ result[r] # "DUMP_OK"
  BY Zenon, <1>5, <1>6 DEF Skips, SkipInv
<1>8. Started(r)' = Started(r)
  <2>1. stage'[r][t] # "none" /\ \A u \in Tasks \ {t} : stage'[r][u] = stage[r][u]
    BY <1>1 DEF IInv, Shape
  <2>2. stage[r][t] # "none"
    BY <1>2 DEF InProcess
  <2>. QED
    BY Zenon, <2>1, <2>2 DEF Started
<1>9. ExecuteInv(r)'
  BY Zenon, <1>2, <1>7, <1>8 DEF ExecuteInv
<1>10. SkipInv(r)'
  BY Zenon, <1>2, <1>6, <1>7, <1>9 DEF SkipInv
<1>. QED
  BY Zenon, <1>4, <1>10, SkipsOf

\* Every step keeps it, given the order of the passes.
LEMMA SkipsStep == IInv /\ Skips /\ [Next]_vars => Skips'
<1>1. ASSUME Skips, UNCHANGED vars PROVE Skips'
  <2>1. \A q \in Requests : Same(q)
    BY Zenon, <1>1 DEF Same, Untouched, vars, control, work
  <2>2. erased' = erased /\ result' = result
    BY Zenon, <1>1 DEF vars, control
  <2>. QED
    BY Zenon, <1>1, <2>1, <2>2, SameSkips DEF Skips
<1>2. ASSUME IInv, Skips, NEW r \in Requests, Control(r) PROVE Skips'
  BY Zenon, <1>2, VisitTaskSkips, VerificationSkips, SubmitSkips, ReturnSkips, LevelDoneSkips DEF Control
<1>. QED
  BY Zenon, <1>1, <1>2, ExecuteTaskSkips, WorkerSkips DEF Next

\* SkippedOnlyByFailure for every registry, any lists of roots and any number of
\* requests: a request that returns DUMP_OK has run every task of its topology
\* that needs nothing left out for failing too often.
THEOREM SkippedTheorem == Spec => []SkippedOnlyByFailure
<1>1. Init => Skips
  BY DEF Init, Skips, SkipInv
<1>2. Skips => SkippedOnlyByFailure
  BY Zenon DEF Skips, SkipInv, SkippedByFailure, SkippedOnlyByFailure
<1>. QED
  BY <1>1, <1>2, TaskInvariance, SkipsStep, PTL DEF Spec
=============================================================================
