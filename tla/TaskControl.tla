---------------------------- MODULE TaskControl -----------------------------
(***************************************************************************)
(* TaskControl::ExecuteTask: the tasks that the roots of a request need    *)
(* are collected with their dependencies, the dependencies are checked to  *)
(* be satisfiable, and the tasks run level by level.  The tasks of a level *)
(* run concurrently under ffrt; data no later task needs is released       *)
(* between levels.  A task that fails is tried once more; one that failed  *)
(* too often is left out.                                                  *)
(*                                                                         *)
(* The registry with its failure counts belongs to the process and is      *)
(* shared by all requests without a lock, so the increment of a count is a *)
(* read and a later write, and counts move while another request scans.    *)
(* All creators are instances of TCreator, so CreateTask never fails.      *)
(***************************************************************************)
EXTENDS Integers, Sequences, FiniteSets

CONSTANTS
    Requests,           \* the requests that may run side by side
    Ids,                \* task ids
    Tasks,              \* the ids that are registered
    Roots,              \* the ids above ROOT_TASK_START
    Enabled,            \* the ids task_enable_config.json leaves enabled
    Mandatory,          \* the tasks registered as mandatory
    taskDependency,     \* per registered task: the ids it depends on
    dataDependency,     \* per registered task: the data it reads
    Produces,           \* per registered task: the data it injects
    RootLists,          \* per request: what CollectRootTasks may return
    MAX_FAILURE_COUNT   \* 10 in the code

ASSUME RegistryAssumption ==
    /\ Tasks \subseteq Ids /\ Roots \subseteq Ids /\ Enabled \subseteq Ids
    /\ IsFiniteSet(Ids)
    /\ Mandatory \subseteq Tasks
    /\ taskDependency \in [Tasks -> SUBSET Ids]
    /\ DOMAIN dataDependency = Tasks /\ DOMAIN Produces = Tasks
    /\ DOMAIN RootLists = Requests
    /\ MAX_FAILURE_COUNT \in Nat \ {0}

VARIABLES
    failureCount,  \* per registered task, in the shared registry
    pc,            \* per request: "idle", "scan" or "run"
    taskIds,       \* per request: the list of roots
    mode,          \* per request: "verify" or "execute"
    taskTopo,      \* per request: the tasks to run and their dependencies
    tasks,         \* per request: those not yet selected, likewise
    scan,          \* per request: tasks SelectRunnableTasks has still to visit
    runnable,      \* per request: runnableTasks
    stage,         \* per request and task: how far the task has come
    seen,          \* per request and task: the count the increment has read
    data,          \* per request: what its DataInventory holds
    injected,      \* per request: everything that was injected so far
    erased,        \* per request: tasks left out as failing too often
    result         \* per request: what ExecuteTask returned

control == <<pc, taskIds, mode, taskTopo, tasks, scan, runnable, erased, result>>
work    == <<stage, seen, data, injected>>
vars    == <<failureCount, control, work>>

(***************************************************************************)
(* The topology of a request.                                              *)
(***************************************************************************)
\* A dependency that is disabled in the configuration is dropped.
EnabledDependencies(t) == taskDependency[t] \cap Enabled

\* What the queue of BuildTaskTopo has visited after n rounds.
Visited(root) ==
    LET visited[n \in Nat] ==
            IF n = 0 THEN {root}
            ELSE LET before == visited[n - 1]
                 IN  before \cup UNION {EnabledDependencies(t) : t \in before \cap Tasks}
    IN  visited[Cardinality(Ids)]

\* An id that is not registered is visited but gets no entry.
BuildTaskTopo(root, topo) ==
    [t \in DOMAIN topo \cup (Visited(root) \cap Tasks) |->
        IF t \in DOMAIN topo THEN topo[t] ELSE EnabledDependencies(t)]

\* Every root but the first waits for the root before it in the list.
ChainRoot(topo, roots, i) ==
    IF i > 1 /\ roots[i] \in DOMAIN topo
    THEN [topo EXCEPT ![roots[i]] = @ \cup {roots[i - 1]}]
    ELSE topo

TopoOf(roots) ==
    LET topo[i \in 0 .. Len(roots)] ==
            IF i = 0 THEN [t \in {} |-> {}]
            ELSE IF roots[i] \notin Enabled THEN topo[i - 1]
            ELSE ChainRoot(BuildTaskTopo(roots[i], topo[i - 1]), roots, i)
    IN  topo[Len(roots)]

Init ==
    /\ failureCount = [t \in Tasks |-> 0]
    /\ pc = [r \in Requests |-> "idle"]
    /\ taskIds = [r \in Requests |-> <<>>]
    /\ mode = [r \in Requests |-> "verify"]
    /\ taskTopo = [r \in Requests |-> [t \in {} |-> {}]]
    /\ tasks = [r \in Requests |-> [t \in {} |-> {}]]
    /\ scan = [r \in Requests |-> {}]
    /\ runnable = [r \in Requests |-> {}]
    /\ stage = [r \in Requests |-> [t \in Tasks |-> "none"]]
    /\ seen = [r \in Requests |-> [t \in Tasks |-> 0]]
    /\ data = [r \in Requests |-> {}]
    /\ injected = [r \in Requests |-> {}]
    /\ erased = [r \in Requests |-> {}]
    /\ result = [r \in Requests |-> "none"]

Return(r, status) ==
    /\ pc' = [pc EXCEPT ![r] = "idle"]
    /\ result' = [result EXCEPT ![r] = status]

\* The head of ExecuteTask, up to the copy that VerifyTaskTopo works on.
ExecuteTask(r) ==
    /\ pc[r] = "idle"
    /\ \E roots \in RootLists[r] :
          LET topo == TopoOf(roots)
          IN  /\ taskIds' = [taskIds EXCEPT ![r] = roots]
              /\ IF (\E i \in DOMAIN roots : roots[i] \notin Roots) \/ DOMAIN topo = {}
                 THEN /\ Return(r, "DUMP_FAIL")
                      /\ taskTopo' = [taskTopo EXCEPT ![r] = [t \in {} |-> {}]]
                      /\ tasks' = [tasks EXCEPT ![r] = [t \in {} |-> {}]]
                      /\ UNCHANGED scan
                 ELSE /\ pc' = [pc EXCEPT ![r] = "scan"]
                      /\ result' = [result EXCEPT ![r] = "none"]
                      /\ taskTopo' = [taskTopo EXCEPT ![r] = topo]
                      /\ tasks' = [tasks EXCEPT ![r] = topo]
                      /\ scan' = [scan EXCEPT ![r] = DOMAIN topo]
    /\ mode' = [mode EXCEPT ![r] = "verify"]
    /\ runnable' = [runnable EXCEPT ![r] = {}]
    /\ stage' = [stage EXCEPT ![r] = [t \in Tasks |-> "none"]]
    /\ seen' = [seen EXCEPT ![r] = [t \in Tasks |-> 0]]
    /\ data' = [data EXCEPT ![r] = {}]
    /\ injected' = [injected EXCEPT ![r] = {}]
    /\ erased' = [erased EXCEPT ![r] = {}]
    /\ UNCHANGED failureCount

(***************************************************************************)
(* SelectRunnableTasks.                                                    *)
(***************************************************************************)
Without(f, t) == [u \in DOMAIN f \ {t} |-> f[u]]

IsTaskExcessivelyFailed(t) == failureCount[t] >= MAX_FAILURE_COUNT

\* Fault: one remaining dependency is taken for none.
NoDependencyLeftOne(r, t) == Cardinality(tasks[r][t]) <= 1

NoDependencyLeft(r, t) == tasks[r][t] = {}

\* The turn of the loop of SelectRunnableTasks for task t.
VisitTask(r, t) ==
    /\ pc[r] = "scan"
    /\ t \in scan[r]
    /\ scan' = [scan EXCEPT ![r] = @ \ {t}]
    /\ \/ /\ IsTaskExcessivelyFailed(t)
          /\ tasks' = [tasks EXCEPT ![r] = Without(@, t)]
          /\ erased' = [erased EXCEPT ![r] = @ \cup {t}]
          /\ UNCHANGED runnable
       \/ /\ ~IsTaskExcessivelyFailed(t)
          /\ NoDependencyLeft(r, t)
          /\ tasks' = [tasks EXCEPT ![r] = Without(@, t)]
          /\ runnable' = [runnable EXCEPT ![r] = @ \cup {t}]
          /\ UNCHANGED erased
       \/ /\ ~IsTaskExcessivelyFailed(t)
          /\ ~NoDependencyLeft(r, t)
          /\ UNCHANGED <<tasks, runnable, erased>>
    /\ UNCHANGED <<failureCount, pc, taskIds, mode, taskTopo, result, work>>

\* UpdateTaskDependencies at the end of a pass.
UpdateTaskDependencies(r) ==
    [t \in DOMAIN tasks[r] |-> tasks[r][t] \ runnable[r]]

PassDone(r) == pc[r] = "scan" /\ scan[r] = {}

\* VerifyTaskTopo: passes until nothing is runnable; then nothing may be left.
VerifyPass(r) ==
    /\ PassDone(r)
    /\ mode[r] = "verify"
    /\ runnable[r] # {}
    /\ tasks' = [tasks EXCEPT ![r] = UpdateTaskDependencies(r)]
    /\ scan' = [scan EXCEPT ![r] = DOMAIN tasks[r]]
    /\ runnable' = [runnable EXCEPT ![r] = {}]
    /\ UNCHANGED <<failureCount, pc, taskIds, mode, taskTopo, erased, result, work>>

VerifyFailed(r) ==
    /\ PassDone(r)
    /\ mode[r] = "verify"
    /\ runnable[r] = {}
    /\ DOMAIN tasks[r] # {}
    /\ Return(r, "DUMP_FAIL")
    /\ UNCHANGED <<failureCount, taskIds, mode, taskTopo, tasks, scan, runnable, erased, work>>

Verified(r) ==
    /\ PassDone(r)
    /\ mode[r] = "verify"
    /\ runnable[r] = {}
    /\ DOMAIN tasks[r] = {}
    /\ mode' = [mode EXCEPT ![r] = "execute"]
    /\ tasks' = [tasks EXCEPT ![r] = taskTopo[r]]
    /\ scan' = [scan EXCEPT ![r] = DOMAIN taskTopo[r]]
    /\ UNCHANGED <<failureCount, pc, taskIds, taskTopo, runnable, erased, result, work>>

(***************************************************************************)
(* ExecuteTaskInner.                                                       *)
(***************************************************************************)
\* Fault: the dependencies are updated during the verification only.
SubmitWithoutUpdate(r) ==
    /\ PassDone(r)
    /\ mode[r] = "execute"
    /\ runnable[r] # {}
    /\ pc' = [pc EXCEPT ![r] = "run"]
    /\ stage' = [stage EXCEPT ![r] =
                    [t \in Tasks |-> IF t \in runnable[r] THEN "first" ELSE @[t]]]
    /\ UNCHANGED <<failureCount, taskIds, mode, taskTopo, tasks, scan, runnable, erased, result,
                   seen, data, injected>>

SubmitRunnableTasks(r) ==
    /\ PassDone(r)
    /\ mode[r] = "execute"
    /\ runnable[r] # {}
    /\ pc' = [pc EXCEPT ![r] = "run"]
    /\ tasks' = [tasks EXCEPT ![r] = UpdateTaskDependencies(r)]
    /\ stage' = [stage EXCEPT ![r] =
                    [t \in Tasks |-> IF t \in runnable[r] THEN "first" ELSE @[t]]]
    /\ UNCHANGED <<failureCount, taskIds, mode, taskTopo, scan, runnable, erased, result,
                   seen, data, injected>>

\* Nothing is runnable: the loop ends, whether or not tasks are left.
ExecuteDone(r) ==
    /\ PassDone(r)
    /\ mode[r] = "execute"
    /\ runnable[r] = {}
    /\ Return(r, "DUMP_OK")
    /\ UNCHANGED <<failureCount, taskIds, mode, taskTopo, tasks, scan, runnable, erased, work>>

\* A run of task t injects its data or fails to; a task may do either and
\* still report success or failure.
RunTask(r, t, from, ok, failed) ==
    /\ pc[r] = "run"
    /\ stage[r][t] = from
    /\ \E put \in {{}, Produces[t]} :
          /\ data' = [data EXCEPT ![r] = @ \cup put]
          /\ injected' = [injected EXCEPT ![r] = @ \cup put]
    /\ \E next \in {ok, failed} : stage' = [stage EXCEPT ![r][t] = next]
    /\ UNCHANGED <<failureCount, control, seen>>

ExecuteSingleTask(r, t) == RunTask(r, t, "first", "reset", "retry")

HandleTaskRetry(r, t) == RunTask(r, t, "retry", "reset", "read")

\* UpdateTaskFailureCount: a reset is one write, an increment a read and a write.
ResetFailureCount(r, t) ==
    /\ stage[r][t] = "reset"
    /\ failureCount' = [failureCount EXCEPT ![t] = 0]
    /\ stage' = [stage EXCEPT ![r][t] = "ok"]
    /\ UNCHANGED <<control, seen, data, injected>>

ReadFailureCount(r, t) ==
    /\ stage[r][t] = "read"
    /\ seen' = [seen EXCEPT ![r][t] = failureCount[t]]
    /\ stage' = [stage EXCEPT ![r][t] = "store"]
    /\ UNCHANGED <<failureCount, control, data, injected>>

StoreFailureCount(r, t) ==
    /\ stage[r][t] = "store"
    /\ failureCount' = [failureCount EXCEPT ![t] = seen[r][t] + 1]
    /\ stage' = [stage EXCEPT ![r][t] = "fail"]
    /\ seen' = [seen EXCEPT ![r][t] = 0]
    /\ UNCHANGED <<control, data, injected>>

\* Fault: the data of the next level only is kept.
UsingDataNextLevel(r) ==
    UNION {dataDependency[t] : t \in {u \in DOMAIN tasks[r] : tasks[r][u] = {}}}

RemoveRestData(held, keepingDataType) == held \cap keepingDataType

\* What ReleaseNoUsedData keeps.
UsingData(r) == UNION {dataDependency[t] : t \in DOMAIN tasks[r]}

AllFinished(r) ==
    pc[r] = "run" /\ \A t \in runnable[r] : stage[r][t] \in {"ok", "fail"}

MandatoryFailed(r) == \E t \in runnable[r] \cap Mandatory : stage[r][t] = "fail"

\* ffrt::wait and GetTaskResult.
LevelFailed(r) ==
    /\ AllFinished(r)
    /\ MandatoryFailed(r)
    /\ Return(r, "DUMP_FAIL")
    /\ UNCHANGED <<failureCount, taskIds, mode, taskTopo, tasks, scan, runnable, erased, work>>

LevelDone(r) ==
    /\ AllFinished(r)
    /\ ~MandatoryFailed(r)
    /\ data' = [data EXCEPT ![r] = RemoveRestData(@, UsingData(r))]
    /\ pc' = [pc EXCEPT ![r] = "scan"]
    /\ scan' = [scan EXCEPT ![r] = DOMAIN tasks[r]]
    /\ runnable' = [runnable EXCEPT ![r] = {}]
    /\ UNCHANGED <<failureCount, taskIds, mode, taskTopo, tasks, erased, result, stage, seen, injected>>

Control(r) ==
    \/ \E t \in Tasks : VisitTask(r, t)
    \/ VerifyPass(r) \/ VerifyFailed(r) \/ Verified(r)
    \/ SubmitRunnableTasks(r) \/ ExecuteDone(r)
    \/ LevelFailed(r) \/ LevelDone(r)

Worker(r, t) ==
    \/ ExecuteSingleTask(r, t) \/ HandleTaskRetry(r, t)
    \/ ResetFailureCount(r, t) \/ ReadFailureCount(r, t) \/ StoreFailureCount(r, t)

Next ==
    \E r \in Requests :
        \/ ExecuteTask(r)
        \/ Control(r)
        \/ \E t \in Tasks : Worker(r, t)

Spec == Init /\ [][Next]_vars

(***************************************************************************)
(* Properties.                                                             *)
(***************************************************************************)
Finished(r) == {t \in Tasks : stage[r][t] \in {"ok", "fail"}}
Started(r)  == {t \in Tasks : stage[r][t] # "none"}

\* A task starts only after everything it depends on, the root before it in the
\* list included, has finished in the same request: the passes of
\* SelectRunnableTasks and the wait between levels give a topological order.
DependenciesFirst ==
    \A r \in Requests : \A t \in Started(r) : taskTopo[r][t] \subseteq Finished(r)

\* Data that a task declares and an earlier task has injected is still in the
\* inventory when the task runs, however many levels lie between the two
\* (ReleaseNoUsedData looks at all tasks that are left).
DataKept ==
    \A r \in Requests : \A t \in Tasks :
        stage[r][t] \in {"first", "retry"} =>
            injected[r] \cap dataDependency[t] \subseteq data[r]

\* Everything that task t of a topology waits for, directly or not, with t: the
\* least set of its tasks that holds t and with each task what that depends on.
Needs(topo, t) ==
    LET closed == {S \in SUBSET DOMAIN topo :
                      t \in S /\ \A u \in S : topo[u] \cap DOMAIN topo \subseteq S}
    IN  {u \in DOMAIN topo : \A S \in closed : u \in S}

\* ExecuteTask may return DUMP_OK with tasks that never ran, but only because
\* something they need was at the failure limit when VerifyTaskTopo or the
\* execution visited it: counts move under another request between the two.
SkippedOnlyByFailure ==
    \A r \in Requests : result[r] = "DUMP_OK" =>
        \A t \in DOMAIN taskTopo[r] \ Finished(r) : Needs(taskTopo[r], t) \cap erased[r] # {}

=============================================================================
