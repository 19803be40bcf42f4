----------------------------- MODULE Executors ------------------------------
(***************************************************************************)
(* The executors whose work is a conversation with something that moves:   *)
(* the event service, the processes of /proc, the other services.  A       *)
(* behaviour is one executor within one request.                           *)
(***************************************************************************)
EXTENDS EventDumpers, ProcessScans, RemoteDumpers

vars == <<frame, event, scan, remote>>

EventKinds == {"list", "detail"}
ScanKinds == {"fdthread", "countfd", "overlimit", "orphans"}

Init == FrameInit /\ EventInit /\ ScanInit /\ RemoteInit

(* The executor takes a step. *)
Step ==
    \/ scenario.kind \in EventKinds /\ EventStep /\ UNCHANGED <<scan, remote>>
    \/ scenario.kind \in ScanKinds /\ ScanStep /\ UNCHANGED <<event, remote>>
    \/ scenario.kind \in Remote /\ RemoteStep /\ UNCHANGED <<event, scan>>

(* The rest of the system does; a cancelled request is noticed only while
   fault logs are read. *)
Environment ==
    \/ scenario.kind \in EventKinds /\ EventService /\ UNCHANGED <<scan, remote>>
    \/ scenario.kind = "detail" /\ Cancel /\ UNCHANGED <<event, scan, remote>>
    \/ scenario.kind \in ScanKinds /\ Change /\ UNCHANGED <<event, remote>>
    \/ scenario.kind \in Remote /\ Move /\ UNCHANGED <<event, scan>>

Next == Step \/ Environment

(* What only the executor itself changes, and every step of it does. *)
progress == <<pc, status, result, file, logs, nodes, pids, names>>

(* When Step is enabled: always but while a query has not ended, when the time
   limit has to end the wait. *)
CanStep == pc # "done" /\ (pc = "wait" => callback.completed_ \/ ENABLED WaitTimesOut)

(* Weak fairness of Step, spelled out.  The thread of the request goes on: a
   wait ends by its time limit, a read, a listing and a call to another
   service return.  Nothing is assumed of the rest of the system. *)
Fairness == []<>~CanStep \/ []<><<TRUE>>_progress

Spec == Init /\ [][Next]_vars /\ Fairness

(* Every executor comes to its end, whatever the services it asks answer, and
   whether or not a query that runs on another thread is ever completed: the
   calls the code waits for without a limit, such as sa->Dump, are taken to
   return. *)
ExecutorReturns == <>(pc = "done")
=============================================================================
