---------------------------- MODULE EventDumpers ----------------------------
(***************************************************************************)
(* The dumps of process kill records: EventListDumper prints the records,  *)
(* EventDetailDumper the fault logs of the killed runs.  Both query the    *)
(* event service through DumpEventInfo; a callback object collects the     *)
(* pages of the answer on a thread of the service while the dumper waits   *)
(* for the last one or for the time limit.                                 *)
(*                                                                         *)
(* An event is a record: id, time, domain, name (of the event), process,   *)
(* killId, running (APP_RUNNING_UNIQUE_ID) and logPath; Missing stands for *)
(* a parameter the event does not have.                                    *)
(***************************************************************************)
EXTENDS Executor, Lists

CONSTANTS
    NamesWith,      \* per process option: the process names it is a substring of
    IdsWith,        \* per event id option: the ids it is a prefix of
    KillReason,     \* ProcessKillReason::GetKillReason, per kill id
    AppExitReason   \* ProcessKillReason::GetAppExitReason, per kill id

VARIABLES
    param,      \* EventQueryParam of the query, with the members read before it
    callback,   \* EventQueryCallback: completed_, reason_, events_
    pending,    \* events of the answer the service has not delivered
    events,     \* DumpEventInfo and dumper: the events kept (events_)
    running,    \* runs named by kill records (pkRunningIdSet)
    logs,       \* paths of fault logs still to read
    file,       \* the log being read: its path and the lines read (fp_, fd_)
    opened,     \* logs with an open descriptor
    answered    \* answers of the completed queries: the reason and the rules (history)

event == <<param, callback, pending, events, running, logs, file, opened, answered>>

Missing == "Missing"
Closed == [path |-> Empty, read |-> 0]
NoLimit == -1
ENFILE == "-ENFILE"
Note(text) == << <<"note", text>> >>
NoAnswer == [completed_ |-> FALSE, reason_ |-> "-1", events_ |-> <<>>]

PROCESS_KILL == {<<"FRAMEWORK", "PROCESS_KILL">>, <<"KERNEL_VENDOR", "PROCESS_KILL">>}

(* The store holds finitely many records; GetAppExitReason knows every number. *)
ASSUME EventAssumption ==
    /\ DOMAIN AppExitReason \cap {Missing, "out_of_range"} = {}
    /\ \A s \in Scenarios : s.kind \in {"list", "detail"} =>
          /\ IsFiniteSet(s.store) /\ s.count \in Int
          /\ \A e \in s.store : e.killId \in DOMAIN AppExitReason \cup {Missing, "out_of_range"}

EventInit ==
    /\ param = [startTime_ |-> 0, endTime_ |-> 0, count |-> NoLimit,
                processName_ |-> Empty, eventId_ |-> Empty, queryRule |-> {}]
    /\ callback = NoAnswer
    /\ pending = {}
    /\ events = <<>>
    /\ running = {}
    /\ logs = <<>>
    /\ file = Closed
    /\ opened = {}
    /\ answered = <<>>

-----------------------------------------------------------------------------
(* The records. *)

InTime(e, p) == /\ p.startTime_ # 0 => e.time >= p.startTime_
                /\ p.endTime_ # 0 => e.time <= p.endTime_

(* What the event service holds for a query. *)
Stored(p) == {e \in scenario.store : <<e.domain, e.name>> \in p.queryRule /\ InTime(e, p)}

(* std::sort, in descending order of time: events of the same time may end
   up in either order. *)
SortEventsByTimeDesc(es) ==
    {s \in {[i \in DOMAIN es |-> es[q[i]]] : q \in SetToSeqs(DOMAIN es)} :
        \A i, j \in DOMAIN s : i < j => s[i].time >= s[j].time}

NamesProcess(e, p) == p.processName_ = Empty \/ e.process \in NamesWith[p.processName_]

ShouldSkipEvent(e, p) ==
    \/ e.process \in {Missing, Empty}
    \/ e.killId \in {Missing, "out_of_range"}
    \/ ~NamesProcess(e, p)

(* A row has all its columns unless the kill id has no reason; a parameter
   the event lacks leaves a Null cell. *)
HasRow(e) == AppExitReason[e.killId] # "InvalidKillId"

BuildRow(e) == <<"row", e, AppExitReason[e.killId]>>

Resize(s, count) == IF count > 0 /\ Len(s) > count THEN SubSeq(s, 1, count) ELSE s

Listed(e, p) == ~ShouldSkipEvent(e, p) /\ HasRow(e)

(* Fault: the count limits the events looked at, not the rows. *)
BuildResultsOfFirst(es, p) ==
    LET first == Resize(es, p.count)
        shown == Kept(first, {e \in Range(first) : Listed(e, p)})
    IN [i \in DOMAIN shown |-> BuildRow(shown[i])]

BuildResults(es, p) ==
    LET shown == Resize(Kept(es, {e \in Range(es) : Listed(e, p)}), p.count)
    IN [i \in DOMAIN shown |-> BuildRow(shown[i])]

IsPkEventCandidate(e, p) ==
    /\ e.process # Missing /\ e.id # Missing /\ e.killId \notin {Missing, "out_of_range"}
    /\ NamesProcess(e, p)
    /\ p.eventId_ = Empty \/ e.id \in IdsWith[p.eventId_]

FAULTEVENTSET == {"Js Error", "Cpp Crash", "THREAD_BLOCK_6S", "APP_INPUT_BLOCK",
                  "LIFECYCLE_TIMEOUT", "JsError", "CppCrash", "ThreadBlock6S",
                  "AppInputBlock", "LifecycleTimeout"}

FaultTypes(reason) ==
    CASE reason \in {"Cpp Crash", "CppCrash"} -> {"CPP_CRASH"}
      [] reason \in {"Js Error", "JsError"} -> {"JS_ERROR"}
      [] reason \in {"LIFECYCLE_TIMEOUT", "LifecycleTimeout"} -> {"SYS_FREEZE", "APP_FREEZE"}
      [] OTHER -> {"APP_FREEZE"}

(* The runs killed by a fault, the types of the faults, and the result. *)
ExtractPkRunningIdsAndFaultTypes(es, p) ==
    LET candidates == {e \in Range(es) : IsPkEventCandidate(e, p)}
        faults == {e \in candidates : KillReason[e.killId] \in FAULTEVENTSET}
        runs == {e \in faults : e.running # Missing}
    IN [running |-> {e.running : e \in runs},
        types |-> UNION {FaultTypes(KillReason[e.killId]) : e \in runs},
        result |-> IF runs # {} THEN "EVENT_DUMP_OK"
                   ELSE IF candidates # faults THEN "NOT_FAULT_EVENT"
                   ELSE "NONE_PROCESSKILL_EVENT"]

RulesOf(type) ==
    CASE type = "CPP_CRASH" -> {<<"RELIABILITY", "CPP_CRASH">>}
      [] type = "JS_ERROR" -> {<<"AAFWK", "JS_ERROR">>, <<"ACE", "JS_ERROR">>}
      [] OTHER -> {<<"RELIABILITY", type>>}

(* The faults are looked for at any time. *)
FillQueryParam(p, types) ==
    [p EXCEPT !.queryRule = UNION {RulesOf(t) : t \in types},
              !.startTime_ = 0, !.endTime_ = 0]

(* Fault: the events of the types are taken, whichever run they are of. *)
OfRunsByType(es, runs) == es

(* The fault events of the killed runs. *)
OfRuns(es, runs) == Kept(es, {e \in Range(es) : e.running # Missing /\ e.running \in runs})

FilterLogPaths(es, p) ==
    LET named == Resize(Kept(es, {e \in Range(es) : e.logPath # Missing}), p.count)
    IN [i \in DOMAIN named |-> named[i].logPath]

-----------------------------------------------------------------------------
(* The query and its callback. *)

EventListPreExecute ==
    /\ scenario.kind = "list"
    /\ DoPreExecute("query")
    /\ param' = [startTime_ |-> scenario.startTime_, endTime_ |-> scenario.endTime_,
                 count |-> scenario.count, processName_ |-> scenario.processName_,
                 eventId_ |-> Empty, queryRule |-> PROCESS_KILL]
    /\ UNCHANGED <<callback, pending, events, running, logs, file, opened, answered>>

(* A record asked for by its id is looked for at any time. *)
EventDetailPreExecute ==
    /\ scenario.kind = "detail"
    /\ DoPreExecute("query")
    /\ LET byId == scenario.eventId_ # Empty
       IN param' = [startTime_ |-> IF byId THEN 0 ELSE scenario.startTime_,
                    endTime_ |-> IF byId THEN 0 ELSE scenario.endTime_,
                    count |-> IF byId THEN NoLimit ELSE scenario.count,
                    processName_ |-> scenario.processName_,
                    eventId_ |-> scenario.eventId_, queryRule |-> PROCESS_KILL]
    /\ UNCHANGED <<callback, pending, events, running, logs, file, opened, answered>>

(* HiSysEventManager::Query takes the query, or fails. *)
Query ==
    /\ Goto("query", "wait") /\ UNCHANGED result
    /\ callback' = NoAnswer
    /\ pending' = Stored(param)
    /\ UNCHANGED <<param, events, running, logs, file, opened, answered>>

QueryFails == DoExecute("query", FAIL, <<>>) /\ UNCHANGED event

(* The event service delivers a page. *)
OnQuery ==
    /\ pc # "pre" /\ ~callback.completed_
    /\ \E page \in (SUBSET pending) \ {{}} : \E sysEvents \in SetToSeqs(page) :
        /\ callback' = [callback EXCEPT !.events_ = @ \o sysEvents]
        /\ pending' = pending \ page
    /\ UNCHANGED <<param, events, running, logs, file, opened, answered, frame>>

(* The service ends the answer: all of it delivered, cut short by its limit
   (-ENFILE), or failed. *)
OnComplete ==
    /\ pc \notin {"pre", "query"} /\ ~callback.completed_
    /\ \E reason \in {"0", ENFILE, "failed"} :
        /\ reason = "0" => pending = {}
        /\ callback' = [callback EXCEPT !.completed_ = TRUE, !.reason_ = reason]
    /\ UNCHANGED <<param, pending, events, running, logs, file, opened, answered, frame>>

(* Fault: the wait has no time limit. *)
WaitWithoutLimit == callback.completed_ /\ DoExecute("wait", FAIL, <<>>) /\ UNCHANGED event

(* TIMEOUT_PERIOD passes first. *)
WaitTimesOut == ~callback.completed_ /\ DoExecute("wait", FAIL, <<>>) /\ UNCHANGED event

QueryFailed ==
    /\ callback.completed_ /\ callback.reason_ \notin {"0", ENFILE}
    /\ DoExecute("wait", FAIL, <<>>)
    /\ UNCHANGED event

Answer == callback.completed_ /\ callback.reason_ \in {"0", ENFILE}

Answered == answered' = Append(answered, [reason |-> callback.reason_, param |-> param])

(* EventListDumper::Execute after the query. *)
PrintEventList ==
    /\ Answer /\ scenario.kind = "list"
    /\ \E sorted \in SortEventsByTimeDesc(callback.events_) :
        /\ events' = sorted
        /\ LET rows == BuildResults(sorted, param)
           IN DoExecute("wait", OK, IF rows = <<>> THEN Note("no_records_found")
                                    ELSE << <<"titles">> >> \o rows)
    /\ Answered
    /\ UNCHANGED <<param, callback, pending, running, logs, file, opened>>

-----------------------------------------------------------------------------
(* EventDetailDumper::Execute after the first query and after the second. *)

FirstAnswer == Answer /\ scenario.kind = "detail" /\ param.queryRule = PROCESS_KILL

MatchKills ==
    /\ FirstAnswer
    /\ LET found == ExtractPkRunningIdsAndFaultTypes(callback.events_, param)
       IN \/ /\ found.result = "EVENT_DUMP_OK"
             /\ Goto("wait", "query") /\ UNCHANGED result
             /\ param' = FillQueryParam(param, found.types)
             /\ running' = found.running
          \/ /\ found.result # "EVENT_DUMP_OK"
             /\ DoExecute("wait", OK,
                    IF found.result = "NOT_FAULT_EVENT"
                        THEN Note("this_type_of_record_does_not_have_faultlog")
                        ELSE Note("no_faultlogs_found"))
             /\ UNCHANGED <<param, running>>
    /\ Answered
    /\ UNCHANGED <<callback, pending, events, logs, file, opened>>

MatchFaults ==
    /\ Answer /\ scenario.kind = "detail" /\ param.queryRule # PROCESS_KILL
    /\ \E sorted \in SortEventsByTimeDesc(OfRuns(callback.events_, running)) :
        /\ events' = sorted
        /\ LET logPaths == FilterLogPaths(sorted, param)
           IN \/ /\ logPaths = <<>>
                 /\ DoExecute("wait", OK, Note("no_faultlogs_found"))
                 /\ UNCHANGED logs
              \/ /\ logPaths # <<>>
                 /\ Goto("wait", "logs") /\ UNCHANGED result
                 /\ logs' = logPaths
    /\ Answered
    /\ UNCHANGED <<param, callback, pending, running, file, opened>>

(* Fault: the descriptor of the log is forgotten, not closed. *)
CloseFdForgets == opened

(* The descriptors open once fp_ or fd_ is closed. *)
CloseFd == opened \ {file.path}

(* ReadLogsByPaths: the title and the name of the next log are printed, the
   log before it is closed, and the file is opened, if it still exists. *)
OpenLog ==
    /\ logs # <<>>
    /\ pc = "logs"
    /\ LET path == Head(logs)
           title == << <<"faultlog", path>> >>
       IN \/ /\ path \in scenario.expired
             /\ result' = result \o title \o Note("deleted_by_the_system_due_to_expiration")
             /\ pc' = "next" /\ file' = Closed /\ opened' = CloseFd
          \/ /\ path \notin scenario.expired
             /\ result' = result \o title
             /\ pc' = "read" /\ file' = [path |-> path, read |-> 0]
             /\ opened' = CloseFd \cup {path}
          \/ /\ path \notin scenario.expired    \* fdopen fails, the descriptor is closed
             /\ result' = result \o title
             /\ pc' = "next" /\ file' = Closed /\ opened' = CloseFd
    /\ logs' = Tail(logs)
    /\ UNCHANGED <<param, callback, pending, events, running, answered, scenario, status, canceled>>

(* One getline of ReadSingleLogFile. *)
ReadLine ==
    /\ ~canceled
    /\ Goto("read", "read")
    /\ file.read < scenario.lines
    /\ file' = [file EXCEPT !.read = @ + 1]
    /\ result' = Append(result, <<"line", file.path, file.read + 1>>)
    /\ UNCHANGED <<param, callback, pending, events, running, logs, opened, answered>>

EndOfLog ==
    /\ canceled \/ file.read = scenario.lines
    /\ Goto("read", "next")
    /\ UNCHANGED <<result, event>>

NextLog ==
    /\ logs # <<>> /\ ~canceled
    /\ Goto("next", "logs")
    /\ UNCHANGED <<result, event>>

LastLog ==
    /\ logs = <<>> \/ canceled
    /\ DoExecute("next", OK, <<>>)
    /\ UNCHANGED event

EventAfterExecute ==
    /\ DoAfterExecute
    /\ opened' = CloseFd /\ file' = Closed
    /\ UNCHANGED <<param, callback, pending, events, running, logs, answered>>

EventDestroy ==
    /\ Destroy
    /\ opened' = CloseFd /\ file' = Closed
    /\ UNCHANGED <<param, callback, pending, events, running, logs, answered>>

EventStep ==
    \/ EventListPreExecute \/ EventDetailPreExecute
    \/ Query \/ QueryFails \/ WaitTimesOut \/ QueryFailed
    \/ PrintEventList \/ MatchKills \/ MatchFaults
    \/ OpenLog \/ ReadLine \/ EndOfLog \/ NextLog \/ LastLog
    \/ EventAfterExecute \/ EventDestroy

EventService == OnQuery \/ OnComplete

-----------------------------------------------------------------------------
(* Properties. *)

Newest(shown, wanted, count) ==
    /\ Len(shown) = IF count > 0 /\ Cardinality(wanted) > count THEN count
                    ELSE Cardinality(wanted)
    /\ Range(shown) \subseteq wanted
    /\ Cardinality(Range(shown)) = Len(shown)
    /\ \A i, j \in DOMAIN shown : i < j => shown[i].time >= shown[j].time
    /\ \A i \in DOMAIN shown : \A e \in wanted \ Range(shown) : shown[i].time >= e.time

(* A list that is reported as dumped shows the newest records of the asked
   process, each once, the newest first, as many as were asked for, out of
   everything the event service has (out of what it delivered, when it cut
   its answer short); a query that fails or does not end in time shows
   nothing and is reported as failed. *)
EventListNewest ==
    /\ scenario.kind = "list" /\ status = OK =>
        LET complete == answered[1].reason = "0"
            wanted == {e \in (IF complete THEN Stored(param) ELSE Range(callback.events_)) :
                          /\ e.process \notin {Missing, Empty} /\ NamesProcess(e, param)
                          /\ e.killId \in DOMAIN AppExitReason
                          /\ AppExitReason[e.killId] # "InvalidKillId"}
        IN /\ answered[1].reason \in {"0", ENFILE}
           /\ IF wanted = {} THEN result = Note("no_records_found")
              ELSE Newest([i \in 1..(Len(result) - 1) |-> result[i + 1][2]], wanted, scenario.count)
    /\ scenario.kind = "list" /\ status = FAIL => result = <<>>

(* The fault logs a request asked for: those of the runs which a fault ended
   and whose kill record the options select. *)
AskedFaults ==
    LET kills == {e \in scenario.store :
                    /\ <<e.domain, e.name>> \in PROCESS_KILL
                    /\ scenario.eventId_ = Empty => InTime(e, scenario)
                    /\ scenario.eventId_ # Empty => e.id \in IdsWith[scenario.eventId_]
                    /\ e.process # Missing
                    /\ scenario.processName_ # Empty => e.process \in NamesWith[scenario.processName_]
                    /\ e.killId \in DOMAIN KillReason /\ KillReason[e.killId] \in FAULTEVENTSET
                    /\ e.running # Missing}
    IN {e \in scenario.store : <<e.domain, e.name>> \notin PROCESS_KILL /\ e.logPath # Missing
                                /\ \E k \in kills : k.running = e.running}

ShownLogs == LET titles == SelectSeq(result, LAMBDA r : r[1] = "faultlog")
             IN [i \in DOMAIN titles |-> CHOOSE e \in scenario.store : e.logPath = titles[i][2]]

(* Every fault log that is printed is of a run one of the asked kill records
   names, the newest first; when both queries were answered in full and
   nobody cancelled the request, no such log of the queried kinds is left
   out but for the count; and every line is printed under the title of its
   own log. *)
FaultLogsOfKills ==
    scenario.kind = "detail" =>
        /\ Range(ShownLogs) \subseteq AskedFaults
        /\ \A i, j \in DOMAIN ShownLogs : i < j => ShownLogs[i].time >= ShownLogs[j].time
        /\ status = OK /\ ~canceled /\ Len(answered) = 2 /\ (\A i \in 1..2 : answered[i].reason = "0") =>
             Newest(ShownLogs, AskedFaults \cap Stored(param),
                    IF scenario.eventId_ = Empty THEN scenario.count ELSE NoLimit)
        /\ \A i \in DOMAIN result : result[i][1] = "line" =>
             LET t == i - result[i][3] IN t \in DOMAIN result /\ result[t] = <<"faultlog", result[i][2]>>

(* At most one fault log is open at a time, the one being read, and none once
   the dumper is gone, cancelled or not. *)
LogClosed ==
    /\ opened \subseteq {file.path}
    /\ pc = "done" => opened = {}
=============================================================================
