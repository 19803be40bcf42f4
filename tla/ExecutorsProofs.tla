--------------------------- MODULE ExecutorsProofs --------------------------
(***************************************************************************)
(* Proofs about the executors, for every set of scenarios and any number   *)
(* of events, processes, abilities and changes of them.                    *)
(***************************************************************************)
EXTENDS Executors, SequenceTheorems, FiniteSetTheorems, TLAPS

-----------------------------------------------------------------------------
(* Sequences whose elements may be anything: rows, sections of an output. *)

IsSeq(s) == s \in Seq({s[i] : i \in DOMAIN s})

\* A sequence over some set is a sequence.
LEMMA SeqIsSeq ==
  ASSUME NEW T, NEW s \in Seq(T)
  PROVE  IsSeq(s)
  BY SeqOfRange, RangeOfSeq DEF IsSeq, Range

\* The places of a prefix.
LEMMA PlacesOfPrefix == \A m, n \in Nat : m <= n => 1..m \subseteq 1..n
  OBVIOUS

\* What Append does to a sequence, whatever its elements are.
LEMMA AppendAny ==
  ASSUME NEW s, IsSeq(s), NEW e
  PROVE  /\ IsSeq(Append(s, e))
         /\ Len(s) \in Nat /\ DOMAIN s = 1..Len(s)
         /\ Len(Append(s, e)) = Len(s) + 1
         /\ DOMAIN Append(s, e) = 1..(Len(s) + 1)
         /\ \A i \in 1..Len(s) : Append(s, e)[i] = s[i]
         /\ Append(s, e)[Len(s) + 1] = e
<1>. DEFINE T == {s[i] : i \in DOMAIN s} \cup {e}
<1>1. s \in Seq(T) /\ e \in T
  BY Zenon, SeqMonotonic DEF IsSeq
<1>. HIDE DEF T
<1>2. Append(s, e) \in Seq(T)
  BY <1>1
<1>3. IsSeq(Append(s, e))
  BY Zenon, <1>2, SeqIsSeq
<1>. QED
  BY <1>1, <1>3, AppendProperties, LenProperties

\* Concatenating nothing, or one element.
LEMMA ConcatAny ==
  ASSUME NEW s, IsSeq(s), NEW e
  PROVE  s \o <<>> = s /\ s \o <<e>> = Append(s, e)
<1>. DEFINE T == {s[i] : i \in DOMAIN s} \cup {e}
<1>1. s \in Seq(T) /\ e \in T
  BY Zenon, SeqMonotonic DEF IsSeq
<1>. HIDE DEF T
<1>. QED
  BY Zenon, <1>1, ConcatEmptySeq, AppendIsConcat

\* Sequences of the same length and the same elements are the same.
LEMMA SameSeq ==
  ASSUME NEW s, NEW t, IsSeq(s), IsSeq(t), Len(s) = Len(t), \A i \in 1..Len(s) : s[i] = t[i]
  PROVE  s = t
<1>. DEFINE T == {s[i] : i \in DOMAIN s} \cup {t[i] : i \in DOMAIN t}
<1>1. s \in Seq(T) /\ t \in Seq(T)
  BY Zenon, SeqMonotonic DEF IsSeq
<1>. HIDE DEF T
<1>. QED
  BY Zenon, <1>1, SeqEqual

\* A list of arguments with one more at its end.
LEMMA Arguments ==
  ASSUME NEW a, NEW b, NEW c
  PROVE  /\ Append(<<a>>, b) = <<a, b>> /\ Append(<<>>, a) = <<a>>
         /\ Append(<<a, b>>, c) = <<a, b, c>>
         /\ <<a>> \o <<b>> = <<a, b>> /\ <<a>> \o <<>> = <<a>>
<1>1. IsSeq(<<>>) /\ IsSeq(<<a>>) /\ IsSeq(<<a, b>>) /\ IsSeq(<<a, b, c>>)
  BY DEF IsSeq
<1>. DEFINE s == Append(<<a>>, b)  t == Append(<<a, b>>, c)
            u == <<a, b>>          v == <<a, b, c>>
<1>2. IsSeq(s) /\ IsSeq(t) /\ IsSeq(u) /\ IsSeq(v)
  BY Zenon, <1>1, AppendAny
<1>3. Len(s) = 2 /\ Len(t) = 3 /\ Len(u) = 2 /\ Len(v) = 3
  BY <1>1, AppendAny
<1>4. s[1] = a /\ s[2] = b /\ u[1] = a /\ u[2] = b
  BY <1>1, AppendAny
<1>5. t[1] = a /\ t[2] = b /\ t[3] = c /\ v[1] = a /\ v[2] = b /\ v[3] = c
  BY <1>1, AppendAny
<1>. HIDE DEF s, t, u, v
<1>6. s = u
  BY <1>2, <1>3, <1>4, SameSeq
<1>7. t = v
  BY <1>2, <1>3, <1>5, SameSeq
<1>8. Append(<<>>, a) = <<a>>
  BY ConcatAny, <1>1
<1>. QED
  BY Zenon, <1>1, <1>6, <1>7, <1>8, ConcatAny DEF s, t, u, v

\* Before Execute returns, the status is none of those it may return.
LEMMA EmptyIsNoStatus == Empty # OK /\ Empty # FAIL /\ OK # FAIL
  BY Zenon DEF Empty, OK, FAIL

-----------------------------------------------------------------------------
(* Which executor runs never changes. *)

\* No step of an event dumper changes its options.
LEMMA EventStepFixed == EventStep \/ EventService => scenario' = scenario
  BY Zenon DEF EventStep, EventService, OnQuery, OnComplete, EventListPreExecute,
     EventDetailPreExecute, Query, QueryFails, WaitTimesOut, QueryFailed, PrintEventList, MatchKills,
     MatchFaults, OpenLog, ReadLine, EndOfLog, NextLog, LastLog, EventAfterExecute, EventDestroy,
     DoPreExecute, DoExecute, DoAfterExecute, Destroy, Goto, frame

\* No step of a scan changes its options.
LEMMA ScanStepFixed == ScanStep \/ Change => scenario' = scenario
  BY Zenon DEF ScanStep, Change, FdThreadPreExecute, CountFdNums, ListFds, GetFdLinks, DumpFdInfo,
     CountFdNumsReturns, ListThreads, ReadThread, DumpThreadInfo, ScanPids, ScanPidOverLimit,
     ScanPidOverLimitReturns, CountProcess, ListOrphans, ReadOrphan, ScanOrphanVnodesForProcess,
     ScanOrphanVnodeOverLimit, ScanAfterExecute, ScanDestroy,
     DoPreExecute, DoExecute, DoAfterExecute, Destroy, Goto, frame

\* No step of a dump that asks other services changes its options.
LEMMA RemoteStepFixed == RemoteStep \/ Move => scenario' = scenario
  BY Zenon DEF RemoteStep, Move, NoSamgr, IpcPreExecute, SetIpcStatCmd, CheckPid, NoManager, IpcAction,
     DoDumpIpcStat, DumpIpcStatReturns, SaPreExecute, SaExecute, GetDataHeading, GetDataDump,
     SaExecuteReturns, SaDestroy, ListPreExecute, ListExecute, NetPreExecute, NetExecute,
     RemoteAfterExecute, RemoteDestroy,
     DoPreExecute, DoExecute, DoAfterExecute, Destroy, Goto, frame

\* The scenario of a behaviour is fixed.
LEMMA ScenarioFixed == [Next]_vars => scenario' = scenario
  BY Zenon, EventStepFixed, ScanStepFixed, RemoteStepFixed
     DEF Next, Step, Environment, Cancel, vars, frame

-----------------------------------------------------------------------------
(* IPC statistics. *)

IpcPlaces == {"pre", "start_ipc", "check", "action", "ask", "after", "end", "done"}

\* No manager was asked, and nothing was written.
NothingAsked == asked = <<>> /\ output = <<>>

ManagerSet == {"samgr", "appmgr", "hdf"}

\* Asking the three managers: those asked, then those still to be asked, are the
\* managers in their order.
AskingAll ==
    /\ cmd = <<"--ipc", "all", scenario.action>>
    /\ asked \in Seq(ManagerSet) /\ names \in Seq(ManagerSet)
    /\ Len(asked) + Len(names) = 3
    /\ \A i \in 1..Len(asked) : asked[i] = Managers[i]
    /\ \A i \in 1..Len(names) : names[i] = Managers[Len(asked) + i]

\* Asking one manager: one that listed the process, or an object that was not found.
AskingOne ==
    \/ names = <<sa>> /\ asked = <<>> /\ sa = "null"
    \/ /\ sa \in owners /\ cmd = <<"--ipc", ProcessArg(sa), scenario.action>>
       /\ \/ names = <<sa>> /\ asked = <<>>
          \/ names = <<>> /\ asked = <<sa>>

\* What was asked so far, and how: what AskedOfOwner says of it.
AskedRight ==
    \A i \in DOMAIN asked :
        IF scenario.all
        THEN asked[i] = Managers[i] /\ cmd = <<"--ipc", "all", scenario.action>>
        ELSE asked[i] \in owners /\ cmd = <<"--ipc", ProcessArg(asked[i]), scenario.action>>

IpcInv ==
    /\ pc \in IpcPlaces
    /\ owner \in owners
    /\ pc \in {"pre", "start_ipc", "check", "action", "ask"} => status = Empty
    /\ pc \in {"pre", "start_ipc", "check", "action"} => NothingAsked
    /\ pc = "check" => ~scenario.all /\ cmd = <<"--ipc">>
    /\ pc = "action" =>
         IF scenario.all THEN cmd = <<"--ipc", "all">>
         ELSE sa = "null" \/ (sa \in owners /\ cmd = <<"--ipc", ProcessArg(sa)>>)
    /\ pc = "ask" => IF scenario.all THEN AskingAll ELSE AskingOne
    /\ AskedRight
    /\ status = OK => Len(asked) = IF scenario.all THEN 3 ELSE 1
    /\ IsSeq(output)
    /\ \/ \A i \in DOMAIN output : output[i][1] # "error"
       \/ status = FAIL /\ asked = <<>>

\* The invariant of a request for IPC statistics.
IpcInvariant == scenario.kind = "ipc" => IpcInv

\* It holds when the executor is made.
LEMMA IpcInit == Init => IpcInvariant
<1>. SUFFICES ASSUME Init, scenario.kind = "ipc" PROVE IpcInv
  BY Zenon DEF IpcInvariant
<1>1. IsSeq(<<>>)
  BY Zenon, SeqIsSeq, EmptySeq
<1>2. pc = "pre" /\ status = Empty /\ owners = {owner} /\ asked = <<>> /\ output = <<>>
  BY Zenon DEF Init, FrameInit, RemoteInit
<1>3. AskedRight
  BY <1>2 DEF AskedRight
<1>. QED
  BY <1>1, <1>2, <1>3, EmptyIsNoStatus DEF IpcInv, IpcPlaces, NothingAsked

\* A step of another kind of executor, or of the environment of one, is none of a
\* request for IPC statistics.
LEMMA IpcSteps ==
  ASSUME [Next]_vars, scenario.kind = "ipc"
  PROVE  RemoteStep \/ Move \/ UNCHANGED vars
<1>1. scenario.kind \notin EventKinds /\ scenario.kind \notin ScanKinds /\ scenario.kind # "detail"
  BY Zenon DEF EventKinds, ScanKinds
<1>. QED
  BY Zenon, <1>1 DEF Next, Step, Environment

\* It is kept by every step.
LEMMA IpcStep == IpcInvariant /\ [Next]_vars => IpcInvariant'
<1>. SUFFICES ASSUME IpcInvariant, [Next]_vars, scenario'.kind = "ipc" PROVE IpcInv'
  BY Zenon DEF IpcInvariant
<1>1. scenario' = scenario /\ scenario.kind = "ipc" /\ IpcInv
  BY Zenon, ScenarioFixed DEF IpcInvariant
<1>. USE EmptyIsNoStatus
<1>2. ASSUME UNCHANGED <<pc, status, sa, cmd, names, output, asked>>, owner' \in owners',
             owners \subseteq owners'
      PROVE  IpcInv'
  BY Zenon, <1>1, <1>2 DEF IpcInv, NothingAsked, AskingAll, AskingOne, AskedRight
<1>3. CASE Move
  BY Zenon, <1>1, <1>2, <1>3 DEF Move, frame, IpcInv
<1>4. CASE UNCHANGED vars
  BY Zenon, <1>1, <1>2, <1>4 DEF vars, frame, remote, IpcInv
<1>5. CASE NoSamgr
  BY Zenon, <1>1, <1>5 DEF NoSamgr, DoExecute, remote, IpcInv, IpcPlaces, NothingAsked, AskedRight
<1>6. CASE IpcPreExecute
  BY Zenon, <1>1, <1>6 DEF IpcPreExecute, DoPreExecute, Goto, IpcInv, IpcPlaces, NothingAsked, AskedRight
<1>7. ASSUME pc \in {"start_ipc", "check", "action"}, UNCHANGED <<status, asked, output, owner, owners>>,
             \/ pc' = "check" /\ ~scenario.all /\ cmd' = <<"--ipc">>
             \/ pc' = "action" /\ scenario.all /\ cmd' = <<"--ipc", "all">>
             \/ /\ pc' = "action" /\ ~scenario.all
                /\ sa' # "null" => sa' \in owners /\ cmd' = <<"--ipc", ProcessArg(sa')>>
      PROVE  IpcInv'
  <2>1. NothingAsked /\ NothingAsked' /\ status' = Empty /\ IsSeq(output')
    BY Zenon, <1>1, <1>7 DEF IpcInv, NothingAsked
  <2>2. AskedRight' /\ \A i \in DOMAIN output' : output'[i][1] # "error"
    BY <2>1 DEF NothingAsked, AskedRight
  <2>. QED
    BY Zenon, <1>1, <1>7, <2>1, <2>2 DEF IpcInv, IpcPlaces
<1>8. CASE SetIpcStatCmd
  <2>1. <<"--ipc">> \o <<"all">> = <<"--ipc", "all">> /\ <<"--ipc">> \o <<>> = <<"--ipc">>
    BY Zenon, Arguments
  <2>. QED
    BY Zenon, <1>1, <1>7, <1>8, <2>1 DEF SetIpcStatCmd, Goto
<1>9. CASE CheckPid
  <2>1. pc = "check" /\ ~scenario.all /\ cmd = <<"--ipc">> /\ owner \in owners
    BY Zenon, <1>1, <1>9 DEF CheckPid, Goto, IpcInv
  <2>2. Append(cmd, ProcessArg(owner)) = <<"--ipc", ProcessArg(owner)>>
    BY Zenon, <2>1, Arguments
  <2>. QED
    BY Zenon, <1>1, <1>7, <1>9, <2>1, <2>2 DEF CheckPid, Goto, Checked, CheckSystemAbility
<1>10. ASSUME pc' = "end", status' = FAIL, asked' = <<>>, owner' \in owners', IsSeq(output')
       PROVE  IpcInv'
  <2>1. AskedRight'
    BY <1>10 DEF AskedRight
  <2>2. status' # OK
    BY Zenon, <1>10
  <2>. QED
    BY Zenon, <1>10, <2>1, <2>2 DEF IpcInv, IpcPlaces
<1>11. CASE NoManager
  <2>1. pc = "check" /\ asked = <<>> /\ IsSeq(output) /\ owner \in owners
    BY Zenon, <1>1, <1>11 DEF NoManager, DoExecute, IpcInv, NothingAsked
  <2>2. IsSeq(output')
    BY Zenon, <2>1, <1>11, AppendAny DEF NoManager, SendErrorMessage
  <2>. QED
    BY Zenon, <1>10, <1>11, <2>1, <2>2 DEF NoManager, DoExecute
<1>12. ASSUME UNCHANGED <<owner, owners>>, pc' = "ask", status' = Empty, IsSeq(output'),
              \A i \in DOMAIN output' : output'[i][1] # "error",
              IF scenario.all THEN AskingAll' ELSE AskingOne'
       PROVE  IpcInv'
  <2>1. AskedRight'
    <3>1. CASE scenario.all
      BY Zenon, <1>1, <1>12, <3>1, LenProperties DEF AskedRight, AskingAll
    <3>2. CASE ~scenario.all
      BY <1>1, <1>12, <3>2 DEF AskedRight, AskingOne
    <3>. QED
      BY Zenon, <3>1, <3>2
  <2>2. owner' \in owners'
    BY Zenon, <1>1, <1>12 DEF IpcInv
  <2>. QED
    BY Zenon, <1>1, <1>12, <2>1, <2>2 DEF IpcInv, IpcPlaces
<1>13. CASE IpcAction
  <2>1. CASE pc' = "ask"
    <3>1. /\ pc = "action" /\ status' = Empty /\ UNCHANGED <<owner, owners, sa, asked, output>>
          /\ cmd' = Append(cmd, scenario.action) /\ asked = <<>> /\ output = <<>> /\ IsSeq(output)
          /\ names' = IF scenario.all THEN Managers ELSE <<sa>>
      BY Zenon, <1>1, <1>13, <2>1 DEF IpcAction, DoExecute, Goto, IpcInv, NothingAsked
    <3>2. CASE scenario.all
      <4>1. cmd' = <<"--ipc", "all", scenario.action>>
        <5>1. cmd = <<"--ipc", "all">>
          BY Zenon, <1>1, <3>1, <3>2 DEF IpcInv
        <5>2. Append(<<"--ipc", "all">>, scenario.action) = <<"--ipc", "all", scenario.action>>
          BY Zenon, Arguments
        <5>. QED
          BY Zenon, <3>1, <5>1, <5>2
      <4>2. asked' \in Seq(ManagerSet) /\ names' \in Seq(ManagerSet) /\ Len(asked') = 0 /\ Len(names') = 3
        <5>1. Managers \in Seq(ManagerSet) /\ Len(Managers) = 3
          BY DEF Managers, ManagerSet
        <5>. QED
          BY <3>1, <3>2, <5>1
      <4>3. AskingAll'
        BY <1>1, <3>1, <3>2, <4>1, <4>2 DEF AskingAll
      <4>. QED
        BY <1>1, <1>12, <2>1, <3>1, <3>2, <4>3
    <3>3. CASE ~scenario.all
      <4>1. sa # "null" => sa \in owners /\ cmd' = <<"--ipc", ProcessArg(sa), scenario.action>>
        BY Zenon, <1>1, <3>1, <3>3, Arguments DEF IpcInv
      <4>2. AskingOne'
        BY Zenon, <1>1, <3>1, <3>3, <4>1 DEF AskingOne
      <4>. QED
        BY <1>1, <1>12, <2>1, <3>1, <3>3, <4>2
    <3>. QED
      BY Zenon, <3>2, <3>3
  <2>2. CASE pc' # "ask"
    <3>1. /\ pc = "action" /\ UNCHANGED <<asked, owner, owners>>
          /\ pc' = "end" /\ status' = FAIL /\ SendErrorMessage("input_ARG_is_not_valid")
      BY Zenon, <1>13, <2>2, EmptyIsNoStatus DEF IpcAction, DoExecute, Goto
    <3>2. asked = <<>> /\ IsSeq(output) /\ owner \in owners
      BY Zenon, <1>1, <3>1 DEF IpcInv, NothingAsked
    <3>3. IsSeq(output')
      BY Zenon, <3>1, <3>2, AppendAny DEF SendErrorMessage
    <3>. QED
      BY Zenon, <1>10, <3>1, <3>2, <3>3
  <2>. QED
    BY Zenon, <2>1, <2>2
<1>14. CASE DoDumpIpcStat
  <2>1. /\ pc = "ask" /\ names # <<>> /\ UNCHANGED <<owner, owners, sa, cmd>>
        /\ status = Empty /\ IsSeq(output) /\ owner \in owners
        /\ \A i \in DOMAIN output : output[i][1] # "error"
        /\ IF scenario.all THEN AskingAll ELSE AskingOne
    BY Zenon, <1>1, <1>14 DEF DoDumpIpcStat, IpcInv
  <2>. DEFINE object == IF scenario.all THEN CheckSystemAbility(Head(names)) ELSE Head(names)
  <2>2. CASE /\ object # "null" /\ outputFd = "caller"
             /\ Goto("ask", "ask")
             /\ output' = output \o Dumped(object, cmd)
             /\ names' = Tail(names)
             /\ asked' = Append(asked, object)
    <3>1. IsSeq(output') /\ \A i \in DOMAIN output' : output'[i][1] # "error"
      <4>1. Dumped(object, cmd) = <<>> \/ Dumped(object, cmd) = << <<"dump", object, cmd>> >>
        BY Zenon DEF Dumped
      <4>. HIDE DEF object
      <4>2. output' = output \/ output' = Append(output, <<"dump", object, cmd>>)
        BY ZenonT(60), <2>1, <2>2, <4>1, ConcatAny
      <4>3. CASE output' = output
        BY Zenon, <2>1, <4>3
      <4>4. CASE output' = Append(output, <<"dump", object, cmd>>)
        <5>. DEFINE e == <<"dump", object, cmd>>
        <5>1. e[1] = "dump"
          BY Zenon
        <5>. HIDE DEF e
        <5>2. /\ IsSeq(output') /\ DOMAIN output' = 1..(Len(output) + 1) /\ Len(output) \in Nat
              /\ DOMAIN output = 1..Len(output) /\ output'[Len(output) + 1] = e
              /\ \A i \in 1..Len(output) : output'[i] = output[i]
          BY <2>1, <4>4, AppendAny DEF e
        <5>. QED
          BY <2>1, <5>1, <5>2
      <4>. QED
        BY Zenon, <4>2, <4>3, <4>4
    <3>2. CASE scenario.all
      <4>1. AskingAll /\ object = names[1] /\ object \in ManagerSet
        BY <2>1, <2>2, <3>2 DEF CheckSystemAbility, AskingAll
      <4>. HIDE DEF object
      <4>2. /\ asked' \in Seq(ManagerSet) /\ Len(asked') = Len(asked) + 1
            /\ asked'[Len(asked) + 1] = names[1]
            /\ \A i \in 1..Len(asked) : asked'[i] = asked[i]
        BY <2>2, <4>1, AppendProperties DEF AskingAll
      <4>3. /\ names' \in Seq(ManagerSet) /\ Len(names') = Len(names) - 1
            /\ \A i \in 1..Len(names') : names'[i] = names[i + 1]
        BY Zenon, <2>1, <2>2, <4>1, HeadTailProperties DEF AskingAll
      <4>4. Len(asked) \in Nat /\ Len(names) \in Nat /\ Len(names) # 0
        BY Zenon, <2>1, <4>1, LenProperties, EmptySeq DEF AskingAll
      <4>5. \A i \in 1..Len(asked') : asked'[i] = Managers[i]
        BY <4>1, <4>2, <4>4 DEF AskingAll
      <4>6. \A i \in 1..Len(names') : names'[i] = Managers[Len(asked') + i]
        BY SMTT(30), <4>1, <4>2, <4>3, <4>4 DEF AskingAll
      <4>7. AskingAll'
        BY <1>1, <2>1, <4>1, <4>2, <4>3, <4>4, <4>5, <4>6 DEF AskingAll
      <4>. QED
        BY Zenon, <1>1, <1>12, <2>1, <2>2, <3>1, <3>2, <4>7 DEF Goto
    <3>3. CASE ~scenario.all
      <4>1. AskingOne /\ object = Head(names)
        BY Zenon, <2>1, <3>3
      <4>. HIDE DEF object
      <4>2. names = <<sa>> /\ asked = <<>> /\ object = sa
        BY <2>1, <4>1 DEF AskingOne
      <4>3. names' = <<>> /\ asked' = <<sa>>
        BY <2>2, <4>2, Arguments
      <4>4. AskingOne'
        BY Zenon, <1>1, <2>1, <2>2, <4>1, <4>2, <4>3 DEF AskingOne
      <4>. QED
        BY Zenon, <1>1, <1>12, <2>1, <2>2, <3>1, <3>3, <4>4 DEF Goto
    <3>. QED
      BY Zenon, <3>2, <3>3
  <2>3. CASE /\ DoExecute("ask", FAIL, <<>>)
             /\ UNCHANGED <<output, names, asked>>
    <3>1. AskedRight /\ AskedRight'
      BY Zenon, <1>1, <2>1, <2>3 DEF IpcInv, AskedRight
    <3>. QED
      BY Zenon, <1>1, <2>1, <2>3, <3>1 DEF DoExecute, IpcInv, IpcPlaces
  <2>. QED
    BY Zenon, <1>14, <2>2, <2>3 DEF DoDumpIpcStat
<1>15. CASE DumpIpcStatReturns
  <2>1. /\ pc = "ask" /\ names = <<>> /\ UNCHANGED <<owner, owners, sa, cmd, asked, output>>
        /\ pc' = "after" /\ status' = OK
    BY Zenon, <1>15 DEF DumpIpcStatReturns, DoExecute, remote
  <2>2. Len(asked) = IF scenario.all THEN 3 ELSE 1
    <3>1. CASE scenario.all
      BY <1>1, <2>1, <3>1 DEF IpcInv, AskingAll
    <3>2. CASE ~scenario.all
      BY Zenon, <1>1, <2>1, <3>2 DEF IpcInv, AskingOne
    <3>. QED
      BY Zenon, <3>1, <3>2
  <2>3. AskedRight /\ AskedRight'
    BY Zenon, <1>1, <2>1 DEF IpcInv, AskedRight
  <2>. QED
    BY Zenon, <1>1, <2>1, <2>2, <2>3 DEF IpcInv, IpcPlaces
<1>16. CASE RemoteAfterExecute \/ RemoteDestroy
  <2>1. /\ UNCHANGED <<owner, owners, sa, cmd, asked, output, status>>
        /\ pc \in {"after", "end"} /\ pc' \in {"end", "done"}
    BY Zenon, <1>16 DEF RemoteAfterExecute, RemoteDestroy, DoAfterExecute, Destroy, Goto, remote
  <2>2. AskedRight /\ AskedRight'
    BY Zenon, <1>1, <2>1 DEF IpcInv, AskedRight
  <2>. QED
    BY Zenon, <1>1, <2>1, <2>2 DEF IpcInv, IpcPlaces
<1>17. CASE \/ SaPreExecute \/ SaExecute \/ GetDataHeading \/ GetDataDump \/ SaExecuteReturns
            \/ SaDestroy \/ ListPreExecute \/ ListExecute \/ NetPreExecute \/ NetExecute
  <2>1. scenario.kind # "ipc" \/ pc \in {"start_sa", "abilities", "dump"}
    BY Zenon, <1>17 DEF SaPreExecute, SaExecute, GetDataHeading, GetDataDump, SaExecuteReturns, SaDestroy,
       ListPreExecute, ListExecute, NetPreExecute, NetExecute, Goto, DoExecute
  <2>. QED
    BY Zenon, <1>1, <2>1 DEF IpcInv, IpcPlaces
<1>. QED
  BY Zenon, <1>1, IpcSteps, <1>3, <1>4, <1>5, <1>6, <1>8, <1>9, <1>11, <1>13, <1>14, <1>15, <1>16, <1>17
     DEF RemoteStep

\* AskedOfOwner for any number of moves of abilities and processes: IPC
\* statistics are asked of a manager that listed the process, or of all three in
\* turn, and are reported as dumped only when every one of them was asked.
THEOREM AskedOfOwnerTheorem == Spec => []AskedOfOwner
<1>1. IpcInvariant => AskedOfOwner
  <2>. SUFFICES ASSUME IpcInvariant, scenario.kind = "ipc" PROVE AskedOfOwner
    BY Zenon DEF AskedOfOwner
  <2>1. Len(Managers) = 3
    BY Zenon DEF Managers
  <2>. QED
    BY Zenon, <2>1 DEF IpcInvariant, IpcInv, AskedRight, AskedOfOwner
<1>. QED
  BY <1>1, IpcInit, IpcStep, PTL DEF Spec

-----------------------------------------------------------------------------
(* Fault logs. *)

\* The descriptor that may be open is that of the log being read; the dumpers that
\* read no fault logs open none.
LogInv ==
    /\ "path" \in DOMAIN file
    /\ opened \subseteq {file.path}
    /\ pc = "done" \/ scenario.kind \notin EventKinds => opened = {}

\* It is kept by every step.
LEMMA LogStep == LogInv /\ [Next]_vars => LogInv'
<1>. SUFFICES ASSUME LogInv, [Next]_vars PROVE LogInv'
  BY Zenon
<1>1. scenario' = scenario
  BY Zenon, ScenarioFixed
<1>2. ASSUME UNCHANGED <<file, opened>>, pc' = "done" => pc = "done" \/ opened = {}
      PROVE  LogInv'
  BY Zenon, <1>1, <1>2 DEF LogInv
<1>3. CASE scenario.kind \notin EventKinds
  <2>1. UNCHANGED <<file, opened>>
    BY Zenon, <1>3 DEF Next, Step, Environment, event, vars, EventKinds
  <2>. QED
    BY Zenon, <1>2, <1>3, <2>1 DEF LogInv
<1>4. CASE scenario.kind \in EventKinds /\ EventStep
  <2>1. CASE \/ EventListPreExecute \/ EventDetailPreExecute \/ Query \/ QueryFails \/ WaitTimesOut
             \/ QueryFailed \/ PrintEventList \/ MatchKills \/ MatchFaults \/ EndOfLog \/ NextLog \/ LastLog
    <3>1. UNCHANGED <<file, opened>> /\ pc' # "done"
      BY ZenonT(60), <2>1 DEF EventListPreExecute, EventDetailPreExecute, Query, QueryFails, WaitTimesOut,
         QueryFailed, PrintEventList, MatchKills, MatchFaults, EndOfLog, NextLog, LastLog, event,
         DoPreExecute, DoExecute, Goto
    <3>. QED
      BY Zenon, <1>2, <3>1
  <2>2. CASE OpenLog
    <3>1. /\ pc' # "done"
          /\ \/ file' = Closed /\ opened' = CloseFd
             \/ \E path : file' = [path |-> path, read |-> 0] /\ opened' = CloseFd \cup {path}
      BY Zenon, <2>2 DEF OpenLog
    <3>. QED
      BY <1>1, <1>4, <3>1 DEF LogInv, CloseFd, Closed
  <2>3. CASE ReadLine
    BY Zenon, <1>1, <1>4, <2>3 DEF ReadLine, Goto, LogInv
  <2>4. CASE EventAfterExecute \/ EventDestroy
    BY Zenon, <1>1, <1>4, <2>4 DEF EventAfterExecute, EventDestroy, LogInv, CloseFd, Closed
  <2>. QED
    BY Zenon, <1>4, <2>1, <2>2, <2>3, <2>4 DEF EventStep
<1>5. CASE EventService \/ (Cancel /\ UNCHANGED <<event, scan, remote>>) \/ UNCHANGED vars
  BY Zenon, <1>2, <1>5 DEF EventService, OnQuery, OnComplete, Cancel, event, frame, vars
<1>6. CASE scenario.kind \in EventKinds
  <2>1. scenario.kind \notin ScanKinds /\ scenario.kind \notin Remote
    BY Zenon, <1>6 DEF EventKinds, ScanKinds, Remote
  <2>2. \/ EventStep \/ EventService \/ UNCHANGED vars
        \/ Cancel /\ UNCHANGED <<event, scan, remote>>
    BY Zenon, <1>6, <2>1 DEF Next, Step, Environment
  <2>. QED
    BY Zenon, <1>4, <1>5, <1>6, <2>2
<1>. QED
  BY Zenon, <1>3, <1>6

\* LogClosed for any number of logs, lines and cancellations: at most the log
\* being read is open, and none once the dumper is gone.
THEOREM LogClosedTheorem == Spec => []LogClosed
<1>1. Init => LogInv
  BY Zenon DEF Init, EventInit, Closed, LogInv
<1>2. LogInv => LogClosed
  BY Zenon DEF LogInv, LogClosed
<1>. QED
  BY <1>1, <1>2, LogStep, PTL DEF Spec

-----------------------------------------------------------------------------
(* Dumps of system abilities. *)

\* What Tail does to a sequence, whatever its elements are.
LEMMA TailAny ==
  ASSUME NEW s, IsSeq(s), s # <<>>
  PROVE  /\ IsSeq(Tail(s)) /\ Len(s) \in Nat \ {0} /\ Head(s) = s[1]
         /\ Len(Tail(s)) = Len(s) - 1
         /\ \A i \in 1..(Len(s) - 1) : Tail(s)[i] = s[i + 1]
<1>. DEFINE T == {s[i] : i \in DOMAIN s}
<1>1. s \in Seq(T)
  BY Zenon DEF IsSeq
<1>. HIDE DEF T
<1>2. IsSeq(Tail(s)) /\ Len(Tail(s)) = Len(s) - 1
  BY Zenon, <1>1, HeadTailProperties, SeqIsSeq
<1>3. Len(s) \in Nat /\ Len(s) # 0
  BY Zenon, <1>1, EmptySeq, LenProperties
<1>. QED
  BY <1>1, <1>2, <1>3, HeadTailProperties

\* The list of the registry is a sequence.
LEMMA ListIsSeq == IsSeq(ListSystemAbilities)
<1>. DEFINE at == {i \in DOMAIN Abilities : Abilities[i] \in up}
            nth(n) == Abilities[CHOOSE i \in at : Cardinality({j \in at : j <= i}) = n]
<1>1. DOMAIN Abilities = 1..Len(Abilities) /\ Len(Abilities) \in Nat
  BY Zenon, RemoteAssumption, LenProperties
<1>2. IsFiniteSet(at)
  <2>1. IsFiniteSet(1..Len(Abilities))
    BY <1>1, FS_Interval
  <2>2. at \subseteq 1..Len(Abilities)
    BY Zenon, <1>1
  <2>. QED
    BY Zenon, <2>1, <2>2, FS_Subset
<1>3. Cardinality(at) \in Nat
  BY Zenon, <1>2, FS_CardinalityType
<1>4. ListSystemAbilities = [n \in 1..Cardinality(at) |-> nth(n)]
  BY Zenon DEF ListSystemAbilities
<1>. HIDE DEF at, nth
<1>5. [n \in 1..Cardinality(at) |-> nth(n)] \in Seq({nth(n) : n \in 1..Cardinality(at)})
  BY <1>3, IsASeq
<1>. QED
  BY Zenon, <1>4, <1>5, SeqIsSeq

SaPlaces == {"pre", "start_sa", "abilities", "dump", "after", "end", "done"}

\* How many of the names were gone through: all of them but those left, the one
\* being dumped included.
Reached ==
    CASE pc = "abilities" -> Len(asked) - Len(names)
      [] pc = "dump"      -> Len(asked) - Len(names) + 1
      [] OTHER            -> Len(asked)

\* The names the headings are of: in their order, and, as long as no ability comes
\* or goes, every one that runs.
SectionOf(of) ==
    /\ \A i \in Headings : output[i] = <<"heading", asked[of[i]]>>
    /\ \A i, j \in Headings : i < j => of[i] < of[j]
    /\ moves = 0 /\ outputFd # "none" =>
         \A k \in 1..Reached : asked[k] \in up => \E i \in Headings : of[i] = k

\* What an ability wrote is under its own heading.
DumpsOwn ==
    \A i \in DOMAIN output : output[i][1] = "dump" =>
        /\ i > 1 /\ output[i - 1] = <<"heading", output[i][2]>>
        /\ output[i][3] # <<>> => scenario.names = <<output[i][2]>>

\* The names left are the last of the names asked for.
NamesLeft ==
    /\ Len(names) <= Len(asked)
    /\ \A i \in 1..Len(names) : names[i] = asked[Len(asked) - Len(names) + i]

SaInv ==
    /\ scenario \in Scenarios
    /\ pc \in SaPlaces
    /\ moves \in Nat /\ "null" \notin up
    /\ pc \in {"pre", "start_sa", "abilities", "dump"} => status = Empty
    /\ IsSeq(output) /\ IsSeq(asked) /\ IsSeq(names)
    /\ pc \in {"pre", "start_sa"} => output = <<>> /\ asked = <<>>
    /\ pc # "pre" => cmd = ArgsOfOne
    /\ outputFd = "file" => scenario.zip /\ pc # "done"
    /\ pc = "start_sa" => names = scenario.names
    /\ pc \in {"abilities", "dump"} => NamesLeft
    /\ asked # <<>> /\ scenario.names # <<>> => asked = scenario.names
    /\ pc = "dump" =>
         /\ names # <<>> /\ sa = names[1]
         /\ outputFd # "none" => output # <<>> /\ output[Len(output)] = <<"heading", sa>>
    /\ DumpsOwn
    /\ \E of \in [Headings -> 1..Reached] : SectionOf(of)

\* The invariant of a dump of system abilities.
SaInvariant == scenario.kind = "sa" => SaInv

Sections == DumpsOwn /\ \E of \in [Headings -> 1..Reached] : SectionOf(of)

\* An output that is empty has no sections that could be wrong.
LEMMA NoSections ==
  ASSUME output = <<>>, Reached = 0
  PROVE  Sections
<1>1. Headings = {} /\ DumpsOwn
  BY DEF Headings, DumpsOwn
<1>. DEFINE of == [i \in Headings |-> 1]
<1>2. of \in [Headings -> 1..Reached]
  BY Zenon, <1>1
<1>3. SectionOf(of)
  BY <1>1 DEF SectionOf
<1>. QED
  BY Zenon, <1>1, <1>2, <1>3 DEF Sections

\* It has none after a step that leaves it so, either.
LEMMA NoSectionsNext ==
  ASSUME output' = <<>>, Reached' = 0
  PROVE  Sections'
<1>1. Headings' = {} /\ DumpsOwn'
  BY DEF Headings, DumpsOwn
<1>. PICK of : of = [i \in {} |-> 1]
  BY Zenon
<1>2. of \in [Headings' -> 1..Reached']
  BY Zenon, <1>1
<1>3. SectionOf(of)'
  BY SMTT(30), <1>1 DEF SectionOf
<1>. QED
  BY Zenon, <1>1, <1>2, <1>3 DEF Sections

\* The invariant holds when the executor is made.
LEMMA SaInit == Init => SaInvariant
<1>. SUFFICES ASSUME Init, scenario.kind = "sa" PROVE SaInv
  BY Zenon DEF SaInvariant
<1>1. /\ pc = "pre" /\ scenario \in Scenarios /\ moves = 0 /\ outputFd = "none"
      /\ output = <<>> /\ asked = <<>> /\ names = <<>> /\ status = Empty /\ "null" \notin up
  BY Zenon, RemoteAssumption DEF Init, FrameInit, RemoteInit
<1>2. IsSeq(<<>>) /\ Reached = 0
  BY Zenon, <1>1, EmptySeq, SeqIsSeq DEF Reached
<1>3. Sections
  BY Zenon, <1>1, <1>2, NoSections
<1>. QED
  BY Zenon, <1>1, <1>2, <1>3 DEF SaInv, SaPlaces, Sections

\* Sections stay as they are while nothing is written.
LEMMA SectionsKept ==
  ASSUME Sections, UNCHANGED <<output, asked, scenario>>, Reached' = Reached,
         moves' = 0 => moves = 0 /\ up' = up, outputFd' # "none" => outputFd # "none"
  PROVE  Sections'
<1>1. DumpsOwn' /\ Headings' = Headings
  BY Zenon DEF Sections, DumpsOwn, Headings
<1>2. PICK of \in [Headings -> 1..Reached] : SectionOf(of)
  BY Zenon DEF Sections
<1>3. SectionOf(of)'
  BY Zenon, <1>1, <1>2 DEF SectionOf
<1>. QED
  BY Zenon, <1>1, <1>2, <1>3 DEF Sections

\* A name that is gone through without a heading: it has no ability that runs, or
\* there is nothing to write to.
LEMMA NameSkipped ==
  ASSUME Sections, UNCHANGED <<output, asked, scenario, moves, up, outputFd>>,
         Reached \in Nat, Reached' = Reached + 1,
         asked[Reached + 1] \notin up \/ outputFd = "none"
  PROVE  Sections'
<1>1. DumpsOwn' /\ Headings' = Headings
  BY Zenon DEF Sections, DumpsOwn, Headings
<1>2. PICK of \in [Headings -> 1..Reached] : SectionOf(of)
  BY Zenon DEF Sections
<1>3. of \in [Headings' -> 1..Reached']
  BY SMTT(30), <1>1, <1>2
<1>4. SectionOf(of)'
  BY <1>1, <1>2 DEF SectionOf
<1>. QED
  BY Zenon, <1>1, <1>3, <1>4 DEF Sections

\* The heading of the next name.
LEMMA HeadingWritten ==
  ASSUME Sections, UNCHANGED <<asked, scenario, moves, up, outputFd>>, IsSeq(output),
         Reached \in Nat, Reached' = Reached + 1,
         output' = Append(output, <<"heading", asked[Reached + 1]>>)
  PROVE  Sections'
<1>. DEFINE n == Len(output) + 1
            e == <<"heading", asked[Reached + 1]>>
<1>1. e[1] = "heading" /\ e[1] # "dump"
  BY Zenon
<1>2. /\ Len(output) \in Nat /\ DOMAIN output = 1..Len(output) /\ DOMAIN output' = 1..n
      /\ \A i \in 1..Len(output) : output'[i] = output[i]
      /\ output'[n] = e
  BY AppendAny
<1>. HIDE DEF e
<1>3. Headings' = Headings \cup {n} /\ n \notin Headings /\ \A i \in Headings : i < n
  BY SMTT(30), <1>1, <1>2 DEF Headings
<1>4. DumpsOwn'
  BY <1>1, <1>2 DEF Sections, DumpsOwn
<1>5. PICK of \in [Headings -> 1..Reached] : SectionOf(of)
  BY Zenon DEF Sections
<1>. PICK of2 : of2 = [i \in Headings' |-> IF i = n THEN Reached + 1 ELSE of[i]]
  BY ZenonT(60)
<1>6. of2 \in [Headings' -> 1..Reached']
  BY <1>3, <1>5
<1>7. SectionOf(of2)'
  <2>1. \A i \in Headings : of2[i] = of[i] /\ of[i] \in 1..Reached /\ output'[i] = output[i]
    BY Zenon, <1>2, <1>3, <1>5 DEF Headings
  <2>2. of2[n] = Reached + 1 /\ output'[n] = <<"heading", asked[of2[n]]>>
    BY Zenon, <1>2, <1>3 DEF e
  <2>. HIDE DEF n
  <2>3. \A i \in Headings' : output'[i] = <<"heading", asked[of2[i]]>>
    BY ZenonT(60), <1>3, <1>5, <2>1, <2>2 DEF SectionOf
  <2>4. \A i, j \in Headings' : i < j => of2[i] < of2[j]
    <3>1. ASSUME NEW i \in Headings', NEW j \in Headings', i < j PROVE of2[i] < of2[j]
      <4>1. Headings \subseteq Int /\ n \in Int
        BY <1>2 DEF Headings, n
      <4>2. i \in Headings
        BY <1>3, <3>1, <4>1
      <4>. QED
        BY SMTT(30), <1>3, <1>5, <2>1, <2>2, <3>1, <4>2 DEF SectionOf
    <3>. QED
      BY Zenon, <3>1
  <2>5. ASSUME moves = 0, outputFd # "none", NEW k \in 1..(Reached + 1), asked[k] \in up
        PROVE  \E i \in Headings' : of2[i] = k
    <3>1. CASE k = Reached + 1
      BY Zenon, <1>3, <2>2, <3>1
    <3>2. CASE k \in 1..Reached
      <4>1. PICK i \in Headings : of[i] = k
        BY Zenon, <1>5, <2>5, <3>2 DEF SectionOf
      <4>. QED
        BY Zenon, <1>3, <2>1, <4>1
    <3>. QED
      BY <3>1, <3>2
  <2>. QED
    BY ZenonT(60), <2>3, <2>4, <2>5 DEF SectionOf
<1>. QED
  BY Zenon, <1>4, <1>6, <1>7 DEF Sections

\* What the ability writes, under its heading.
LEMMA DumpWritten ==
  ASSUME Sections, UNCHANGED <<asked, scenario, moves, up, outputFd>>, IsSeq(output),
         Reached' = Reached, output # <<>>, output[Len(output)] = <<"heading", sa>>,
         cmd # <<>> => scenario.names = <<sa>>,
         output' = Append(output, <<"dump", sa, cmd>>)
  PROVE  Sections'
<1>. DEFINE n == Len(output) + 1
            e == <<"dump", sa, cmd>>
<1>1. e[1] = "dump" /\ e[2] = sa /\ e[3] = cmd
  BY Zenon
<1>2. /\ Len(output) \in Nat \ {0} /\ DOMAIN output = 1..Len(output) /\ DOMAIN output' = 1..n
      /\ \A i \in 1..Len(output) : output'[i] = output[i]
      /\ output'[n] = e
  BY AppendAny, TailAny
<1>. HIDE DEF e
<1>3. Headings' = Headings
  BY SMTT(30), <1>1, <1>2 DEF Headings
<1>4. DumpsOwn'
  <2>. SUFFICES ASSUME NEW i \in 1..n, output'[i][1] = "dump"
                PROVE  /\ i > 1 /\ output'[i - 1] = <<"heading", output'[i][2]>>
                       /\ output'[i][3] # <<>> => scenario.names = <<output'[i][2]>>
    BY Zenon, <1>2 DEF DumpsOwn
  <2>1. CASE i = n
    <3>1. i > 1 /\ i - 1 = Len(output) /\ Len(output) \in 1..Len(output)
      BY <1>2, <2>1
    <3>. QED
      BY Zenon, <1>1, <1>2, <2>1, <3>1
  <2>2. CASE i \in 1..Len(output)
    <3>1. /\ i > 1 /\ output[i - 1] = <<"heading", output[i][2]>>
          /\ output[i][3] # <<>> => scenario.names = <<output[i][2]>>
      BY Zenon, <1>2, <2>2 DEF Sections, DumpsOwn
    <3>2. i - 1 \in 1..Len(output)
      BY <1>2, <2>2, <3>1
    <3>. QED
      BY Zenon, <1>2, <2>2, <3>1, <3>2
  <2>. QED
    BY <1>2, <2>1, <2>2
<1>5. PICK of \in [Headings -> 1..Reached] : SectionOf(of)
  BY Zenon DEF Sections
<1>6. \A i \in Headings : output'[i] = output[i]
  BY Zenon, <1>2 DEF Headings
<1>7. SectionOf(of)'
  BY Zenon, <1>3, <1>5, <1>6 DEF SectionOf
<1>. QED
  BY Zenon, <1>3, <1>4, <1>5, <1>7 DEF Sections

\* A step of another kind of executor, or of the environment of one, is none of a
\* dump of system abilities.
LEMMA SaSteps ==
  ASSUME [Next]_vars, scenario.kind = "sa"
  PROVE  RemoteStep \/ Move \/ UNCHANGED vars
<1>1. scenario.kind \notin EventKinds /\ scenario.kind \notin ScanKinds /\ scenario.kind # "detail"
  BY Zenon DEF EventKinds, ScanKinds
<1>. QED
  BY Zenon, <1>1 DEF Next, Step, Environment

\* The invariant is kept by every step.
LEMMA SaStep == SaInvariant /\ [Next]_vars => SaInvariant'
<1>. SUFFICES ASSUME SaInvariant, [Next]_vars, scenario'.kind = "sa" PROVE SaInv'
  BY Zenon DEF SaInvariant
<1>1. scenario' = scenario /\ scenario.kind = "sa" /\ SaInv /\ Sections
  BY Zenon, ScenarioFixed DEF SaInvariant, SaInv, Sections
<1>2. ASSUME UNCHANGED <<pc, status, cmd, names, asked, output, outputFd, sa>>,
             moves' \in Nat, "null" \notin up', Sections'
      PROVE  SaInv'
  BY ZenonT(60), <1>1, <1>2 DEF SaInv, NamesLeft, Sections, ArgsOfOne
<1>3. CASE Move \/ UNCHANGED vars
  <2>1. UNCHANGED <<pc, status, cmd, names, asked, output, outputFd, sa>>
    BY Zenon, <1>3 DEF Move, frame, remote, vars
  <2>2. /\ moves' \in Nat /\ (moves' = 0 => moves = 0 /\ up' = up)
        /\ "null" \notin up'
    <3>1. moves \in Nat /\ "null" \notin up /\ "null" \notin Range(Abilities)
      BY Zenon, <1>1, RemoteAssumption DEF SaInv
    <3>2. CASE UNCHANGED vars
      BY Zenon, <3>1, <3>2 DEF vars, remote
    <3>3. CASE Move
      BY <3>1, <3>3 DEF Move
    <3>. QED
      BY Zenon, <1>3, <3>2, <3>3
  <2>3. Sections'
    BY Zenon, <1>1, <2>1, <2>2, SectionsKept DEF Reached
  <2>. QED
    BY Zenon, <1>2, <2>1, <2>2, <2>3
<1>4. CASE SaPreExecute
  <2>1. /\ pc = "pre" /\ pc' = "start_sa" /\ output' = <<>> /\ asked' = <<>> /\ moves' \in Nat
        /\ names' = scenario.names /\ cmd' = ArgsOfOne /\ UNCHANGED <<up, status>>
        /\ outputFd' = IF scenario.zip THEN scenario.logFile ELSE "caller"
        /\ IsSeq(output') /\ IsSeq(asked')
    BY Zenon, <1>1, <1>4 DEF SaPreExecute, DoPreExecute, Goto, SaInv
  <2>2. IsSeq(scenario.names)
    BY Zenon, <1>1, RemoteAssumption, SeqIsSeq DEF SaInv
  <2>3. Sections'
    <3>1. Reached' = 0
      BY Zenon, <2>1 DEF Reached
    <3>. QED
      BY Zenon, <2>1, <3>1, NoSectionsNext
  <2>. QED
    BY Zenon, <1>1, <2>1, <2>2, <2>3 DEF SaInv, SaPlaces, Sections, ArgsOfOne
<1>5. CASE SaExecute
  <2>1. /\ pc = "start_sa" /\ pc' = "abilities" /\ asked' = names' /\ output' = <<>>
        /\ names' = IF scenario.names = <<>> THEN ListSystemAbilities ELSE scenario.names
        /\ UNCHANGED <<moves, up, status, cmd, output, outputFd>>
    BY Zenon, <1>1, <1>5 DEF SaExecute, Goto, SaInv
  <2>2. IsSeq(names') /\ Len(names') \in Nat
    <3>1. IsSeq(scenario.names)
      BY Zenon, <1>1, RemoteAssumption, SeqIsSeq DEF SaInv
    <3>2. IsSeq(names')
      BY Zenon, <2>1, <3>1, ListIsSeq
    <3>. QED
      BY Zenon, <3>2, LenProperties DEF IsSeq
  <2>3. Sections'
    <3>1. Reached' = 0
      BY <2>1, <2>2 DEF Reached
    <3>. QED
      BY Zenon, <2>1, <3>1, NoSectionsNext
  <2>4. NamesLeft'
    BY <2>1, <2>2 DEF NamesLeft
  <2>. QED
    BY Zenon, <1>1, <2>1, <2>2, <2>3, <2>4 DEF SaInv, SaPlaces, Sections, ArgsOfOne
<1>6. CASE GetDataHeading
  <2>1. /\ pc = "abilities" /\ names # <<>> /\ IsSeq(names) /\ IsSeq(asked) /\ IsSeq(output)
        /\ UNCHANGED <<moves, up, status, cmd, outputFd, asked>>
    BY Zenon, <1>1, <1>6 DEF GetDataHeading, Goto, SaInv
  <2>2. /\ Len(asked) \in Nat /\ Len(names) \in Nat \ {0} /\ Len(names) <= Len(asked)
        /\ Reached = Len(asked) - Len(names) /\ Reached \in Nat
        /\ Head(names) = names[1] /\ names[1] = asked[Reached + 1]
    <3>1. Len(asked) \in Nat
      BY Zenon, <2>1, LenProperties DEF IsSeq
    <3>2. Len(names) \in Nat \ {0} /\ Head(names) = names[1]
      BY Zenon, <2>1, TailAny
    <3>3. NamesLeft
      BY Zenon, <1>1, <2>1 DEF SaInv
    <3>. QED
      BY <2>1, <3>1, <3>2, <3>3 DEF NamesLeft, Reached
  <2>3. CASE /\ CheckSystemAbility(Head(names)) # "null" /\ pc' = "dump"
             /\ sa' = CheckSystemAbility(Head(names)) /\ names' = names
             /\ output' = IF outputFd = "none" THEN output ELSE Append(output, <<"heading", Head(names)>>)
    <3>1. Reached' = Reached + 1 /\ sa' = names[1]
      BY Zenon, <2>1, <2>2, <2>3 DEF Reached, CheckSystemAbility
    <3>2. Sections'
      BY Zenon, <1>1, <2>1, <2>2, <2>3, <3>1, NameSkipped, HeadingWritten
    <3>3. IsSeq(output') /\ (outputFd # "none" => output' # <<>> /\ output'[Len(output')] = <<"heading", sa'>>)
      <4>. DEFINE e == <<"heading", Head(names)>>
      <4>1. /\ IsSeq(Append(output, e)) /\ Len(output) \in Nat
            /\ Len(Append(output, e)) = Len(output) + 1
            /\ Append(output, e)[Len(output) + 1] = e
        BY Zenon, <2>1, AppendAny
      <4>2. Append(output, e) # <<>>
        BY <4>1
      <4>. QED
        BY Zenon, <2>1, <2>2, <2>3, <3>1, <4>1, <4>2
    <3>4. NamesLeft'
      BY ZenonT(60), <1>1, <2>1, <2>3 DEF SaInv, NamesLeft
    <3>. QED
      BY Zenon, <1>1, <2>1, <2>2, <2>3, <3>1, <3>2, <3>3, <3>4 DEF SaInv, SaPlaces, Sections, ArgsOfOne
  <2>4. CASE /\ CheckSystemAbility(Head(names)) = "null" /\ pc' = "abilities"
             /\ names' = Tail(names) /\ UNCHANGED <<sa, output>>
    <3>1. /\ IsSeq(names') /\ Len(names') = Len(names) - 1
          /\ \A i \in 1..(Len(names) - 1) : names'[i] = names[i + 1]
      BY Zenon, <2>1, <2>4, TailAny
    <3>2. Reached' = Reached + 1 /\ asked[Reached + 1] \notin up
      <4>1. "null" \notin up
        BY ZenonT(60), <1>1 DEF SaInv
      <4>. QED
        BY <2>1, <2>2, <2>4, <3>1, <4>1 DEF Reached, CheckSystemAbility
    <3>3. Sections'
      BY Zenon, <1>1, <2>1, <2>2, <2>4, <3>2, NameSkipped
    <3>4. NamesLeft'
      <4>1. NamesLeft
        BY Zenon, <1>1, <2>1 DEF SaInv
      <4>. QED
        BY <2>1, <2>2, <3>1, <4>1 DEF NamesLeft
    <3>. QED
      BY Zenon, <1>1, <2>1, <2>4, <3>1, <3>3, <3>4 DEF SaInv, SaPlaces, Sections, ArgsOfOne
  <2>. QED
    BY Zenon, <1>6, <2>1, <2>3, <2>4 DEF GetDataHeading, Goto
<1>7. CASE GetDataDump
  <2>1. /\ pc = "dump" /\ pc' = "abilities" /\ names # <<>> /\ sa = names[1]
        /\ IsSeq(names) /\ IsSeq(asked) /\ IsSeq(output) /\ names' = Tail(names)
        /\ output' = IF outputFd = "none" THEN output ELSE output \o Dumped(sa, cmd)
        /\ outputFd # "none" => output # <<>> /\ output[Len(output)] = <<"heading", sa>>
        /\ UNCHANGED <<moves, up, status, cmd, outputFd, asked, sa>>
    BY Zenon, <1>1, <1>7 DEF GetDataDump, Goto, SaInv
  <2>2. /\ Len(asked) \in Nat /\ Len(names) \in Nat \ {0} /\ Len(names) <= Len(asked)
        /\ IsSeq(names') /\ Len(names') = Len(names) - 1
        /\ \A i \in 1..(Len(names) - 1) : names'[i] = names[i + 1]
    <3>1. Len(asked) \in Nat
      BY Zenon, <2>1, LenProperties DEF IsSeq
    <3>. QED
      BY ZenonT(60), <1>1, <2>1, <3>1, TailAny DEF SaInv, NamesLeft
  <2>3. NamesLeft
    BY Zenon, <1>1, <2>1 DEF SaInv
  <2>4. Reached' = Reached /\ asked # <<>> /\ sa = asked[Len(asked) - Len(names) + 1]
    BY <2>3, <2>1, <2>2 DEF Reached, NamesLeft
  <2>5. cmd # <<>> => scenario.names = <<sa>>
    <3>. SUFFICES ASSUME cmd # <<>> PROVE scenario.names = <<sa>>
      BY Zenon
    <3>1. Len(scenario.names) = 1 /\ IsSeq(scenario.names)
      BY Zenon, <1>1, <2>1, RemoteAssumption, SeqIsSeq DEF SaInv, ArgsOfOne
    <3>2. scenario.names # <<>>
      BY <3>1
    <3>3. asked = scenario.names
      BY Zenon, <1>1, <2>4, <3>2 DEF SaInv
    <3>4. asked[1] = sa /\ asked \in Seq({asked[i] : i \in DOMAIN asked}) /\ Len(asked) = 1
      BY <2>2, <2>4, <3>1, <3>3 DEF IsSeq
    <3>. QED
      BY <3>3, <3>4
  <2>6. IsSeq(output') /\ Sections'
    <3>1. CASE outputFd = "none" \/ sa \notin up
      <4>1. output' = output
        BY Zenon, <2>1, <3>1, ConcatAny DEF Dumped
      <4>. QED
        BY Zenon, <1>1, <2>1, <2>4, <4>1, SectionsKept
    <3>2. CASE outputFd # "none" /\ sa \in up
      <4>1. output' = Append(output, <<"dump", sa, cmd>>)
        BY Zenon, <2>1, <3>2, ConcatAny DEF Dumped
      <4>2. IsSeq(Append(output, <<"dump", sa, cmd>>))
        BY Zenon, <2>1, AppendAny
      <4>. QED
        BY Zenon, <1>1, <2>1, <2>4, <2>5, <3>2, <4>1, <4>2, DumpWritten
    <3>. QED
      BY Zenon, <3>1, <3>2
  <2>7. NamesLeft'
    BY <2>3, <2>1, <2>2 DEF NamesLeft
  <2>. QED
    BY Zenon, <1>1, <2>1, <2>2, <2>6, <2>7 DEF SaInv, SaPlaces, Sections, ArgsOfOne
<1>8. CASE NoSamgr \/ SaExecuteReturns \/ RemoteAfterExecute
  <2>1. /\ \/ pc = "start_sa" /\ pc' = "end"
           \/ pc = "abilities" /\ names = <<>> /\ pc' \in {"after", "end"}
           \/ pc = "after" /\ pc' = "end"
        /\ UNCHANGED <<moves, up, cmd, names, output, outputFd, asked>>
    BY Zenon, <1>1, <1>8, EmptyIsNoStatus DEF NoSamgr, SaExecuteReturns, RemoteAfterExecute, DoExecute, DoAfterExecute,
       Goto, remote, SaInv, SaPlaces
  <2>2. Reached' = Reached
    <3>1. Len(asked) \in Nat /\ (names = <<>> => Len(names) = 0)
      <4>1. IsSeq(asked)
        BY Zenon, <1>1 DEF SaInv
      <4>. QED
        BY <4>1, LenProperties DEF IsSeq
    <3>. QED
      BY <2>1, <3>1 DEF Reached
  <2>3. Sections'
    BY Zenon, <1>1, <2>1, <2>2, SectionsKept
  <2>. QED
    BY Zenon, <1>1, <2>1, <2>3 DEF SaInv, SaPlaces, Sections, ArgsOfOne
<1>9. CASE SaDestroy
  <2>1. /\ pc = "end" /\ pc' = "done"
        /\ outputFd' = IF scenario.zip /\ outputFd = "file" THEN "closed" ELSE outputFd
        /\ UNCHANGED <<moves, up, cmd, names, output, asked>>
    BY Zenon, <1>9 DEF SaDestroy, Destroy, Goto
  <2>2. Sections'
    BY Zenon, <1>1, <2>1, SectionsKept DEF Reached
  <2>. QED
    BY Zenon, <1>1, <2>1, <2>2 DEF SaInv, SaPlaces, Sections, ArgsOfOne
<1>10. pc \in SaPlaces
  BY Zenon, <1>1 DEF SaInv
<1>11. ~\/ IpcPreExecute \/ SetIpcStatCmd \/ CheckPid \/ NoManager \/ IpcAction \/ DoDumpIpcStat
        \/ DumpIpcStatReturns \/ ListPreExecute \/ ListExecute \/ NetPreExecute \/ NetExecute
        \/ RemoteDestroy
  BY Zenon, <1>1, <1>10 DEF IpcPreExecute, SetIpcStatCmd, CheckPid, NoManager, IpcAction, DoDumpIpcStat,
     DumpIpcStatReturns, ListPreExecute, ListExecute, NetPreExecute, NetExecute, RemoteDestroy,
     DoExecute, Goto, SaPlaces
<1>12. RemoteStep \/ Move \/ UNCHANGED vars
  BY Zenon, <1>1, SaSteps
<1>. QED
  BY Zenon, <1>3, <1>4, <1>5, <1>6, <1>7, <1>8, <1>9, <1>11, <1>12 DEF RemoteStep

\* SectionsOwn for any registry, any names asked for and any number of abilities
\* that come and go: the sections are in the order of the names, none is missing
\* as long as nothing moves, each has only what its own ability wrote, and the log
\* file is closed in the end.
THEOREM SectionsOwnTheorem == Spec => []SectionsOwn
<1>1. SaInvariant => SectionsOwn
  <2>. SUFFICES ASSUME SaInv, scenario.kind = "sa" PROVE SectionsOwn
    BY Zenon DEF SaInvariant, SectionsOwn
  <2>1. /\ IsSeq(asked) /\ Len(asked) \in Nat /\ DOMAIN asked = 1..Len(asked)
        /\ Len(names) \in Nat /\ (names # <<>> => Len(names) > 0)
    <3>1. IsSeq(asked) /\ IsSeq(names)
      BY Zenon DEF SaInv
    <3>2. Len(asked) \in Nat /\ DOMAIN asked = 1..Len(asked) /\ Len(names) \in Nat
      BY Zenon, <3>1, LenProperties DEF IsSeq
    <3>3. names # <<>> => Len(names) > 0
      BY <3>1, TailAny
    <3>. QED
      BY Zenon, <3>1, <3>2, <3>3
  <2>2. Reached <= Len(asked) /\ Reached \in Nat /\ (status = OK => Reached = Len(asked))
    <3>1. CASE pc \in {"abilities", "dump"}
      <4>1. status # OK /\ Len(names) <= Len(asked) /\ (pc = "dump" => names # <<>>)
        BY Zenon, <3>1, EmptyIsNoStatus DEF SaInv, NamesLeft
      <4>2. /\ pc = "abilities" => Reached = Len(asked) - Len(names)
            /\ pc = "dump" => Reached = Len(asked) - Len(names) + 1
        BY Zenon DEF Reached
      <4>. QED
        BY <2>1, <3>1, <4>1, <4>2
    <3>2. CASE pc \notin {"abilities", "dump"}
      <4>1. Reached = Len(asked)
        BY Zenon, <3>2 DEF Reached
      <4>. QED
        BY <2>1, <4>1
    <3>. QED
      BY Zenon, <3>1, <3>2
  <2>3. PICK of \in [Headings -> 1..Reached] : SectionOf(of)
    BY Zenon DEF SaInv
  <2>4. of \in [Headings -> DOMAIN asked]
    <3>1. 1..Reached \subseteq DOMAIN asked
      BY Zenon, <2>1, <2>2, PlacesOfPrefix
    <3>. QED
      BY Zenon, <2>3, <3>1
  <2>5. moves = 0 /\ status = OK /\ outputFd # "none" =>
          \A k \in DOMAIN asked : asked[k] \in up => \E i \in Headings : of[i] = k
    BY Zenon, <2>1, <2>2, <2>3 DEF SectionOf
  <2>6. DumpsOwn /\ (pc = "done" => outputFd # "file")
    BY Zenon DEF SaInv
  <2>. QED
    BY Zenon, <2>3, <2>4, <2>5, <2>6 DEF SectionOf, SectionsOwn, DumpsOwn
<1>. QED
  BY <1>1, SaInit, SaStep, PTL DEF Spec

-----------------------------------------------------------------------------
(* Selecting, sorting and shortening lists. *)

\* A function on the first places is a list.
LEMMA ListFn ==
  ASSUME NEW n \in Nat, NEW T, NEW f \in [1 .. n -> T]
  PROVE  f \in Seq(T) /\ Len(f) = n /\ DOMAIN f = 1 .. n
  OBVIOUS

\* Induction over the places of a list.
LEMMA PlaceInduction ==
  ASSUME NEW n \in Nat, NEW S, 0 \in S, \A i \in 0 .. n - 1 : i \in S => i + 1 \in S
  PROVE  0 .. n \subseteq S
<1>. DEFINE rest == (0 .. n) \ S
<1>. SUFFICES ASSUME rest # {} PROVE FALSE
  BY Zenon
<1>1. rest \subseteq Nat
  OBVIOUS
<1>2. PICK m \in rest : \A y \in rest : ~(<<y, m>> \in OpToRel(<, Nat))
  BY Zenon, <1>1, NatLessThanWellFounded, WFMin
<1>3. m \in 0 .. n /\ m \notin S
  BY Zenon, <1>2
<1>4. m # 0
  BY Zenon, <1>3
<1>5. m - 1 \in 0 .. n - 1 /\ m - 1 \in 0 .. n /\ m - 1 < m /\ (m - 1) + 1 = m /\ m \in Nat /\ m - 1 \in Nat
  BY <1>3, <1>4
<1>6. m - 1 \notin rest
  BY Zenon, <1>2, <1>5 DEF OpToRel
<1>7. m - 1 \in S
  BY Zenon, <1>5, <1>6
<1>. QED
  BY Zenon, <1>3, <1>5, <1>7

\* What the definition of KeptUpTo asks of a function, up to m.
IsKept(g, s, K, m) ==
  g = [i \in 0 .. m |-> IF i = 0 THEN <<>>
                        ELSE IF s[i] \in K THEN Append(g[i - 1], s[i]) ELSE g[i - 1]]

\* There is such a function, so KeptUpTo is one.
LEMMA KeptAre ==
  ASSUME NEW s, NEW K, Len(s) \in Nat
  PROVE  /\ KeptUpTo(s, K)[0] = <<>>
         /\ \A i \in 1 .. Len(s) :
               /\ s[i] \in K => KeptUpTo(s, K)[i] = Append(KeptUpTo(s, K)[i - 1], s[i])
               /\ s[i] \notin K => KeptUpTo(s, K)[i] = KeptUpTo(s, K)[i - 1]
<1>. DEFINE n == Len(s)
            S == {m \in Nat : \E g : IsKept(g, s, K, m)}
<1>1. 0 \in S
  <2>. DEFINE g == [i \in 0 .. 0 |-> <<>>]
  <2>1. IsKept(g, s, K, 0)
    BY DEF IsKept
  <2>. QED
    BY <2>1
<1>2. ASSUME NEW m \in 0 .. n - 1, m \in S PROVE m + 1 \in S
  <2>1. PICK g : IsKept(g, s, K, m)
    BY Zenon, <1>2
  <2>. DEFINE next == IF s[m + 1] \in K THEN Append(g[m], s[m + 1]) ELSE g[m]
              h == [i \in 0 .. m + 1 |-> IF i = m + 1 THEN next ELSE g[i]]
  <2>2. m \in Nat /\ m + 1 \in Nat
    BY <1>2
  <2>3. \A i \in 0 .. m : g[i] = IF i = 0 THEN <<>>
                                 ELSE IF s[i] \in K THEN Append(g[i - 1], s[i]) ELSE g[i - 1]
    BY Zenon, <2>1 DEF IsKept
  <2>4. ASSUME NEW i \in 0 .. m + 1
        PROVE  h[i] = IF i = 0 THEN <<>>
                      ELSE IF s[i] \in K THEN Append(h[i - 1], s[i]) ELSE h[i - 1]
    <3>1. CASE i = m + 1
      <4>1. i # 0 /\ i - 1 = m /\ m \in 0 .. m + 1 /\ m # m + 1
        BY <2>2, <3>1
      <4>2. h[i] = next /\ h[i - 1] = g[m]
        BY Zenon, <3>1, <4>1
      <4>. QED
        BY Zenon, <3>1, <4>1, <4>2
    <3>2. CASE i # m + 1
      <4>1. i \in 0 .. m
        BY <2>2, <3>2
      <4>2. h[i] = g[i]
        BY Zenon, <3>2
      <4>3. CASE i = 0
        BY Zenon, <2>3, <4>1, <4>2, <4>3
      <4>4. CASE i # 0
        <5>1. i - 1 \in 0 .. m + 1 /\ i - 1 # m + 1
          BY <2>2, <4>1, <4>4
        <5>2. h[i - 1] = g[i - 1]
          BY Zenon, <5>1
        <5>. QED
          BY Zenon, <2>3, <4>1, <4>2, <4>4, <5>2
      <4>. QED
        BY Zenon, <4>3, <4>4
    <3>. QED
      BY Zenon, <3>1, <3>2
  <2>5. IsKept(h, s, K, m + 1)
    <3>1. h = [i \in 0 .. m + 1 |-> h[i]]
      BY Zenon
    <3>. HIDE DEF h
    <3>. QED
      BY Zenon, <2>4, <3>1 DEF IsKept
  <2>. QED
    BY Zenon, <2>2, <2>5
<1>3. n \in S
  <2>1. 0 .. n \subseteq S
    <3>. HIDE DEF S
    <3>. QED
      BY Zenon, <1>1, <1>2, PlaceInduction
  <2>2. n \in 0 .. n
    OBVIOUS
  <2>. QED
    BY Zenon, <2>1, <2>2
<1>4. IsKept(KeptUpTo(s, K), s, K, n)
  BY Zenon, <1>3 DEF KeptUpTo, IsKept
<1>5. 0 \in 0 .. n /\ \A i \in 1 .. n : i \in 0 .. n /\ i # 0
  OBVIOUS
<1>. QED
  BY Zenon, <1>4, <1>5 DEF IsKept

\* The places r is taken from: those among the first m of s with an element of K.
AreFrom(at, r, s, K, m) ==
  /\ at \in [1 .. Len(r) -> 1 .. m]
  /\ \A i, j \in 1 .. Len(r) : i < j => at[i] < at[j]
  /\ \A i \in 1 .. Len(r) : r[i] = s[at[i]] /\ s[at[i]] \in K
  /\ \A k \in 1 .. m : s[k] \in K => \E i \in 1 .. Len(r) : at[i] = k

\* A selection keeps the order and all that is in K.
LEMMA KeptFrom ==
  ASSUME NEW T, NEW s \in Seq(T), NEW K
  PROVE  Kept(s, K) \in Seq(T) /\ \E at : AreFrom(at, Kept(s, K), s, K, Len(s))
<1>. DEFINE n == Len(s)
            f == KeptUpTo(s, K)
            S == {m \in 0 .. n : f[m] \in Seq(T) /\ \E at : AreFrom(at, f[m], s, K, m)}
<1>1. n \in Nat /\ \A i \in 1 .. n : s[i] \in T
  BY Zenon, LenProperties, ElementOfSeq
<1>2. /\ f[0] = <<>>
      /\ \A i \in 1 .. n : /\ s[i] \in K => f[i] = Append(f[i - 1], s[i])
                           /\ s[i] \notin K => f[i] = f[i - 1]
  BY ZenonT(60), <1>1, KeptAre
<1>. HIDE DEF n, f
<1>3. 0 \in S
  <2>1. AreFrom(<<>>, <<>>, s, K, 0)
    BY DEF AreFrom
  <2>2. 0 \in 0 .. n /\ <<>> \in Seq(T)
    BY <1>1
  <2>. QED
    BY Zenon, <1>2, <2>1, <2>2
<1>4. ASSUME NEW m \in 0 .. n - 1, m \in S PROVE m + 1 \in S
  <2>. DEFINE r == f[m]
              k == m + 1
  <2>1. m \in Nat /\ k \in 1 .. n /\ k - 1 = m /\ k \in 0 .. n
    BY <1>1
  <2>2. r \in Seq(T) /\ Len(r) \in Nat
    BY Zenon, <1>4, LenProperties
  <2>3. PICK at : AreFrom(at, r, s, K, m)
    BY Zenon, <1>4
  <2>4. (s[k] \in K => f[k] = Append(r, s[k])) /\ (s[k] \notin K => f[k] = r)
    <3>. HIDE DEF k
    <3>1. f[k - 1] = r
      BY Zenon, <2>1
    <3>. HIDE DEF r
    <3>. QED
      BY Zenon, <1>2, <2>1, <3>1
  <2>. HIDE DEF r
  <2>5. CASE s[k] \notin K
    <3>1. f[k] = r
      BY Zenon, <2>4, <2>5
    <3>2. \A i \in 1 .. k : i \in 1 .. m \/ i = k
      BY <2>1
    <3>3. 1 .. m \subseteq 1 .. k
      BY <2>1
    <3>. HIDE DEF k
    <3>4. AreFrom(at, r, s, K, k)
      BY Zenon, <2>3, <2>5, <3>2, <3>3 DEF AreFrom
    <3>5. k \in S
      BY Zenon, <2>1, <2>2, <3>1, <3>4
    <3>. QED
      BY Zenon, <3>5 DEF k
  <2>6. CASE s[k] \in K
    <3>. DEFINE l == Len(r)
                u == f[k]
                to == [i \in 1 .. l + 1 |-> IF i = l + 1 THEN k ELSE at[i]]
    <3>1. /\ u \in Seq(T) /\ Len(u) = l + 1 /\ u[l + 1] = s[k]
          /\ \A i \in 1 .. l : u[i] = r[i]
      <4>1. s[k] \in T /\ u = Append(r, s[k])
        BY Zenon, <1>1, <2>1, <2>4, <2>6
      <4>. HIDE DEF u, k
      <4>. QED
        BY <2>2, <4>1, AppendProperties
    <3>2. l \in Nat /\ (\A i \in 1 .. l : i \in 1 .. l + 1 /\ i # l + 1) /\ l + 1 \in 1 .. l + 1
      BY <2>2
    <3>3. to[l + 1] = k /\ \A i \in 1 .. l : to[i] = at[i]
      BY Zenon, <3>2
    <3>4. \A i \in 1 .. l : at[i] \in 1 .. m
      BY Zenon, <2>3 DEF AreFrom
    <3>5. /\ 1 .. m \subseteq 1 .. k /\ k \in 1 .. k /\ \A i \in 1 .. m : i < k
          /\ \A i \in 1 .. k : i \in 1 .. m \/ i = k
      BY <2>1
    <3>6. \A i \in 1 .. l + 1 : i \in 1 .. l \/ i = l + 1
      BY <2>2
    <3>7. \A i \in 1 .. l + 1 : ~(l + 1 < i)
      BY <2>2
    <3>. HIDE DEF k, l, u
    <3>8. to \in [1 .. l + 1 -> 1 .. k]
      BY Zenon, <3>4, <3>5, <3>6
    <3>. HIDE DEF to
    <3>9. \A i, j \in 1 .. l + 1 : i < j => to[i] < to[j]
      <4>. SUFFICES ASSUME NEW i \in 1 .. l + 1, NEW j \in 1 .. l + 1, i < j PROVE to[i] < to[j]
        BY Zenon
      <4>1. i \in 1 .. l
        BY Zenon, <3>6, <3>7
      <4>2. CASE j \in 1 .. l
        BY Zenon, <2>3, <3>3, <4>1, <4>2 DEF AreFrom, l
      <4>3. CASE j = l + 1
        BY Zenon, <3>3, <3>4, <3>5, <4>1, <4>3
      <4>. QED
        BY Zenon, <3>6, <4>2, <4>3
    <3>10. \A i \in 1 .. l + 1 : u[i] = s[to[i]] /\ s[to[i]] \in K
      BY ZenonT(60), <2>3, <2>6, <3>1, <3>3, <3>6 DEF AreFrom, l
    <3>11. \A i \in 1 .. k : s[i] \in K => \E j \in 1 .. l + 1 : to[j] = i
      <4>. SUFFICES ASSUME NEW i \in 1 .. k, s[i] \in K PROVE \E j \in 1 .. l + 1 : to[j] = i
        BY Zenon
      <4>1. CASE i = k
        BY Zenon, <3>2, <3>3, <4>1
      <4>2. CASE i \in 1 .. m
        <5>1. PICK j \in 1 .. l : at[j] = i
          BY Zenon, <2>3, <4>2 DEF AreFrom, l
        <5>. QED
          BY Zenon, <3>2, <3>3, <5>1
      <4>. QED
        BY Zenon, <3>5, <4>1, <4>2
    <3>12. AreFrom(to, u, s, K, k)
      BY Zenon, <3>1, <3>8, <3>9, <3>10, <3>11 DEF AreFrom
    <3>13. k \in S
      BY Zenon, <2>1, <3>1, <3>12 DEF u
    <3>. QED
      BY Zenon, <3>13 DEF k
  <2>. QED
    BY Zenon, <2>5, <2>6
<1>5. n \in S
  <2>1. 0 .. n \subseteq S
    <3>. HIDE DEF S
    <3>. QED
      BY Zenon, <1>1, <1>3, <1>4, PlaceInduction
  <2>2. n \in 0 .. n
    BY <1>1
  <2>. QED
    BY Zenon, <2>1, <2>2
<1>. QED
  BY Zenon, <1>5 DEF Kept, n, f

Distinct(s) == \A i, j \in DOMAIN s : s[i] = s[j] => i = j
NewestFirst(s) == \A i, j \in DOMAIN s : i < j => s[i].time >= s[j].time

\* A selection from a list without duplicates that has the newest first is such
\* a list of what the list and K have in common.
LEMMA KeptList ==
  ASSUME NEW T, NEW s \in Seq(T), NEW K
  PROVE  /\ Kept(s, K) \in Seq(T)
         /\ Range(Kept(s, K)) = Range(s) \cap K
         /\ Distinct(s) => Distinct(Kept(s, K))
         /\ NewestFirst(s) => NewestFirst(Kept(s, K))
<1>. DEFINE r == Kept(s, K)
            n == Len(s)
            l == Len(r)
<1>1. PICK at : AreFrom(at, r, s, K, n)
  BY Zenon, KeptFrom
<1>2. r \in Seq(T) /\ DOMAIN s = 1 .. n /\ DOMAIN r = 1 .. l /\ n \in Nat /\ l \in Nat
  BY Zenon, KeptFrom, LenProperties
<1>. HIDE DEF r, n, l
<1>3. /\ \A i \in 1 .. l : at[i] \in 1 .. n /\ r[i] = s[at[i]] /\ s[at[i]] \in K
      /\ \A i, j \in 1 .. l : i < j => at[i] < at[j]
      /\ \A k \in 1 .. n : s[k] \in K => \E i \in 1 .. l : at[i] = k
  BY Zenon, <1>1 DEF AreFrom, l
<1>4. Range(r) = Range(s) \cap K
  <2>1. ASSUME NEW x \in Range(r) PROVE x \in Range(s) \cap K
    BY ZenonT(60), <1>2, <1>3 DEF Range
  <2>2. ASSUME NEW x \in Range(s), x \in K PROVE x \in Range(r)
    <3>1. PICK k \in 1 .. n : s[k] = x
      BY Zenon, <1>2 DEF Range
    <3>2. PICK i \in 1 .. l : at[i] = k
      BY Zenon, <1>3, <2>2, <3>1
    <3>3. r[i] = x
      BY Zenon, <1>3, <3>1, <3>2
    <3>. QED
      BY Zenon, <1>2, <3>3 DEF Range
  <2>. QED
    BY Zenon, <2>1, <2>2
<1>5. ASSUME Distinct(s) PROVE Distinct(r)
  <2>. SUFFICES ASSUME NEW i \in 1 .. l, NEW j \in 1 .. l, r[i] = r[j], i # j PROVE FALSE
    BY Zenon, <1>2 DEF Distinct
  <2>1. at[i] = at[j]
    BY ZenonT(60), <1>2, <1>3, <1>5 DEF Distinct
  <2>2. i < j \/ j < i
    BY <1>2
  <2>3. at[i] < at[j] \/ at[j] < at[i]
    BY Zenon, <1>3, <2>2
  <2>4. at[i] \in Nat
    BY <1>2, <1>3
  <2>. QED
    BY <2>1, <2>3, <2>4
<1>6. ASSUME NewestFirst(s) PROVE NewestFirst(r)
  <2>. SUFFICES ASSUME NEW i \in 1 .. l, NEW j \in 1 .. l, i < j PROVE r[i].time >= r[j].time
    BY Zenon, <1>2 DEF NewestFirst
  <2>1. at[i] < at[j] /\ at[i] \in DOMAIN s /\ at[j] \in DOMAIN s
    BY Zenon, <1>2, <1>3
  <2>2. s[at[i]].time >= s[at[j]].time
    BY Zenon, <1>6, <2>1 DEF NewestFirst
  <2>. QED
    BY Zenon, <1>3, <2>2
<1>. QED
  BY Zenon, <1>2, <1>4, <1>5, <1>6 DEF r

\* Sorting changes nothing but the order.
LEMMA SortedList ==
  ASSUME NEW T, NEW s \in Seq(T), NEW t \in SortEventsByTimeDesc(s)
  PROVE  t \in Seq(T) /\ Range(t) = Range(s) /\ NewestFirst(t) /\ (Distinct(s) => Distinct(t))
<1>. DEFINE n == Len(s)
<1>1. n \in Nat /\ DOMAIN s = 1 .. n /\ s \in [1 .. n -> T]
  BY Zenon, LenProperties
<1>. HIDE DEF n
<1>2. PICK q \in SetToSeqs(DOMAIN s) : t = [i \in DOMAIN s |-> s[q[i]]]
  BY Zenon DEF SortEventsByTimeDesc
<1>3. NewestFirst(t)
  BY Zenon DEF SortEventsByTimeDesc, NewestFirst
<1>4. Cardinality(1 .. n) = n
  <2>1. 1 \in Int /\ n \in Int /\ (1 <= n => n - 1 + 1 = n) /\ (~(1 <= n) => n = 0)
    BY <1>1
  <2>2. Cardinality(1 .. n) = IF 1 > n THEN 0 ELSE n - 1 + 1
    BY <2>1, FS_Interval
  <2>. QED
    BY <1>1, <2>2
<1>5. /\ q \in [1 .. n -> 1 .. n]
      /\ \A i, j \in 1 .. n : q[i] = q[j] => i = j
      /\ \A k \in 1 .. n : \E i \in 1 .. n : q[i] = k
  BY Zenon, <1>1, <1>2, <1>4 DEF SetToSeqs, Bijection, Injection, Surjection, IsInjective
<1>6. t \in [1 .. n -> T] /\ \A i \in 1 .. n : t[i] = s[q[i]] /\ q[i] \in 1 .. n
  BY Zenon, <1>1, <1>2, <1>5
<1>7. t \in Seq(T)
  BY Zenon, <1>1, <1>6, ListFn
<1>8. DOMAIN t = 1 .. n
  BY Zenon, <1>6
<1>9. Range(t) = Range(s)
  <2>1. ASSUME NEW x \in Range(t) PROVE x \in Range(s)
    <3>1. PICK i \in 1 .. n : t[i] = x
      BY Zenon, <1>8 DEF Range
    <3>2. q[i] \in DOMAIN s /\ s[q[i]] = x
      BY Zenon, <1>1, <1>6, <3>1
    <3>. QED
      BY Zenon, <3>2 DEF Range
  <2>2. ASSUME NEW x \in Range(s) PROVE x \in Range(t)
    <3>1. PICK k \in 1 .. n : s[k] = x
      BY Zenon, <1>1 DEF Range
    <3>2. PICK i \in 1 .. n : q[i] = k
      BY Zenon, <1>5
    <3>3. t[i] = x
      BY Zenon, <1>6, <3>1, <3>2
    <3>. QED
      BY Zenon, <1>8, <3>3 DEF Range
  <2>. QED
    BY Zenon, <2>1, <2>2
<1>10. ASSUME Distinct(s) PROVE Distinct(t)
  <2>. SUFFICES ASSUME NEW i \in 1 .. n, NEW j \in 1 .. n, t[i] = t[j] PROVE i = j
    BY Zenon, <1>8 DEF Distinct
  <2>1. q[i] \in DOMAIN s /\ q[j] \in DOMAIN s /\ s[q[i]] = s[q[j]]
    BY Zenon, <1>1, <1>6
  <2>2. q[i] = q[j]
    BY Zenon, <1>10, <2>1 DEF Distinct
  <2>. QED
    BY Zenon, <1>5, <2>2
<1>. QED
  BY Zenon, <1>3, <1>7, <1>9, <1>10

\* A list without duplicates has as many elements as places.
LEMMA DistinctCount ==
  ASSUME NEW T, NEW s \in Seq(T), Distinct(s)
  PROVE  Cardinality(Range(s)) = Len(s) /\ Len(s) \in Nat
<1>1. Len(s) \in Nat /\ DOMAIN s = 1 .. Len(s)
  BY Zenon, LenProperties
<1>2. s \in [1 .. Len(s) -> Range(s)] /\ \A x \in Range(s) : \E i \in 1 .. Len(s) : s[i] = x
  <2>1. s \in [1 .. Len(s) -> T]
    BY Zenon, LenProperties
  <2>. QED
    BY Zenon, <1>1, <2>1 DEF Range
<1>3. s \in Bijection(1 .. Len(s), Range(s))
  BY Zenon, <1>1, <1>2 DEF Bijection, Injection, Surjection, IsInjective, Distinct
<1>4. ExistsBijection(1 .. Len(s), Range(s))
  BY Zenon, <1>3 DEF ExistsBijection
<1>. QED
  BY Zenon, <1>1, <1>4, FS_CountingElements

\* What a list has is finite.
LEMMA RangeFinite ==
  ASSUME NEW T, NEW s \in Seq(T)
  PROVE  IsFiniteSet(Range(s))
<1>1. Len(s) \in Nat /\ s \in [1 .. Len(s) -> T] /\ DOMAIN s = 1 .. Len(s)
  BY Zenon, LenProperties
<1>2. s \in Surjection(1 .. Len(s), Range(s))
  BY Zenon, <1>1 DEF Range, Surjection
<1>3. ExistsSurjection(1 .. Len(s), Range(s))
  BY Zenon, <1>2 DEF ExistsSurjection
<1>. QED
  BY Zenon, <1>1, <1>3, FS_NatSurjection

\* A prefix of a list without duplicates that has the newest first has the newest
\* elements of the list.
LEMMA PrefixNewest ==
  ASSUME NEW T, NEW s \in Seq(T), Distinct(s), NewestFirst(s), NEW count \in Int
  PROVE  Resize(s, count) \in Seq(T) /\ Newest(Resize(s, count), Range(s), count)
<1>. DEFINE n == Len(s)
            m == IF count > 0 /\ n > count THEN count ELSE n
            r == Resize(s, count)
<1>1. n \in Nat /\ DOMAIN s = 1 .. n /\ Cardinality(Range(s)) = n
  BY Zenon, LenProperties, DistinctCount
<1>2. m \in 0 .. n /\ m \in Nat
  BY <1>1
<1>3. r \in Seq(T) /\ Len(r) = m /\ \A i \in 1 .. m : r[i] = s[i]
  <2>1. CASE count > 0 /\ n > count
    <3>1. 1 .. count \subseteq 1 .. n /\ 1 <= count /\ count - 1 + 1 = count
      BY <1>1, <2>1
    <3>2. r = SubSeq(s, 1, count) /\ m = count
      BY Zenon, <2>1 DEF Resize
    <3>3. \A i \in 1 .. count : s[i] \in T
      BY Zenon, <3>1, ElementOfSeq
    <3>4. /\ SubSeq(s, 1, count) \in Seq(T) /\ Len(SubSeq(s, 1, count)) = count
          /\ \A i \in 1 .. count : SubSeq(s, 1, count)[i] = s[i]
      BY <3>1, <3>3, SubSeqProperties
    <3>. QED
      BY Zenon, <3>2, <3>4
  <2>2. CASE ~(count > 0 /\ n > count)
    <3>1. r = s /\ m = n
      BY Zenon, <2>2 DEF Resize
    <3>. QED
      BY Zenon, <3>1
  <2>. QED
    BY Zenon, <2>1, <2>2
<1>4. DOMAIN r = 1 .. m
  BY Zenon, <1>3, LenProperties
<1>5. m = IF count > 0 /\ Cardinality(Range(s)) > count THEN count ELSE Cardinality(Range(s))
  BY Zenon, <1>1
<1>. HIDE DEF n, m, r
<1>6. 1 .. m \subseteq 1 .. n
  BY <1>1, <1>2
<1>7. Distinct(r)
  BY Zenon, <1>1, <1>3, <1>4, <1>6 DEF Distinct
<1>8. \A i, j \in DOMAIN r : i < j => r[i].time >= r[j].time
  BY Zenon, <1>1, <1>3, <1>4, <1>6 DEF NewestFirst
<1>9. Range(r) \subseteq Range(s)
  BY Zenon, <1>1, <1>3, <1>4, <1>6 DEF Range
<1>10. \A i \in DOMAIN r : \A e \in Range(s) \ Range(r) : r[i].time >= e.time
  <2>. SUFFICES ASSUME NEW i \in 1 .. m, NEW e \in Range(s), e \notin Range(r) PROVE r[i].time >= e.time
    BY Zenon, <1>4
  <2>1. PICK k \in 1 .. n : s[k] = e
    BY Zenon, <1>1 DEF Range
  <2>2. k \notin 1 .. m
    BY Zenon, <1>3, <1>4, <2>1 DEF Range
  <2>3. i < k
    BY <1>1, <1>2, <2>2
  <2>. QED
    BY Zenon, <1>1, <1>3, <1>6, <2>1, <2>3 DEF NewestFirst
<1>11. Cardinality(Range(r)) = Len(r)
  BY Zenon, <1>3, <1>7, DistinctCount
<1>. QED
  BY Zenon, <1>3, <1>5, <1>8, <1>9, <1>10, <1>11 DEF Newest, r

-----------------------------------------------------------------------------
(* The list of kill records. *)

\* A page of the answer brings new records in some order.
LEMMA PageAdded ==
  ASSUME NEW T, IsFiniteSet(T), NEW s \in Seq(T), Distinct(s), NEW page \in SUBSET T,
         \A x \in page : x \notin Range(s), NEW q \in SetToSeqs(page)
  PROVE  s \o q \in Seq(T) /\ Distinct(s \o q) /\ Range(s \o q) = Range(s) \cup page
<1>. DEFINE c == Cardinality(page)
            n == Len(s)
            u == s \o q
<1>1. c \in Nat
  BY Zenon, FS_Subset, FS_CardinalityType
<1>2. /\ q \in [1 .. c -> page]
      /\ \A i, j \in 1 .. c : q[i] = q[j] => i = j
      /\ \A x \in page : \E i \in 1 .. c : q[i] = x
  BY Zenon, <1>1 DEF SetToSeqs, Bijection, Injection, Surjection, IsInjective
<1>3. q \in [1 .. c -> T]
  BY Zenon, <1>2
<1>4. q \in Seq(T) /\ DOMAIN q = 1 .. c
  BY Zenon, <1>1, <1>3, ListFn
<1>5. Len(q) = c
  BY Zenon, <1>1, <1>3, ListFn
<1>6. n \in Nat /\ DOMAIN s = 1 .. n
  BY Zenon, LenProperties
<1>7. /\ u \in Seq(T) /\ Len(u) = n + c
      /\ \A i \in 1 .. n + c : u[i] = IF i <= n THEN s[i] ELSE q[i - n]
  BY ZenonT(60), <1>4, <1>5, ConcatProperties
<1>8. DOMAIN u = 1 .. n + c
  BY Zenon, <1>7, LenProperties
<1>. HIDE DEF c, n, u
<1>9. ASSUME NEW i \in 1 .. n + c
      PROVE  \/ i \in 1 .. n /\ u[i] = s[i]
             \/ i - n \in 1 .. c /\ u[i] = q[i - n] /\ (i - n) + n = i
  BY <1>1, <1>6, <1>7
<1>10. \A i \in 1 .. n : i \in 1 .. n + c /\ u[i] = s[i]
  BY <1>1, <1>6, <1>7
<1>11. \A i \in 1 .. c : i + n \in 1 .. n + c /\ u[i + n] = q[i]
  BY <1>1, <1>6, <1>7
<1>12. ASSUME NEW i \in 1 .. n, NEW j \in 1 .. c PROVE s[i] # q[j]
  <2>1. s[i] \in Range(s)
    BY Zenon, <1>6 DEF Range
  <2>2. q[j] \in page
    BY Zenon, <1>2
  <2>. QED
    BY Zenon, <2>1, <2>2
<1>13. Distinct(u)
  <2>. SUFFICES ASSUME NEW i \in 1 .. n + c, NEW j \in 1 .. n + c, u[i] = u[j] PROVE i = j
    BY Zenon, <1>8 DEF Distinct
  <2>1. CASE i \in 1 .. n /\ u[i] = s[i]
    <3>1. j \in 1 .. n /\ u[j] = s[j]
      BY Zenon, <1>9, <1>12, <2>1
    <3>. QED
      BY Zenon, <1>6, <2>1, <3>1 DEF Distinct
  <2>2. CASE i - n \in 1 .. c /\ u[i] = q[i - n] /\ (i - n) + n = i
    <3>1. j - n \in 1 .. c /\ u[j] = q[j - n] /\ (j - n) + n = j
      BY Zenon, <1>9, <1>12, <2>2
    <3>2. i - n = j - n
      BY Zenon, <1>2, <2>2, <3>1
    <3>. QED
      BY <2>2, <3>1, <3>2
  <2>. QED
    BY Zenon, <1>9, <2>1, <2>2
<1>14. Range(u) = Range(s) \cup page
  <2>1. ASSUME NEW x \in Range(u) PROVE x \in Range(s) \cup page
    <3>1. PICK i \in 1 .. n + c : u[i] = x
      BY Zenon, <1>8 DEF Range
    <3>2. CASE i \in 1 .. n /\ u[i] = s[i]
      BY Zenon, <1>6, <3>1, <3>2 DEF Range
    <3>3. CASE i - n \in 1 .. c /\ u[i] = q[i - n] /\ (i - n) + n = i
      BY Zenon, <1>2, <3>1, <3>3
    <3>. QED
      BY Zenon, <1>9, <3>2, <3>3
  <2>2. ASSUME NEW x \in Range(s) PROVE x \in Range(u)
    BY Zenon, <1>6, <1>8, <1>10 DEF Range
  <2>3. ASSUME NEW x \in page PROVE x \in Range(u)
    <3>1. PICK i \in 1 .. c : q[i] = x
      BY Zenon, <1>2
    <3>2. i + n \in DOMAIN u /\ u[i + n] = x
      BY Zenon, <1>8, <1>11, <3>1
    <3>. QED
      BY Zenon, <3>2 DEF Range
  <2>. QED
    BY Zenon, <2>1, <2>2, <2>3
<1>. QED
  BY Zenon, <1>7, <1>13, <1>14 DEF u

\* What EventListDumper prints of an answer.
PrintsNewest(rows, es, p, count) ==
  LET wanted == {e \in Range(es) : Listed(e, p)}
  IN  IF wanted = {} THEN rows = Note("no_records_found")
      ELSE Newest([i \in 1 .. (Len(rows) - 1) |-> rows[i + 1][2]], wanted, count)

\* BuildResults leaves the newest records that are wanted.
LEMMA ResultsNewest ==
  ASSUME NEW T, NEW es \in Seq(T), Distinct(es), NEW sorted \in SortEventsByTimeDesc(es),
         NEW p, p.count \in Int, NEW rows, rows = BuildResults(sorted, p)
  PROVE  PrintsNewest(IF rows = <<>> THEN Note("no_records_found") ELSE << <<"titles">> >> \o rows,
                      es, p, p.count)
<1>. DEFINE wanted == {e \in Range(es) : Listed(e, p)}
            all == Kept(sorted, wanted)
            shown == Resize(all, p.count)
            m == Len(shown)
<1>1. sorted \in Seq(T) /\ Range(sorted) = Range(es) /\ NewestFirst(sorted) /\ Distinct(sorted)
  BY Zenon, SortedList
<1>2. all \in Seq(T) /\ Range(all) = Range(sorted) \cap wanted /\ Distinct(all) /\ NewestFirst(all)
  <2>. HIDE DEF wanted
  <2>. QED
    BY ZenonT(60), <1>1, KeptList
<1>3. Range(all) = wanted
  BY Zenon, <1>1, <1>2
<1>4. rows = [i \in DOMAIN shown |-> BuildRow(shown[i])]
  BY Zenon, <1>1 DEF BuildResults
<1>. HIDE DEF wanted, all
<1>5. shown \in Seq(T) /\ Newest(shown, wanted, p.count)
  BY Zenon, <1>2, <1>3, PrefixNewest
<1>6. m \in Nat /\ DOMAIN shown = 1 .. m /\ shown = [i \in 1 .. m |-> shown[i]]
  BY Zenon, <1>5, LenProperties
<1>. HIDE DEF shown
<1>7. m = IF p.count > 0 /\ Cardinality(wanted) > p.count THEN p.count ELSE Cardinality(wanted)
  BY Zenon, <1>5 DEF Newest
<1>. HIDE DEF m
<1>8. IsFiniteSet(wanted)
  BY Zenon, <1>3, <1>2, RangeFinite
<1>9. m = 0 <=> wanted = {}
  <2>1. Cardinality(wanted) \in Nat /\ (Cardinality(wanted) = 0 <=> wanted = {})
    BY Zenon, <1>8, FS_EmptySet, FS_CardinalityType
  <2>. QED
    BY <1>7, <2>1
<1>10. /\ IsSeq(rows) /\ DOMAIN rows = 1 .. m /\ Len(rows) = m
       /\ \A i \in 1 .. m : rows[i][2] = shown[i]
  <2>1. rows \in [1 .. m -> {rows[i] : i \in DOMAIN rows}] /\ DOMAIN rows = 1 .. m
    BY Zenon, <1>4, <1>6
  <2>2. rows \in Seq({rows[i] : i \in DOMAIN rows})
    BY Zenon, <1>6, <2>1, ListFn
  <2>3. \A i \in 1 .. m : rows[i] = BuildRow(shown[i])
    BY Zenon, <1>4, <1>6
  <2>4. \A i \in 1 .. m : rows[i][2] = shown[i]
    BY <2>3 DEF BuildRow
  <2>5. Len(rows) = m
    BY Zenon, <1>6, <2>1, ListFn
  <2>. QED
    BY Zenon, <2>1, <2>2, <2>4, <2>5 DEF IsSeq
<1>11. rows = <<>> <=> m = 0
  BY <1>6, <1>10, EmptySeq DEF IsSeq
<1>12. CASE wanted = {}
  BY Zenon, <1>9, <1>11, <1>12 DEF PrintsNewest, wanted
<1>13. CASE wanted # {}
  <2>. DEFINE u == << <<"titles">> >> \o rows
              t == << <<"titles">> >>
  <2>1. /\ Len(u) = m + 1 /\ \A i \in 1 .. m : u[i + 1] = rows[i]
    <3>. DEFINE U == {rows[i] : i \in DOMAIN rows} \cup {<<"titles">>}
    <3>1. rows \in Seq(U)
      BY ZenonT(60), <1>10, SeqMonotonic DEF IsSeq
    <3>2. t \in Seq(U) /\ Len(t) = 1
      OBVIOUS
    <3>. HIDE DEF U, t
    <3>3. /\ Len(t \o rows) = 1 + m
          /\ \A i \in 1 .. 1 + m : (t \o rows)[i] = IF i <= 1 THEN t[i] ELSE rows[i - 1]
      <4>1. /\ Len(t \o rows) = Len(t) + Len(rows)
            /\ \A i \in 1 .. Len(t) + Len(rows) :
                  (t \o rows)[i] = IF i <= Len(t) THEN t[i] ELSE rows[i - Len(t)]
        BY ZenonT(60), <3>1, <3>2, ConcatProperties
      <4>2. Len(t) = 1 /\ Len(rows) = m
        BY Zenon, <1>10, <3>2
      <4>. QED
        BY <4>1, <4>2
    <3>4. 1 + m = m + 1 /\ \A i \in 1 .. m : i + 1 \in 1 .. 1 + m /\ ~(i + 1 <= 1) /\ (i + 1) - 1 = i
      BY <1>6
    <3>. QED
      BY Zenon, <3>3, <3>4 DEF t
  <2>2. (m + 1) - 1 = m
    BY <1>6
  <2>. HIDE DEF u, t
  <2>3. [i \in 1 .. (Len(u) - 1) |-> u[i + 1][2]] = shown
    BY ZenonT(60), <1>6, <1>10, <2>1, <2>2
  <2>4. PrintsNewest(u, es, p, p.count)
    BY Zenon, <1>5, <1>13, <2>3 DEF PrintsNewest, wanted
  <2>. QED
    BY Zenon, <1>9, <1>11, <1>13, <2>4 DEF u
<1>. QED
  BY Zenon, <1>12, <1>13

\* The answer as far as it has come: each record once, and what is still to
\* come is missing; nothing is when the service says that it is complete.
AnswerInv ==
  /\ callback \in [completed_ : BOOLEAN, reason_ : {"-1", "0", ENFILE, "failed"},
                   events_ : Seq(scenario.store)]
  /\ Distinct(callback.events_)
  /\ pending \in SUBSET scenario.store /\ Range(callback.events_) \cap pending = {}
  /\ callback.completed_ /\ callback.reason_ = "0" => pending = {}

\* The dump of the list: Execute has not returned, has failed or has printed.
ListPart ==
  /\ pc \in {"pre", "query", "wait", "after", "end", "done"}
  /\ pc \in {"pre", "query"} => callback = NoAnswer /\ pending = {}
  /\ pc # "pre" => param.count = scenario.count
  /\ status \in {Empty, OK, FAIL}
  /\ pc \in {"pre", "query", "wait"} => status = Empty
  /\ pc = "wait" \/ status = OK => Range(callback.events_) \cup pending = Stored(param)
  /\ status # OK => result = <<>> /\ answered = <<>>
  /\ status = OK => /\ pc \in {"after", "end", "done"} /\ Answer
                    /\ answered[1].reason = callback.reason_
                    /\ PrintsNewest(result, callback.events_, param, scenario.count)

ListInv ==
  /\ scenario \in Scenarios
  /\ scenario.kind = "list" => AnswerInv /\ ListPart

\* Nothing is asked at first.
LEMMA ListInit == Init => ListInv
<1>. SUFFICES ASSUME Init PROVE ListInv
  BY Zenon
<1>1. /\ scenario \in Scenarios /\ pc = "pre" /\ status = Empty /\ result = <<>> /\ answered = <<>>
      /\ callback = NoAnswer /\ pending = {}
  BY Zenon DEF Init, FrameInit, EventInit
<1>2. /\ callback \in [completed_ : BOOLEAN, reason_ : {"-1", "0", ENFILE, "failed"},
                       events_ : Seq(scenario.store)]
      /\ callback.events_ = <<>> /\ ~callback.completed_
  BY <1>1 DEF NoAnswer
<1>3. Distinct(<<>>) /\ Range(<<>>) = {}
  BY DEF Distinct, Range
<1>4. AnswerInv
  BY Zenon, <1>1, <1>2, <1>3 DEF AnswerInv
<1>5. ListPart
  BY Zenon, <1>1, EmptyIsNoStatus DEF ListPart
<1>. QED
  BY Zenon, <1>1, <1>4, <1>5 DEF ListInv

\* A page comes while the dumper waits, or when it no longer does.
LEMMA PageKeeps ==
  ASSUME ListInv, scenario.kind = "list", OnQuery, scenario' = scenario
  PROVE  (AnswerInv /\ ListPart)'
<1>1. AnswerInv /\ ListPart
  BY Zenon DEF ListInv
<1>2. PICK page, q :
        /\ page \in SUBSET pending /\ page # {} /\ q \in SetToSeqs(page)
        /\ pc # "pre" /\ ~callback.completed_
        /\ callback' = [callback EXCEPT !.events_ = callback.events_ \o q] /\ pending' = pending \ page
        /\ pc' = pc /\ status' = status /\ result' = result /\ answered' = answered /\ param' = param
  <2>1. PICK page \in (SUBSET pending) \ {{}} : \E sysEvents \in SetToSeqs(page) :
          /\ callback' = [callback EXCEPT !.events_ = callback.events_ \o sysEvents]
          /\ pending' = pending \ page
    BY Zenon DEF OnQuery
  <2>2. PICK q \in SetToSeqs(page) :
          /\ callback' = [callback EXCEPT !.events_ = callback.events_ \o q]
          /\ pending' = pending \ page
    BY Zenon, <2>1
  <2>3. /\ pc # "pre" /\ ~callback.completed_
        /\ pc' = pc /\ status' = status /\ result' = result /\ answered' = answered /\ param' = param
    BY Zenon DEF OnQuery, frame
  <2>4. page \in SUBSET pending /\ page # {}
    BY Zenon
  <2>. QED
    BY Zenon, <2>2, <2>3, <2>4
<1>. DEFINE T == scenario.store
            s == callback.events_
<1>3. /\ callback \in [completed_ : BOOLEAN, reason_ : {"-1", "0", ENFILE, "failed"}, events_ : Seq(T)]
      /\ Distinct(s) /\ pending \in SUBSET T /\ Range(s) \cap pending = {}
  BY Zenon, <1>1 DEF AnswerInv
<1>4. IsFiniteSet(T) /\ s \in Seq(T)
  <2>1. IsFiniteSet(T)
    BY Zenon, EventAssumption DEF ListInv
  <2>2. s \in Seq(T)
    BY <1>3
  <2>. QED
    BY Zenon, <2>1, <2>2
<1>. HIDE DEF T, s
<1>5. s \o q \in Seq(T) /\ Distinct(s \o q) /\ Range(s \o q) = Range(s) \cup page
  <2>1. /\ Distinct(s) /\ page \in SUBSET T /\ q \in SetToSeqs(page)
        /\ \A x \in page : x \notin Range(s)
    BY Zenon, <1>2, <1>3
  <2>. QED
    BY SMTT(30), <1>4, <2>1, PageAdded
<1>6. /\ callback' \in [completed_ : BOOLEAN, reason_ : {"-1", "0", ENFILE, "failed"}, events_ : Seq(T)]
      /\ callback'.events_ = s \o q /\ ~callback'.completed_
  BY <1>2, <1>3, <1>5 DEF s
<1>7. AnswerInv'
  BY Zenon, <1>2, <1>3, <1>5, <1>6 DEF AnswerInv, T
<1>8. pc \notin {"pre", "query"} /\ status # OK
  BY Zenon, <1>1, <1>2 DEF ListPart, Answer
<1>9. Range(callback'.events_) \cup pending' = Range(s) \cup pending
  BY Zenon, <1>2, <1>5, <1>6
<1>10. Stored(param)' = Stored(param)
  BY Zenon, <1>2 DEF Stored
<1>11. ListPart'
  <2>1. pc = "wait" => Range(s) \cup pending = Stored(param)
    BY Zenon, <1>1 DEF ListPart, s
  <2>. QED
    BY Zenon, <1>1, <1>2, <1>8, <1>9, <1>10, <2>1 DEF ListPart
<1>. QED
  BY Zenon, <1>7, <1>11

\* The service ends its answer.
LEMMA CompleteKeeps ==
  ASSUME ListInv, scenario.kind = "list", OnComplete, scenario' = scenario
  PROVE  (AnswerInv /\ ListPart)'
<1>1. AnswerInv /\ ListPart
  BY Zenon DEF ListInv
<1>2. PICK reason \in {"0", ENFILE, "failed"} :
        /\ pc \notin {"pre", "query"} /\ ~callback.completed_
        /\ reason = "0" => pending = {}
        /\ callback' = [callback EXCEPT !.completed_ = TRUE, !.reason_ = reason]
        /\ pending' = pending
        /\ pc' = pc /\ status' = status /\ result' = result /\ answered' = answered /\ param' = param
  BY Zenon DEF OnComplete, frame
<1>3. callback \in [completed_ : BOOLEAN, reason_ : {"-1", "0", ENFILE, "failed"}, events_ : Seq(scenario.store)]
  BY Zenon, <1>1 DEF AnswerInv
<1>4. /\ callback' \in [completed_ : BOOLEAN, reason_ : {"-1", "0", ENFILE, "failed"}, events_ : Seq(scenario.store)]
      /\ callback'.events_ = callback.events_ /\ callback'.reason_ = reason
  BY <1>2, <1>3
<1>5. AnswerInv'
  BY Zenon, <1>1, <1>2, <1>4 DEF AnswerInv
<1>6. status # OK
  BY Zenon, <1>1, <1>2 DEF ListPart, Answer
<1>7. Stored(param)' = Stored(param)
  BY Zenon, <1>2 DEF Stored
<1>8. ListPart'
  BY Zenon, <1>1, <1>2, <1>4, <1>6, <1>7 DEF ListPart
<1>. QED
  BY Zenon, <1>5, <1>8

\* The query is made, or not taken, and its answer is awaited.
LEMMA QueryKeeps ==
  ASSUME ListInv, scenario.kind = "list", scenario' = scenario,
         EventListPreExecute \/ Query \/ QueryFails \/ WaitTimesOut \/ QueryFailed
  PROVE  (AnswerInv /\ ListPart)'
<1>1. AnswerInv /\ ListPart
  BY Zenon DEF ListInv
<1>2. CASE EventListPreExecute
  <2>1. /\ pc = "pre" /\ pc' = "query" /\ status' = status /\ result' = result /\ answered' = answered
        /\ callback' = callback /\ pending' = pending
        /\ param' = [startTime_ |-> scenario.startTime_, endTime_ |-> scenario.endTime_,
                     count |-> scenario.count, processName_ |-> scenario.processName_,
                     eventId_ |-> Empty, queryRule |-> PROCESS_KILL]
    BY Zenon, <1>2 DEF EventListPreExecute, DoPreExecute, Goto
  <2>2. param'.count = scenario.count
    BY <2>1
  <2>3. AnswerInv'
    BY Zenon, <1>1, <2>1 DEF AnswerInv
  <2>4. "query" # "wait" /\ status = Empty
    BY Zenon, <1>1, <2>1 DEF ListPart
  <2>5. ListPart'
    BY Zenon, <1>1, <2>1, <2>2, <2>4, EmptyIsNoStatus DEF ListPart
  <2>. QED
    BY Zenon, <2>3, <2>5
<1>3. CASE Query
  <2>1. /\ pc = "query" /\ pc' = "wait" /\ status' = status /\ result' = result /\ answered' = answered
        /\ callback' = NoAnswer /\ pending' = Stored(param) /\ param' = param
    BY Zenon, <1>3 DEF Query, Goto
  <2>2. callback = NoAnswer /\ callback.events_ = <<>> /\ ~callback.completed_ /\ Range(<<>>) = {}
    <3>1. callback = NoAnswer
      BY Zenon, <1>1, <2>1 DEF ListPart
    <3>. QED
      BY <3>1 DEF NoAnswer, Range
  <2>3. Stored(param) \in SUBSET scenario.store
    BY Zenon DEF Stored
  <2>4. AnswerInv'
    BY Zenon, <1>1, <2>1, <2>2, <2>3 DEF AnswerInv
  <2>5. Stored(param)' = Stored(param)
    BY Zenon, <2>1 DEF Stored
  <2>6. "query" # "pre" /\ "wait" # "pre" /\ "wait" # "query" /\ status = Empty
    BY Zenon, <1>1, <2>1 DEF ListPart
  <2>7. ListPart'
    BY Zenon, <1>1, <2>1, <2>2, <2>5, <2>6, EmptyIsNoStatus DEF ListPart
  <2>. QED
    BY Zenon, <2>4, <2>7
<1>4. CASE QueryFails \/ WaitTimesOut \/ QueryFailed
  <2>1. /\ pc \in {"query", "wait"} /\ pc' = "end" /\ status' = FAIL /\ result' = result \o <<>>
        /\ callback' = callback /\ pending' = pending /\ param' = param /\ answered' = answered
    BY Zenon, <1>4, EmptyIsNoStatus DEF QueryFails, WaitTimesOut, QueryFailed, DoExecute, event
  <2>2. result = <<>> /\ answered = <<>>
    BY Zenon, <1>1, <2>1, EmptyIsNoStatus DEF ListPart
  <2>3. <<>> \o <<>> = <<>>
    OBVIOUS
  <2>4. AnswerInv'
    BY Zenon, <1>1, <2>1 DEF AnswerInv
  <2>5. "end" \notin {"pre", "query", "wait"} /\ pc # "pre"
    BY Zenon, <2>1
  <2>6. ListPart'
    BY Zenon, <1>1, <2>1, <2>2, <2>3, <2>5, EmptyIsNoStatus DEF ListPart
  <2>. QED
    BY Zenon, <2>4, <2>6
<1>. QED
  BY Zenon, <1>2, <1>3, <1>4

\* The list is printed.
LEMMA PrintKeeps ==
  ASSUME ListInv, scenario.kind = "list", scenario' = scenario, PrintEventList
  PROVE  (AnswerInv /\ ListPart)'
<1>1. AnswerInv /\ ListPart
  BY Zenon DEF ListInv
<1>2. PICK sorted \in SortEventsByTimeDesc(callback.events_) :
        DoExecute("wait", OK, IF BuildResults(sorted, param) = <<>> THEN Note("no_records_found")
                              ELSE << <<"titles">> >> \o BuildResults(sorted, param))
  BY Zenon DEF PrintEventList
<1>. DEFINE rows == BuildResults(sorted, param)
            shown == IF rows = <<>> THEN Note("no_records_found") ELSE << <<"titles">> >> \o rows
<1>3. /\ pc = "wait" /\ pc' = "after" /\ status' = OK /\ result' = result \o shown
      /\ callback' = callback /\ pending' = pending /\ param' = param
      /\ answered' = Append(answered, [reason |-> callback.reason_, param |-> param]) /\ Answer
  BY Zenon, <1>2 DEF PrintEventList, DoExecute, Answered
<1>4. /\ status = Empty /\ result = <<>> /\ answered = <<>> /\ param.count = scenario.count
      /\ Range(callback.events_) \cup pending = Stored(param)
  BY Zenon, <1>1, <1>3, EmptyIsNoStatus DEF ListPart
<1>5. callback.events_ \in Seq(scenario.store) /\ Distinct(callback.events_)
  <2>1. callback \in [completed_ : BOOLEAN, reason_ : {"-1", "0", ENFILE, "failed"},
                      events_ : Seq(scenario.store)]
    BY Zenon, <1>1 DEF AnswerInv
  <2>2. callback.events_ \in Seq(scenario.store)
    BY <2>1
  <2>. QED
    BY Zenon, <1>1, <2>2 DEF AnswerInv
<1>6. param.count \in Int
  BY Zenon, <1>4, EventAssumption DEF ListInv
<1>7. PrintsNewest(shown, callback.events_, param, param.count)
  BY Zenon, <1>5, <1>6, ResultsNewest
<1>8. IsSeq(shown)
  <2>1. IsSeq(rows)
    <3>. DEFINE w == Resize(Kept(sorted, {e \in Range(sorted) : Listed(e, param)}), param.count)
    <3>1. rows = [i \in DOMAIN w |-> BuildRow(w[i])]
      BY Zenon DEF BuildResults
    <3>2. w \in Seq(scenario.store)
      <4>. DEFINE all == Kept(sorted, {e \in Range(sorted) : Listed(e, param)})
      <4>1. sorted \in Seq(scenario.store) /\ NewestFirst(sorted) /\ Distinct(sorted)
        BY Zenon, <1>5, SortedList
      <4>2. all \in Seq(scenario.store) /\ NewestFirst(all) /\ Distinct(all)
        BY Zenon, <4>1, KeptList
      <4>. HIDE DEF all
      <4>3. Resize(all, param.count) \in Seq(scenario.store)
        BY Zenon, <1>6, <4>2, PrefixNewest
      <4>. QED
        BY Zenon, <4>3 DEF all
    <3>. HIDE DEF rows, w
    <3>3. Len(w) \in Nat /\ DOMAIN w = 1 .. Len(w)
      BY Zenon, <3>2, LenProperties
    <3>4. rows \in [1 .. Len(w) -> {rows[i] : i \in DOMAIN rows}]
      BY Zenon, <3>1, <3>3
    <3>. QED
      BY Zenon, <3>3, <3>4, ListFn DEF IsSeq
  <2>. HIDE DEF rows
  <2>2. IsSeq(Note("no_records_found")) /\ IsSeq(<< <<"titles">> >>)
    BY DEF IsSeq, Note
  <2>3. IsSeq(<< <<"titles">> >> \o rows)
    <3>. DEFINE U == {rows[i] : i \in DOMAIN rows} \cup {<<"titles">>}
    <3>1. rows \in Seq(U)
      BY Zenon, <2>1, SeqMonotonic DEF IsSeq
    <3>2. << <<"titles">> >> \in Seq(U)
      OBVIOUS
    <3>. HIDE DEF U
    <3>3. << <<"titles">> >> \o rows \in Seq(U)
      BY <3>1, <3>2
    <3>. QED
      BY Zenon, <3>3, SeqIsSeq
  <2>. QED
    BY Zenon, <2>2, <2>3
<1>9. result' = shown
  <2>. HIDE DEF shown
  <2>1. <<>> \o shown = shown
    BY Zenon, <1>8, ConcatEmptySeq DEF IsSeq
  <2>. QED
    BY Zenon, <1>3, <1>4, <2>1
<1>10. answered'[1].reason = callback.reason_
  BY <1>3, <1>4
<1>. HIDE DEF shown
<1>11. AnswerInv'
  BY Zenon, <1>1, <1>3 DEF AnswerInv
<1>12. Stored(param)' = Stored(param) /\ Answer'
  BY Zenon, <1>3 DEF Stored, Answer
<1>13. PrintsNewest(result', callback'.events_, param', scenario'.count)
  BY Zenon, <1>3, <1>4, <1>7, <1>9
<1>14. PrintsNewest(result, callback.events_, param, scenario.count)'
  BY Zenon, <1>13 DEF PrintsNewest, Listed, ShouldSkipEvent, HasRow, NamesProcess, Newest, Note
<1>15. "after" \notin {"pre", "query", "wait"} /\ "wait" # "pre"
  OBVIOUS
<1>16. ListPart'
  BY Zenon, <1>3, <1>4, <1>10, <1>12, <1>14, <1>15, EmptyIsNoStatus DEF ListPart
<1>. QED
  BY Zenon, <1>11, <1>16

\* Every step keeps the invariant of the list.
LEMMA ListStep == ListInv /\ [Next]_vars => ListInv'
<1>. SUFFICES ASSUME ListInv, [Next]_vars PROVE ListInv'
  BY Zenon
<1>1. scenario' = scenario
  BY Zenon, ScenarioFixed
<1>. SUFFICES ASSUME scenario.kind = "list" PROVE (AnswerInv /\ ListPart)'
  BY Zenon, <1>1 DEF ListInv
<1>2. AnswerInv /\ ListPart
  BY Zenon DEF ListInv
<1>3. /\ "list" \in EventKinds /\ "list" \notin ScanKinds /\ "list" \notin Remote /\ "list" # "detail"
      /\ {"logs", "read", "next"} \cap {"pre", "query", "wait", "after", "end", "done"} = {}
  BY Zenon DEF EventKinds, ScanKinds, Remote
<1>4. EventStep \/ EventService \/ UNCHANGED vars
  BY Zenon, <1>3 DEF Next, Step, Environment
<1>5. CASE EventListPreExecute \/ Query \/ QueryFails \/ WaitTimesOut \/ QueryFailed
  BY Zenon, <1>1, <1>5, QueryKeeps
<1>6. CASE PrintEventList
  BY Zenon, <1>1, <1>6, PrintKeeps
<1>7. CASE OnQuery \/ OnComplete
  BY Zenon, <1>1, <1>7, PageKeeps, CompleteKeeps
<1>8. CASE EventAfterExecute \/ EventDestroy \/ UNCHANGED vars
  <2>1. /\ callback' = callback /\ pending' = pending /\ param' = param /\ answered' = answered
        /\ status' = status /\ result' = result
        /\ pc' = pc \/ (pc \in {"after", "end"} /\ pc' \in {"end", "done"})
    BY Zenon, <1>8 DEF EventAfterExecute, EventDestroy, DoAfterExecute, Destroy, Goto, vars, event, frame
  <2>2. AnswerInv'
    BY Zenon, <1>1, <1>2, <2>1 DEF AnswerInv
  <2>3. Stored(param)' = Stored(param) /\ (Answer => Answer')
    BY Zenon, <1>1, <2>1 DEF Stored, Answer
  <2>4. PrintsNewest(result, callback.events_, param, scenario.count)
          => PrintsNewest(result, callback.events_, param, scenario.count)'
    BY Zenon, <1>1, <2>1
  <2>5. CASE pc' = pc
    BY Zenon, <1>1, <1>2, <2>1, <2>2, <2>3, <2>4, <2>5 DEF ListPart
  <2>6. CASE pc \in {"after", "end"} /\ pc' \in {"end", "done"}
    <3>1. pc # "pre" /\ pc' \notin {"pre", "query", "wait"} /\ pc' \in {"after", "end", "done"}
      BY Zenon, <2>6
    <3>. QED
      BY Zenon, <1>1, <1>2, <2>1, <2>2, <2>3, <2>4, <3>1 DEF ListPart
  <2>. QED
    BY Zenon, <2>1, <2>2, <2>5, <2>6
<1>9. ~(OpenLog \/ ReadLine \/ EndOfLog \/ NextLog \/ LastLog)
  <2>1. pc \notin {"logs", "read", "next"}
    BY Zenon, <1>2, <1>3 DEF ListPart
  <2>. QED
    BY Zenon, <2>1 DEF OpenLog, ReadLine, EndOfLog, NextLog, LastLog, DoExecute, Goto
<1>10. ~(EventDetailPreExecute \/ MatchKills \/ MatchFaults)
  BY Zenon, <1>3 DEF EventDetailPreExecute, MatchKills, MatchFaults, FirstAnswer
<1>. QED
  BY Zenon, <1>4, <1>5, <1>6, <1>7, <1>8, <1>9, <1>10 DEF EventStep, EventService

\* EventListNewest for any store, any pages in any order, and any options: the
\* list that is printed is that of the newest records asked for.
THEOREM EventListTheorem == Spec => []EventListNewest
<1>1. ListInv => EventListNewest
  <2>. SUFFICES ASSUME ListInv, scenario.kind = "list" PROVE EventListNewest
    BY Zenon DEF EventListNewest
  <2>1. AnswerInv /\ ListPart
    BY Zenon DEF ListInv
  <2>2. status = FAIL => result = <<>>
    BY Zenon, <2>1, EmptyIsNoStatus DEF ListPart
  <2>. SUFFICES ASSUME status = OK PROVE EventListNewest
    BY Zenon, <2>2 DEF EventListNewest
  <2>. DEFINE got == IF answered[1].reason = "0" THEN Stored(param) ELSE Range(callback.events_)
              wanted == {e \in got : /\ e.process \notin {Missing, Empty} /\ NamesProcess(e, param)
                                     /\ e.killId \in DOMAIN AppExitReason
                                     /\ AppExitReason[e.killId] # "InvalidKillId"}
  <2>3. /\ callback.completed_ /\ callback.reason_ \in {"0", ENFILE}
        /\ answered[1].reason = callback.reason_
        /\ PrintsNewest(result, callback.events_, param, scenario.count)
        /\ Range(callback.events_) \cup pending = Stored(param)
    BY Zenon, <2>1 DEF ListPart, Answer
  <2>4. got = Range(callback.events_)
    BY Zenon, <2>1, <2>3 DEF AnswerInv
  <2>5. \A e \in scenario.store : e.killId \in DOMAIN AppExitReason <=> e.killId \notin {Missing, "out_of_range"}
    BY Zenon, EventAssumption DEF ListInv
  <2>6. Range(callback.events_) \subseteq scenario.store
    BY Zenon, <2>3 DEF Stored
  <2>7. wanted = {e \in Range(callback.events_) : Listed(e, param)}
    BY Zenon, <2>4, <2>5, <2>6 DEF Listed, ShouldSkipEvent, HasRow
  <2>8. IF wanted = {} THEN result = Note("no_records_found")
        ELSE Newest([i \in 1 .. (Len(result) - 1) |-> result[i + 1][2]], wanted, scenario.count)
    BY Zenon, <2>3, <2>7 DEF PrintsNewest
  <2>. QED
    BY Zenon, <2>3, <2>8, EmptyIsNoStatus DEF EventListNewest
<1>. QED
  BY <1>1, ListInit, ListStep, PTL DEF Spec
=============================================================================
