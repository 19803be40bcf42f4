--------------------------- MODULE CpuUsageProofs ---------------------------
(***************************************************************************)
(* Proofs about CpuUsage, for any callers and any number of instances of   *)
(* the two abilities: the proxy that DumpManagerCpuClient keeps is never   *)
(* silently stale, a late death notice leaves a live proxy alone, and what *)
(* a caller is answered is its own.                                        *)
(***************************************************************************)
EXTENDS CpuUsage, SequenceTheorems, FiniteSetTheorems, TLAPS

\* The places of a caller.
Places == {"request", "poll", "send", "connect", "watch", "proxy", "call", "usage",
           "reply", "done"} \cup Inside

\* What a step may rely on besides StaleProxyNoticed: instances are numbered
\* upwards, so a notice can only be about one that is gone.
Numbered ==
    /\ abilities \in Nat /\ ability \in 0 .. abilities
    /\ watched \subseteq 1 .. abilities
    /\ notices \subseteq 1 .. abilities
    /\ ability \notin notices
    /\ proxy_ \in Nat
    /\ pc \in [Callers -> Places]
    /\ found \in [Clients -> Nat]
    /\ \A c \in Clients : pc[c] = "watch" => found[c] # None

IInv == Numbered /\ StaleProxyNoticed

\* There is no instance and no proxy at the start.
LEMMA InitIInv == Init => IInv
<1> SUFFICES ASSUME Init PROVE IInv
  BY Zenon
<1>1. pc \in [Callers -> Places] /\ \A c \in Clients : pc[c] # "watch"
  BY Zenon DEF Init, Callers, Places, Inside
<1> QED
  BY <1>1 DEF Init, IInv, Numbered, StaleProxyNoticed, None

\* A step of the command line client before it reaches the CPU dumper.
LEMMA ClientIInv ==
    ASSUME IInv, NEW c \in Clients,
           Main(c) \/ Request(c) \/ OnDemandStart(c) \/ SendRequest(c)
    PROVE  IInv'
<1> USE DEF IInv, Numbered, StaleProxyNoticed, Goto, Return, binder, None, Callers, Places, Inside
<1>1. CASE Main(c)
  BY Zenon, <1>1 DEF Main
<1>2. CASE Request(c)
  BY Zenon, <1>2 DEF Request
<1>3. CASE OnDemandStart(c)
  BY Zenon, <1>3 DEF OnDemandStart
<1>4. CASE SendRequest(c)
  BY Zenon, <1>4 DEF SendRequest
<1> QED
  BY Zenon, <1>1, <1>2, <1>3, <1>4

\* A step through DumpManagerCpuClient.
LEMMA ProxyIInv ==
    ASSUME IInv, NEW c \in Clients,
           Connect(c) \/ AddDeathRecipient(c) \/ GetProxy(c) \/ CallAbility(c) \/ Reply(c)
    PROVE  IInv'
<1> USE DEF IInv, Numbered, StaleProxyNoticed, Goto, Return, CallFails, binder, None, Callers, Places, Inside
<1>1. CASE Connect(c)
  BY SMTT(30), <1>1 DEF Connect
<1>2. CASE AddDeathRecipient(c)
  <2>1. CASE found[c] = ability /\ watched' = watched \cup {ability} /\ proxy_' = ability
             /\ Goto(c, "watch", "proxy")
    BY <1>2, <2>1 DEF AddDeathRecipient
  <2>2. CASE CallFails(c) /\ UNCHANGED <<watched, proxy_>>
    BY Zenon, <1>2, <2>2 DEF AddDeathRecipient
  <2> QED
    BY Zenon, <1>2, <2>1, <2>2 DEF AddDeathRecipient
<1>3. CASE GetProxy(c)
  BY Zenon, <1>3 DEF GetProxy
<1>4. CASE CallAbility(c)
  BY Zenon, <1>4 DEF CallAbility
<1>5. CASE Reply(c)
  BY Zenon, <1>5 DEF Reply
<1> QED
  BY Zenon, <1>1, <1>2, <1>3, <1>4, <1>5

\* A step inside the CPU ability.
LEMMA AbilityIInv ==
    ASSUME IInv, NEW c \in Clients,
           InitParam(c) \/ HasDumpPermission(c) \/ DumpCpuUsageData(c) \/ CopyDatas(c)
    PROVE  IInv'
<1> USE DEF IInv, Numbered, StaleProxyNoticed, Goto, CallFails, binder, None, Callers, Places, Inside
<1>1. CASE InitParam(c)
  BY Zenon, <1>1 DEF InitParam
<1>2. CASE HasDumpPermission(c)
  BY Zenon, <1>2 DEF HasDumpPermission
<1>3. CASE DumpCpuUsageData(c)
  BY Zenon, <1>3 DEF DumpCpuUsageData
<1>4. CASE CopyDatas(c)
  BY Zenon, <1>4 DEF CopyDatas
<1> QED
  BY Zenon, <1>1, <1>2, <1>3, <1>4

\* The invariant is kept by every step: a recipient is registered before the
\* proxy is set, a death turns registrations into notices, and the notice of
\* the object behind the proxy is only taken off together with the proxy.
LEMMA StepIInv == IInv /\ [Next]_vars => IInv'
<1> SUFFICES ASSUME IInv, [Next]_vars PROVE IInv'
  BY Zenon
<1> USE DEF IInv, Numbered, StaleProxyNoticed, None, Places, Inside
<1>1. ASSUME NEW c \in Clients, Step(c) PROVE IInv'
  BY Zenon, <1>1, ClientIInv, ProxyIInv, AbilityIInv DEF Step
<1>2. ASSUME NEW a \in Apps, GetCpuUsageByPid(a) PROVE IInv'
  BY Zenon, <1>2, CpuAssumption DEF GetCpuUsageByPid, binder, CpuAssumption, Callers
<1>3. ASSUME NEW c \in Clients, OnLoadSystemAbilitySuccess(c) \/ OnLoadSystemAbilityFail(c)
      PROVE  IInv'
  BY Zenon, <1>3 DEF OnLoadSystemAbilitySuccess, OnLoadSystemAbilityFail, local, binder
<1>4. ASSUME NEW i \in notices, OnRemoteDied(i) PROVE IInv'
  <2>1. CASE ResetProxy(i)
    <3>1. /\ proxy_' = None /\ watched' \subseteq watched /\ notices' \subseteq notices
          /\ UNCHANGED <<ability, abilities, pc, found>>
      BY Zenon, <1>4, <2>1 DEF OnRemoteDied, ResetProxy, local
    <3> QED
      BY Zenon, <3>1
  <2>2. CASE ~ ResetProxy(i)
    BY Zenon, <1>4, <2>2 DEF OnRemoteDied, ResetProxy, local
  <2> QED
    BY Zenon, <2>1, <2>2
<1>5. CASE Reset
  BY Zenon, <1>5 DEF Reset, local
<1>6. CASE Unload
  BY Zenon, <1>6 DEF Unload, local
<1>7. CASE StartService
  BY <1>7 DEF StartService, local
<1>8. CASE AbilityDies
  <2>1. Numbered'
    BY <1>8 DEF AbilityDies, Callers
  <2>2. StaleProxyNoticed'
    BY Zenon, <1>8 DEF AbilityDies
  <2> QED
    BY Zenon, <2>1, <2>2
<1>9. CASE Done \/ UNCHANGED vars
  BY Zenon, <1>9 DEF Done, vars, local, binder
<1> QED
  BY Zenon, <1>1, <1>2, <1>3, <1>4, <1>5, <1>6, <1>7, <1>8, <1>9 DEF Next

\* The proxy DumpManagerCpuClient keeps stands for a live, watched object, or
\* the notice of the object's death is on its way, in every reachable state.
THEOREM StaleProxyTheorem == Spec => []StaleProxyNoticed
<1>1. IInv => StaleProxyNoticed
  BY Zenon DEF IInv
<1> QED
  BY <1>1, InitIInv, StepIInv, PTL DEF Spec

\* Handling a death notice never takes away the proxy of a live instance.
THEOREM LiveProxyTheorem == Spec => LiveProxyKept
<1>1. IInv /\ [Next]_vars =>
        [\A i \in notices : OnRemoteDied(i) /\ proxy_ = ability => proxy_' = proxy_]_vars
  BY Zenon DEF IInv, Numbered, OnRemoteDied, ResetProxy
<1> QED
  BY <1>1, InitIInv, StepIInv, PTL DEF Spec, LiveProxyKept

(***************************************************************************)
(* The replies.                                                            *)
(***************************************************************************)
Headings == <<"load", "time", "stat">>
Columns  == <<"title", "columns">>

\* The rows are what follows the five lines.
LEMMA RowsBehindHeadings ==
    ASSUME NEW rows \in Seq(Pids)
    PROVE  /\ RowsOf(<<>> \o Headings \o (Columns \o rows)) = rows
           /\ <<>> \o Headings \o (Columns \o rows) # <<>>
<1>. DEFINE T == Pids \cup {"load", "time", "stat", "title", "columns"}
            a == <<>> \o Headings
            b == Columns \o rows
<1>1. rows \in Seq(T) /\ Columns \in Seq(T) /\ Headings \in Seq(T) /\ <<>> \in Seq(T)
  BY SeqMonotonic DEF Headings, Columns
<1>2. Len(Columns) = 2 /\ Len(Headings) = 3 /\ Len(rows) \in Nat
  BY DEF Headings, Columns
<1>. HIDE DEF T
<1>0. ASSUME NEW s \in Seq(T), NEW t \in Seq(T)
      PROVE  /\ s \o t \in Seq(T) /\ Len(s \o t) = Len(s) + Len(t)
             /\ \A i \in 1..Len(t) : (s \o t)[i + Len(s)] = t[i]
  <2>1. Len(s) \in Nat /\ Len(t) \in Nat
    BY Zenon, LenProperties
  <2>2. \A i \in 1 .. Len(s) + Len(t) : (s \o t)[i] = IF i <= Len(s) THEN s[i] ELSE t[i - Len(s)]
    BY Zenon, ConcatProperties
  <2>3. ASSUME NEW i \in 1..Len(t) PROVE (s \o t)[i + Len(s)] = t[i]
    <3>1. i + Len(s) \in 1 .. Len(s) + Len(t) /\ ~(i + Len(s) <= Len(s)) /\ i + Len(s) - Len(s) = i
      BY <2>1
    <3>. QED
      BY <2>2, <3>1
  <2>. QED
    BY Zenon, <2>3, ConcatProperties
<1>3. a \in Seq(T) /\ Len(a) = 3
  BY <1>1, <1>2, ConcatProperties, EmptySeq
<1>4. /\ b \in Seq(T) /\ Len(b) = 2 + Len(rows)
      /\ \A i \in 1..Len(rows) : b[i + 2] = rows[i]
  <2>1. /\ b \in Seq(T) /\ Len(b) = Len(Columns) + Len(rows)
        /\ \A i \in 1..Len(rows) : b[i + Len(Columns)] = rows[i]
    BY Zenon, <1>0, <1>1
  <2>. QED
    BY Zenon, <1>2, <2>1
<1>. HIDE DEF a, b
<1>5. /\ a \o b \in Seq(T) /\ Len(a \o b) = 5 + Len(rows)
      /\ \A i \in 1..Len(rows) : (a \o b)[i + 5] = rows[i]
  <2>0. /\ a \o b \in Seq(T) /\ Len(a \o b) = Len(a) + Len(b)
        /\ \A i \in 1..Len(b) : (a \o b)[i + Len(a)] = b[i]
    BY Zenon, <1>0, <1>3, <1>4
  <2>1. /\ a \o b \in Seq(T) /\ Len(a \o b) = 3 + Len(b)
        /\ \A i \in 1..Len(b) : (a \o b)[i + 3] = b[i]
    BY Zenon, <1>3, <2>0
  <2>2. ASSUME NEW i \in 1..Len(rows) PROVE (a \o b)[i + 5] = rows[i]
    <3>1. i + 2 \in 1..Len(b) /\ (i + 2) + 3 = i + 5
      BY <1>2, <1>4
    <3>. QED
      BY Zenon, <1>4, <2>1, <3>1
  <2>. QED
    BY <1>2, <1>4, <2>1, <2>2
<1>. DEFINE l == a \o b
<1>6. l # <<>>
  BY <1>2, <1>5
<1>. HIDE DEF l
<1>7. RowsOf(l) = [i \in 1..Len(rows) |-> l[i + 5]]
  BY <1>2, <1>5 DEF RowsOf, l
<1>8. RowsOf(l) = rows
  BY <1>1, <1>2, <1>5, <1>7 DEF l
<1>. QED
  BY Zenon, <1>6, <1>8 DEF l, a, b

\* What std::sort leaves of an order of the processes: all of them, and each
\* before the ones SortProcInfo puts behind it.
LEMMA SortedOrders ==
    ASSUME NEW order \in Orders, NEW rows \in Sorted(order)
    PROVE  rows \in Seq(Pids) /\ Range(rows) = Pids /\ InOrder(rows)
<1>. DEFINE n == Cardinality(Pids)
<1>1. n \in Nat
  BY Zenon, CpuAssumption, FS_CardinalityType DEF CpuAssumption
<1>. HIDE DEF n
<1>2. /\ order \in [1..n -> Pids] /\ \A p \in Pids : \E i \in 1..n : order[i] = p
      /\ \A i, j \in 1..n : order[i] = order[j] => i = j
  BY Zenon DEF Orders, Bijection, Injection, Surjection, IsInjective, n
<1>3. PICK p \in Bijection(1..n, 1..n) : rows = [i \in 1..n |-> order[p[i]]]
  BY <1>2 DEF Sorted
<1>4. /\ p \in [1..n -> 1..n] /\ \A k \in 1..n : \E i \in 1..n : p[i] = k
      /\ \A i, j \in 1..n : p[i] = p[j] => i = j
  BY Zenon, <1>3 DEF Bijection, Injection, Surjection, IsInjective
<1>5. /\ rows \in [1..n -> Pids] /\ \A q \in Pids : \E i \in 1..n : rows[i] = q
      /\ \A i, j \in 1..n : rows[i] = rows[j] => i = j
  <2>1. rows \in [1..n -> Pids] /\ \A i \in 1..n : p[i] \in 1..n /\ rows[i] = order[p[i]]
    BY Zenon, <1>2, <1>3, <1>4
  <2>2. ASSUME NEW q \in Pids PROVE \E i \in 1..n : rows[i] = q
    <3>1. PICK k \in 1..n : order[k] = q
      BY Zenon, <1>2
    <3>2. PICK i \in 1..n : p[i] = k
      BY Zenon, <1>4
    <3>. QED
      BY Zenon, <2>1, <3>1, <3>2
  <2>3. ASSUME NEW i \in 1..n, NEW j \in 1..n, rows[i] = rows[j] PROVE i = j
    BY SMTT(30), <1>2, <1>4, <2>1, <2>3
  <2>. QED
    BY Zenon, <2>1, <2>2, <2>3
<1>6. \A i, j \in 1..n : i < j => ~SortProcInfo(rows[j], rows[i])
  BY Zenon, <1>2 DEF Sorted
<1>7. \A q, r \in Pids : q = r \/ SortProcInfo(q, r) \/ SortProcInfo(r, q)
  BY CpuAssumption DEF CpuAssumption, SortProcInfo
<1>8. InOrder(rows)
  BY SMTT(30), <1>1, <1>5, <1>6, <1>7 DEF InOrder
<1>. QED
  BY <1>1, <1>5, <1>8, SeqDef DEF Range

\* Lines that are the answer to a request for process p.
AnswerTo(lines, p) ==
    IF p # INVALID_PID THEN RowsOf(lines) = <<p>>
    ELSE Range(RowsOf(lines)) = Pids /\ InOrder(RowsOf(lines))

\* The members of the CPU ability belong to the one caller inside it, and only
\* its rows are in them.
MembersOwn(c) ==
    /\ pc[c] \in {"dump", "copy"} <=> cpu.owner = c
    /\ pc[c] = "dump" => /\ cpu.cpuUsagePid_ = pid[c]
                         /\ cpu.dumpCPUDatas_ = <<>> /\ cpu.curProcs_ = <<>>
    /\ pc[c] = "copy" /\ cpu.dumpCPUDatas_ # <<>> => AnswerTo(cpu.dumpCPUDatas_, pid[c])

\* A caller holds lines only once its call is over, and calls only an instance
\* that was there.
CallerOwn(c) ==
    /\ pc[c] \notin {"reply", "done"} => out[c] = <<>>
    /\ out[c] # <<>> => AnswerTo(out[c], pid[c])
    /\ pc[c] = "call" => found[c] # None
    /\ pc[c] \in Inside => ability # None

OwnInv ==
    /\ pc \in [Callers -> Places] /\ pid \in [Callers -> Asked] /\ DOMAIN out = Callers
    /\ found \in [Clients -> Nat]
    /\ DOMAIN cpu = {"owner", "cpuUsagePid_", "curSpecProc_", "curProcs_", "dumpCPUDatas_"}
    /\ cpu.owner = None => cpu.curProcs_ = <<>>
    /\ \A a \in Apps : pc[a] \in {"usage", "done"} /\ out[a] \in {<<>>, <<pid[a]>>}
    /\ \A c \in Clients : MembersOwn(c) /\ CallerOwn(c)

\* Nobody has lines at the start.
LEMMA OwnInit == Init => OwnInv
<1>. SUFFICES ASSUME Init PROVE OwnInv
  BY Zenon
<1>1. pc \in [Callers -> Places] /\ \A c \in Callers : pc[c] \in {"request", "usage"}
  BY Zenon DEF Init, Callers, Places, Inside
<1>2. \A c \in Callers : out[c] = <<>>
  BY Zenon DEF Init
<1>3. \A a \in Apps : a \in Callers /\ a \notin Clients
  BY Zenon, CpuAssumption DEF CpuAssumption, Callers
<1>4. \A a \in Apps : pc[a] = "usage"
  BY Zenon, <1>3 DEF Init
<1>5. \A c \in Clients : c \in Callers /\ c # None
  BY Zenon, CpuAssumption DEF CpuAssumption, Callers, None
<1>6. ASSUME NEW c \in Clients PROVE MembersOwn(c) /\ CallerOwn(c)
  BY Zenon, <1>1, <1>2, <1>5 DEF Init, NoCpu, MembersOwn, CallerOwn, Inside
<1>. QED
  BY Zenon, <1>1, <1>2, <1>3, <1>4, <1>6 DEF Init, NoCpu, OwnInv, None

\* A step of a caller outside the ability, which leaves the members and the
\* lines alone.
LEMMA OutsideOwn ==
    ASSUME OwnInv, NEW c \in Clients, NEW x \in Places \ {"dump", "copy"},
           pc[c] \notin Inside,
           pc' = [pc EXCEPT ![c] = x], UNCHANGED <<pid, out, ability, cpu>>,
           found' \in [Clients -> Nat], \A d \in Clients \ {c} : found'[d] = found[d],
           out[c] # <<>> => x \in {"reply", "done"},
           x = "call" => found'[c] # None,
           x = "init" => ability # None
    PROVE  OwnInv'
<1>1. /\ pc' \in [Callers -> Places] /\ pc'[c] = x
      /\ \A d \in Callers : d # c => pc'[d] = pc[d]
  BY Zenon DEF OwnInv, Callers
<1>2. \A a \in Apps : a # c /\ a \in Callers
  BY Zenon, CpuAssumption DEF CpuAssumption, Callers
<1>3. ASSUME NEW d \in Clients, d # c PROVE MembersOwn(d)' /\ CallerOwn(d)'
  BY SMTT(30), <1>1, <1>3 DEF OwnInv, MembersOwn, CallerOwn, Callers, AnswerTo
<1>4. MembersOwn(c)' /\ CallerOwn(c)'
  BY Zenon, <1>1 DEF OwnInv, MembersOwn, CallerOwn, Inside, Places, AnswerTo
<1>. QED
  BY Zenon, <1>1, <1>2, <1>3, <1>4 DEF OwnInv

\* What the invariant says of one run of the command.
LEMMA OwnOf ==
    ASSUME OwnInv, NEW c \in Clients
    PROVE  /\ c \in Callers /\ pc[c] \in Places /\ pc \in [Callers -> Places]
           /\ found \in [Clients -> Nat] /\ MembersOwn(c) /\ CallerOwn(c)
<1>1. c \in Callers
  BY Zenon DEF Callers
<1>2. pc \in [Callers -> Places] /\ found \in [Clients -> Nat] /\ MembersOwn(c) /\ CallerOwn(c)
  BY Zenon DEF OwnInv
<1>. QED
  BY Zenon, <1>1, <1>2

\* The steps of the command line client and of DumpManagerCpuClient.
LEMMA ClientOwn ==
    ASSUME OwnInv, IInv, NEW c \in Clients,
           \/ Main(c) \/ Request(c) \/ OnDemandStart(c) \/ SendRequest(c)
           \/ Connect(c) \/ AddDeathRecipient(c) \/ GetProxy(c) \/ CallAbility(c) \/ Reply(c)
    PROVE  OwnInv'
<1>. USE DEF Goto, Return, CallFails, binder, None
<1>1. /\ pc[c] \notin Inside /\ UNCHANGED <<pid, out, ability, cpu>>
      /\ out[c] # <<>> => pc[c] \in {"reply", "done"}
      /\ found \in [Clients -> Nat] /\ proxy_ \in Nat /\ ability \in Nat
  <2>1. UNCHANGED <<pid, out, ability, cpu>>
    BY Zenon DEF Main, Request, OnDemandStart, SendRequest, Connect, AddDeathRecipient, GetProxy,
           CallAbility, Reply
  <2>2. pc[c] \in {"request", "poll", "send", "connect", "watch", "proxy", "call", "reply"}
    BY Zenon DEF Main, Request, OnDemandStart, SendRequest, Connect, AddDeathRecipient, GetProxy,
           CallAbility, Reply
  <2>3. CallerOwn(c) /\ found \in [Clients -> Nat]
    BY Zenon, OwnOf
  <2>4. pc[c] \notin Inside /\ (out[c] # <<>> => pc[c] \in {"reply", "done"})
    BY Zenon, <2>2, <2>3 DEF Inside, CallerOwn
  <2>5. proxy_ \in Nat /\ abilities \in Nat /\ ability \in 0 .. abilities
    BY Zenon DEF IInv, Numbered
  <2>6. ability \in Nat
    BY <2>5
  <2>. QED
    BY Zenon, <2>1, <2>3, <2>4, <2>5, <2>6
<1>2. \E x \in Places \ {"dump", "copy"} :
        /\ pc' = [pc EXCEPT ![c] = x]
        /\ pc[c] = "reply" => x = "done"
        /\ x = "call" => found'[c] # None
        /\ x = "init" => ability # None
  <2>. USE DEF Places, Inside
  <2>0. pc = [pc EXCEPT ![c] = pc[c]] /\ pc[c] \in Places
    BY Zenon DEF OwnInv, Callers
  <2>1. CASE Main(c) \/ Request(c) \/ SendRequest(c) \/ Reply(c)
    BY Zenon, <2>1 DEF Main, Request, SendRequest, Reply
  <2>2. CASE OnDemandStart(c)
    BY ZenonT(60), <2>0, <2>2 DEF OnDemandStart
  <2>3. CASE Connect(c) \/ AddDeathRecipient(c)
    BY Zenon, <2>3 DEF Connect, AddDeathRecipient
  <2>4. CASE GetProxy(c)
    BY Zenon, <1>1, <2>4 DEF GetProxy
  <2>5. CASE CallAbility(c)
    <3>1. found[c] # None /\ pc[c] = "call"
      BY Zenon, <2>5, OwnOf DEF CallAbility, CallerOwn
    <3>. QED
      BY Zenon, <2>5, <3>1 DEF CallAbility
  <2>. QED
    BY Zenon, <2>1, <2>2, <2>3, <2>4, <2>5
<1>3. found' \in [Clients -> Nat] /\ \A d \in Clients \ {c} : found'[d] = found[d]
  <2>1. \E x \in Nat : found' = [found EXCEPT ![c] = x]
    <3>1. found = [found EXCEPT ![c] = found[c]] /\ found[c] \in Nat /\ None \in Nat
      BY Zenon, <1>1
    <3>. QED
      BY Zenon, <1>1, <3>1 DEF Main, Request, OnDemandStart, SendRequest, Connect, AddDeathRecipient,
         GetProxy, CallAbility, Reply
  <2>. QED
    BY Zenon, <1>1, <2>1
<1>4. out[c] # <<>> => pc[c] = "reply"
  BY Zenon, <1>1 DEF Main, Request, OnDemandStart, SendRequest, Connect, AddDeathRecipient, GetProxy,
     CallAbility, Reply
<1>. QED
  BY Zenon, <1>1, <1>2, <1>3, <1>4, OutsideOwn DEF Places

\* DumpCpuUsageData leaves no lines, or the answer to the caller inside.
LEMMA DumpAnswers ==
    ASSUME OwnInv, NEW c \in Clients, DumpCpuUsageData(c)
    PROVE  /\ DOMAIN cpu' = DOMAIN cpu /\ cpu'.owner = cpu.owner
           /\ cpu'.dumpCPUDatas_ # <<>> => AnswerTo(cpu'.dumpCPUDatas_, pid[c])
<1>1. /\ cpu.cpuUsagePid_ = pid[c] /\ cpu.dumpCPUDatas_ = <<>> /\ cpu.curProcs_ = <<>>
      /\ DOMAIN cpu = {"owner", "cpuUsagePid_", "curSpecProc_", "curProcs_", "dumpCPUDatas_"}
      /\ pid[c] \in Pids \cup {INVALID_PID}
  BY Zenon, CpuAssumption DEF CpuAssumption, OwnInv, MembersOwn, DumpCpuUsageData, Goto, Callers, INVALID_PID
<1>. DEFINE read == IF cpu.cpuUsagePid_ # INVALID_PID THEN GetSingleProcInfo(cpu) ELSE GetAllProcInfo(cpu)
<1>2. ASSUME NEW members \in read
      PROVE  /\ DOMAIN members = DOMAIN cpu /\ members.owner = cpu.owner
             /\ members.dumpCPUDatas_ = <<>> /\ members.cpuUsagePid_ = pid[c]
             /\ pid[c] # INVALID_PID => members.curSpecProc_ = <<pid[c]>>
             /\ pid[c] = INVALID_PID => members.curProcs_ \in Orders
  <2>1. CASE pid[c] # INVALID_PID
    BY Zenon, <1>1, <1>2, <2>1 DEF GetSingleProcInfo
  <2>2. CASE pid[c] = INVALID_PID
    <3>1. PICK order \in Orders : members = [cpu EXCEPT !.curProcs_ = @ \o order]
      BY Zenon, <1>1, <1>2, <2>2 DEF GetAllProcInfo
    <3>2. Cardinality(Pids) \in Nat /\ order \in [1..Cardinality(Pids) -> Pids]
      BY Zenon, CpuAssumption, FS_CardinalityType DEF CpuAssumption, Orders, Bijection, Injection
    <3>3. <<>> \o order = order
      BY <3>2, IsASeq, ConcatEmptySeq
    <3>. QED
      BY Zenon, <1>1, <2>2, <3>1, <3>3
  <2>. QED
    BY Zenon, <2>1, <2>2
<1>3. CASE cpu' = cpu
  BY Zenon, <1>1, <1>3
<1>4. CASE \E members \in read : cpu' = members
  BY Zenon, <1>2, <1>4
<1>5. ASSUME NEW members \in read, cpu' \in WithLines(members)
      PROVE  /\ DOMAIN cpu' = DOMAIN cpu /\ cpu'.owner = cpu.owner
             /\ AnswerTo(cpu'.dumpCPUDatas_, pid[c])
  <2>1. PICK lines \in DumpProcInfo(members) :
          cpu' = [members EXCEPT !.dumpCPUDatas_ = @ \o Headings \o lines]
    BY Zenon, <1>5 DEF WithLines, Headings
  <2>2. PICK rows : /\ lines = Columns \o rows
                    /\ rows \in IF members.cpuUsagePid_ # INVALID_PID THEN {members.curSpecProc_}
                                 ELSE Sorted(members.curProcs_)
    BY Zenon, <2>1 DEF DumpProcInfo, Columns
  <2>3. /\ DOMAIN cpu' = DOMAIN cpu /\ cpu'.owner = cpu.owner
        /\ cpu'.dumpCPUDatas_ = <<>> \o Headings \o (Columns \o rows)
    BY Zenon, <1>1, <1>2, <1>5, <2>1, <2>2
  <2>4. CASE pid[c] # INVALID_PID
    <3>0. /\ members.cpuUsagePid_ = pid[c] /\ members.curSpecProc_ = <<pid[c]>>
          /\ pid[c] \in Pids
      BY Zenon, <1>1, <1>2, <1>5, <2>4
    <3>1. rows = <<pid[c]>> /\ rows \in Seq(Pids)
      <4>1. rows = <<pid[c]>>
        BY Zenon, <2>2, <2>4, <3>0
      <4>2. <<pid[c]>> \in Seq(Pids)
        BY <3>0
      <4>. QED
        BY Zenon, <4>1, <4>2
    <3>. QED
      BY Zenon, <2>3, <2>4, <3>1, RowsBehindHeadings DEF AnswerTo
  <2>5. CASE pid[c] = INVALID_PID
    <3>1. rows \in Seq(Pids) /\ Range(rows) = Pids /\ InOrder(rows)
      BY Zenon, <1>2, <1>5, <2>2, <2>5, SortedOrders
    <3>. QED
      BY Zenon, <2>3, <2>5, <3>1, RowsBehindHeadings DEF AnswerTo
  <2>. QED
    BY Zenon, <2>3, <2>4, <2>5
<1>. QED
  BY Zenon, <1>3, <1>4, <1>5 DEF DumpCpuUsageData

\* The steps inside the CPU ability.
LEMMA InsideOwn ==
    ASSUME OwnInv, NEW c \in Clients,
           InitParam(c) \/ HasDumpPermission(c) \/ DumpCpuUsageData(c) \/ CopyDatas(c)
    PROVE  OwnInv'
<1>1. /\ UNCHANGED <<pid, ability, found>> /\ pc[c] \in {"init", "dump", "copy"}
      /\ pc' = [pc EXCEPT ![c] = pc'[c]] /\ pc'[c] \in {"dump", "copy", "reply"}
      /\ ability # None /\ out[c] = <<>> /\ c \in Callers /\ c # None
      /\ \A a \in Apps : a # c /\ a \in Callers
  <2>1. c \in Callers /\ c # None /\ \A a \in Apps : a # c /\ a \in Callers
    BY Zenon, CpuAssumption DEF CpuAssumption, Callers, None
  <2>2. /\ UNCHANGED <<pid, ability, found>> /\ pc[c] \in {"init", "dump", "copy"}
        /\ pc' = [pc EXCEPT ![c] = pc'[c]] /\ pc'[c] \in {"dump", "copy", "reply"}
    BY Zenon, <2>1 DEF InitParam, HasDumpPermission, DumpCpuUsageData, CopyDatas, Goto, CallFails, binder, OwnInv
  <2>. QED
    BY Zenon, <2>1, <2>2 DEF OwnInv, CallerOwn, Inside
<1>2. /\ pc' \in [Callers -> Places] /\ \A d \in Callers : d # c => pc'[d] = pc[d]
  BY SMTT(30), <1>1 DEF OwnInv, Places, Inside
<1>3. /\ DOMAIN cpu' = DOMAIN cpu /\ cpu'.owner \in {c, None}
      /\ \A d \in Clients : d # c => cpu.owner # d
  <2>1. CASE InitParam(c)
    BY Zenon, <1>1, <2>1, CpuAssumption DEF InitParam, Goto, OwnInv, MembersOwn, CpuAssumption, None
  <2>2. CASE HasDumpPermission(c) \/ CopyDatas(c)
    BY Zenon, <1>1, <2>2 DEF HasDumpPermission, CopyDatas, ResetParam, Goto, OwnInv, MembersOwn
  <2>3. CASE DumpCpuUsageData(c)
    <3>1. cpu.owner = c
      BY Zenon, <2>3 DEF DumpCpuUsageData, Goto, OwnInv, MembersOwn
    <3>. QED
      BY Zenon, <2>3, <3>1, DumpAnswers
  <2>. QED
    BY Zenon, <2>1, <2>2, <2>3
<1>4. DOMAIN out' = Callers /\ \A d \in Callers : d # c => out'[d] = out[d]
  BY Zenon DEF InitParam, HasDumpPermission, DumpCpuUsageData, CopyDatas, OwnInv
<1>5. ASSUME NEW d \in Clients, d # c PROVE MembersOwn(d)' /\ CallerOwn(d)'
  <2>1. pc'[d] = pc[d] /\ out'[d] = out[d] /\ cpu'.owner # d /\ pc[d] \notin {"dump", "copy"}
    BY ZenonT(60), <1>2, <1>3, <1>4, <1>5, CpuAssumption DEF CpuAssumption, None, Callers, OwnInv, MembersOwn
  <2>. QED
    BY ZenonT(60), <1>1, <2>1 DEF OwnInv, MembersOwn, CallerOwn, AnswerTo
<1>6. /\ MembersOwn(c)' /\ CallerOwn(c)'
      /\ cpu'.owner = None => cpu'.curProcs_ = <<>>
  <2>. USE DEF Goto, CallFails, Inside
  <2>1. CASE InitParam(c)
    BY Zenon, <1>1, <2>1 DEF InitParam, OwnInv, MembersOwn, CallerOwn
  <2>2. CASE HasDumpPermission(c)
    BY Zenon, <1>1, <2>2 DEF HasDumpPermission, OwnInv, MembersOwn, CallerOwn
  <2>3. CASE DumpCpuUsageData(c)
    <3>1. /\ cpu'.owner = cpu.owner
          /\ cpu'.dumpCPUDatas_ # <<>> => AnswerTo(cpu'.dumpCPUDatas_, pid[c])
      BY Zenon, <2>3, DumpAnswers
    <3>2. pc[c] = "dump" /\ pc'[c] = "copy" /\ out' = out
      BY Zenon, <1>1, <2>3 DEF DumpCpuUsageData, OwnInv
    <3>. QED
      BY Zenon, <1>1, <3>1, <3>2 DEF OwnInv, MembersOwn, CallerOwn, AnswerTo
  <2>4. CASE CopyDatas(c)
    BY <1>1, <2>4 DEF CopyDatas, ResetParam, OwnInv, MembersOwn, CallerOwn, AnswerTo
  <2>. QED
    BY Zenon, <2>1, <2>2, <2>3, <2>4
<1>. QED
  BY Zenon, <1>1, <1>2, <1>3, <1>4, <1>5, <1>6 DEF OwnInv

\* Every step keeps the invariant.
LEMMA OwnStep == OwnInv /\ IInv /\ [Next]_vars => OwnInv'
<1>. SUFFICES ASSUME OwnInv, IInv, [Next]_vars PROVE OwnInv'
  BY Zenon
<1>1. ASSUME NEW c \in Clients, Step(c) PROVE OwnInv'
  BY Zenon, <1>1, ClientOwn, InsideOwn DEF Step
<1>2. ASSUME NEW a \in Apps, GetCpuUsageByPid(a) PROVE OwnInv'
  <2>1. a \in Callers /\ \A c \in Clients : c # a /\ c \in Callers
    BY Zenon, CpuAssumption DEF CpuAssumption, Callers
  <2>2. /\ UNCHANGED <<pid, ability, found, cpu>> /\ pc' = [pc EXCEPT ![a] = "done"]
        /\ DOMAIN out' = Callers /\ out'[a] \in {out[a], <<pid[a]>>}
        /\ \A c \in Callers : c # a => out'[c] = out[c]
    BY Zenon, <1>2, <2>1 DEF GetCpuUsageByPid, binder, OwnInv
  <2>3. /\ pc' \in [Callers -> Places] /\ pc'[a] = "done"
        /\ \A c \in Callers : c # a => pc'[c] = pc[c]
    BY Zenon, <2>1, <2>2 DEF OwnInv, Places
  <2>4. ASSUME NEW c \in Clients PROVE MembersOwn(c)' /\ CallerOwn(c)'
    <3>1. MembersOwn(c) /\ CallerOwn(c) /\ pc'[c] = pc[c] /\ out'[c] = out[c]
      BY Zenon, <2>1, <2>2, <2>3, OwnOf
    <3>. QED
      BY Zenon, <2>2, <3>1 DEF MembersOwn, CallerOwn, AnswerTo
  <2>5. \A b \in Apps : pc'[b] \in {"usage", "done"} /\ out'[b] \in {<<>>, <<pid'[b]>>}
    BY Zenon, <2>1, <2>2, <2>3 DEF OwnInv, Callers
  <2>. QED
    BY Zenon, <2>2, <2>3, <2>4, <2>5 DEF OwnInv
<1>3. ASSUME UNCHANGED <<pc, pid, out, found, cpu, ability>> PROVE OwnInv'
  BY Zenon, <1>3 DEF OwnInv, MembersOwn, CallerOwn, AnswerTo
<1>4. ASSUME NEW c \in Clients, OnLoadSystemAbilitySuccess(c) \/ OnLoadSystemAbilityFail(c)
      PROVE  OwnInv'
  BY Zenon, <1>3, <1>4 DEF OnLoadSystemAbilitySuccess, OnLoadSystemAbilityFail, local, binder
<1>5. ASSUME NEW i \in notices, OnRemoteDied(i) PROVE OwnInv'
  BY Zenon, <1>3, <1>5 DEF OnRemoteDied, local
<1>6. CASE Reset \/ Unload
  BY Zenon, <1>3, <1>6 DEF Reset, Unload, local
<1>7. CASE StartService
  <2>1. /\ UNCHANGED <<pc, pid, out, found>> /\ cpu' = NoCpu /\ ability' # None
        /\ \A c \in Clients : pc[c] \notin Inside /\ c # None
    BY SMTT(30), <1>7, CpuAssumption DEF StartService, local, IInv, Numbered, OwnInv, CallerOwn, None, CpuAssumption
  <2>. QED
    BY ZenonT(60), <2>1 DEF OwnInv, MembersOwn, CallerOwn, AnswerTo, NoCpu, Inside
<1>8. CASE AbilityDies
  <2>1. /\ UNCHANGED <<pid, out, found>> /\ cpu' = NoCpu
        /\ pc' \in [Callers -> Places]
        /\ \A c \in Callers : pc'[c] = IF pc[c] \in Inside THEN "reply" ELSE pc[c]
    BY Zenon, <1>8 DEF AbilityDies, OwnInv, Places
  <2>2. \A c \in Clients : c \in Callers /\ c # None
    BY Zenon, CpuAssumption DEF CpuAssumption, Callers, None
  <2>3. ASSUME NEW c \in Clients PROVE MembersOwn(c)' /\ CallerOwn(c)'
    <3>1. MembersOwn(c) /\ CallerOwn(c) /\ c # None /\ pc'[c] \notin Inside
          /\ pc'[c] = IF pc[c] \in Inside THEN "reply" ELSE pc[c]
      <4>1. pc'[c] = IF pc[c] \in Inside THEN "reply" ELSE pc[c]
        BY Zenon, <2>1, <2>2
      <4>2. pc'[c] \notin Inside
        BY Zenon, <4>1 DEF Inside
      <4>. QED
        BY Zenon, <2>2, <4>1, <4>2, OwnOf
    <3>2. cpu'.owner = None
      BY Zenon, <2>1 DEF NoCpu
    <3>. QED
      BY Zenon, <2>1, <3>1, <3>2 DEF MembersOwn, CallerOwn, AnswerTo, Inside
  <2>4. \A a \in Apps : pc'[a] = pc[a]
    BY Zenon, <2>1 DEF OwnInv, Callers, Inside
  <2>. QED
    BY Zenon, <2>1, <2>3, <2>4 DEF OwnInv, NoCpu
<1>9. CASE Done \/ UNCHANGED vars
  BY Zenon, <1>3, <1>9 DEF Done, vars, local, binder
<1>. QED
  BY Zenon, <1>1, <1>2, <1>4, <1>5, <1>6, <1>7, <1>8, <1>9 DEF Next

\* RepliesOwn for any callers, processes and figures: whatever requests, refusals
\* and deaths come in between, a run of the command prints the row of the process
\* it named or every process once in the order of SortProcInfo, and GetCpuUsage
\* returns the figure of its own process.
THEOREM RepliesTheorem == Spec => []RepliesOwn
<1>1. OwnInv => RepliesOwn
  <2>. SUFFICES ASSUME OwnInv PROVE RepliesOwn
    BY Zenon
  <2>1. ASSUME NEW c \in Clients PROVE out[c] # <<>> => AnswerTo(out[c], pid[c])
    BY Zenon, OwnOf DEF CallerOwn
  <2>2. ASSUME NEW a \in Apps PROVE out[a] \in {<<>>, <<pid[a]>>}
    BY Zenon DEF OwnInv
  <2>. QED
    BY Zenon, <2>1, <2>2 DEF AnswerTo, RepliesOwn
<1>. QED
  BY <1>1, InitIInv, StepIInv, OwnInit, OwnStep, PTL DEF Spec
=============================================================================
