-------------------------- MODULE DumpDatasProofs ---------------------------
(***************************************************************************)
(* Proofs about DumpDatas, for any lists of executors of the shape that    *)
(* ConfigData gives them, any contents, and any failures: the lines stay   *)
(* in order, and a failure costs only the lines of the dumper that failed. *)
(***************************************************************************)
EXTENDS DumpDatas, TLAPS

\* Sequences.  What the proofs below use of them, each fact read off the
\* operators' own definitions.

\* An entry of a sequence over D is in D.
LEMMA EntryIn ==
    ASSUME NEW D, NEW q \in Seq(D), NEW k \in 1 .. Len(q)
    PROVE  q[k] \in D
OBVIOUS

\* The empty sequence, and that any other has a positive length.
LEMMA EmptyList ==
    ASSUME NEW D
    PROVE  << >> \in Seq(D) /\ Len(<< >>) = 0
           /\ \A q \in Seq(D) : q # << >> => Len(q) \in Nat \ {0}
OBVIOUS

\* A sequence is a function from 1 to its length.
LEMMA ListFn ==
    ASSUME NEW D, NEW q \in Seq(D)
    PROVE  Len(q) \in Nat /\ DOMAIN q = 1 .. Len(q) /\ q \in [1 .. Len(q) -> D]
OBVIOUS

\* The sequences over D are the functions from an initial segment into D.
LEMMA ListsAre == \A D : Seq(D) = UNION {[1 .. k -> D] : k \in Nat}
OBVIOUS

\* Length and entries of a concatenation.
LEMMA JoinFn ==
    ASSUME NEW D, NEW p \in Seq(D), NEW q \in Seq(D)
    PROVE  /\ p \o q \in Seq(D) /\ Len(p \o q) = Len(p) + Len(q)
           /\ \A k \in 1 .. Len(p) + Len(q) :
                (p \o q)[k] = IF k <= Len(p) THEN p[k] ELSE q[k - Len(p)]
OBVIOUS

\* The empty sequence is neutral for concatenation ...
LEMMA JoinEmpty ==
    ASSUME NEW D, NEW q \in Seq(D)
    PROVE  q \o << >> = q /\ << >> \o q = q
OBVIOUS

\* ... which is associative.
LEMMA JoinAssoc ==
    ASSUME NEW D, NEW p \in Seq(D), NEW q \in Seq(D), NEW r \in Seq(D)
    PROVE  (p \o q) \o r = p \o (q \o r)
BY SMTT(30)

\* Append adds one entry at the end ...
LEMMA AppendFn ==
    ASSUME NEW D, NEW q \in Seq(D), NEW e \in D
    PROVE  /\ Append(q, e) \in Seq(D) /\ Append(q, e) # << >>
           /\ Len(Append(q, e)) = Len(q) + 1 /\ Append(q, e)[Len(q) + 1] = e
           /\ \A k \in 1 .. Len(q) : Append(q, e)[k] = q[k]
OBVIOUS

\* ... as a concatenation does.
LEMMA AppendJoin ==
    ASSUME NEW D, NEW q \in Seq(D), NEW e \in D
    PROVE  Append(q, e) = q \o <<e>>
OBVIOUS

LineType == [from : Nat, file : Nat, line : Nat, clean : BOOLEAN]

DumperType == [names : Seq(Nat), next : Nat, stream : Nat, pos : Nat,
               more : BOOLEAN, titled : BOOLEAN]

\* The lines of a dumper before line l.
Under(c, l) == {m \in LinesOf(c) : Earlier(m, l)}

\* The names of the files of a dumper.
Names(c) == [f \in 1 .. Len(c.content) |-> f]

\* What can be said of executor i, its configuration c and its members d, with the
\* lines s: it has not begun; it is in the middle of a file and its lines so far
\* are there; it is through and all of its lines are.
Untouched(i, d, s) == d = Fresh /\ Of(s, i) = {}

Reading(c, i, d, s) ==
    /\ LineDumper(c)
    /\ d.stream \in 1 .. Len(c.content) /\ d.pos \in 0 .. c.content[d.stream]
    /\ c.class = "file" => d.next = d.stream /\ d.names = Names(c)
    /\ c.class = "cmd" => d.titled
    /\ Of(s, i) = Under(c, <<d.stream, d.pos + 1>>)

Whole(c, i, s) == Of(s, i) = LinesOf(c)

\* A dumper that has more data, to which the loop comes back.
Looping(c, i, d, s) == c.loop /\ d.more /\ Reading(c, i, d, s)

\* All lines, written or not.
All == written \o Pending

\* Where the executor at index is.
AtIndex(c, d, s) ==
    /\ phase \in {"head", "pre"} => Untouched(index, d, s) \/ Looping(c, index, d, s)
    /\ phase = "exec" => IF LineDumper(c) THEN Reading(c, index, d, s) ELSE Untouched(index, d, s)
    /\ phase = "after" => \/ LineDumper(c) /\ Looping(c, index, d, s)
                          \/ ~(LineDumper(c) /\ c.loop /\ d.more) /\ (canceled \/ Whole(c, index, s))

\* The loop stack holds at most the one dumper that the next boundary goes back to.
StackInv(s) ==
    \/ loopStack = <<>>
    \/ \E t \in 0 .. index - 1 :
          /\ loopStack = <<t>> /\ t < Len(executors)
          /\ Looping(Cfg(t), t, dumper[t], s)
          /\ \A b \in t + 1 .. index - 1 : ~Boundary(Cfg(b))

\* The loop over the executors, with s the lines written and pending.
LoopInv(s) ==
    /\ index \in 0 .. Len(executors) /\ (phase # "head" => index < Len(executors))
    /\ dumper \in [Indices -> DumperType]
    /\ \A i \in Indices : i > index \/ ~IsDumper(Cfg(i)) => Untouched(i, dumper[i], s)
    /\ index < Len(executors) => AtIndex(Cfg(index), dumper[index], s)
    /\ StackInv(s)
    /\ ~canceled => \A i \in 0 .. index - 1 :
         i \in faulty \/ loopStack = <<i>> \/ Whole(Cfg(i), i, s)
    /\ \A k \in DOMAIN Pending : Pending[k].from # 0 =>
         \A j \in Pending[k].from .. index - 1 : ~IsOutput(Cfg(j))

\* After the loop.
EndInv ==
    ~canceled => \A i \in Indices \ faulty : Of(written, i) = LinesOf(Cfg(i))

Loop == {"head", "pre", "exec", "after"}

DumpInv ==
    /\ isZip \in BOOLEAN /\ canceled \in BOOLEAN /\ executors \in Pipelines
    /\ sink = "failed" => isZip
    /\ phase \in Loop \cup {"reset", "pack", "finish", "done"}
    /\ sink # "failed" =>
         /\ dumpDatas \in Seq(LineType) /\ written \in Seq(LineType)
         /\ \A k \in DOMAIN All : All[k].from <= Len(executors)
         /\ Ordered(executors, All)
         /\ groupName \in Nat
         /\ IF phase \in Loop THEN LoopInv(All) ELSE EndInv

(***************************************************************************)
(* Lines of a dumper.                                                      *)
(***************************************************************************)
\* The members of LinesOf.
LEMMA LinesAre ==
  ASSUME NEW c \in Configs
  PROVE  /\ \A f, n : <<f, n>> \in LinesOf(c) <=>
              /\ IsDumper(c) /\ f \in 1 .. Len(c.content)
              /\ n \in (IF c.class = "once" THEN 1 ELSE 0) .. c.content[f]
         /\ \A x \in LinesOf(c) : x = <<x[1], x[2]>> /\ x[1] \in Nat /\ x[2] \in Nat
         /\ \A f \in 1 .. Len(c.content) : c.content[f] \in Nat
         /\ Len(c.content) \in Nat
<1>1. Len(c.content) \in Nat /\ \A f \in 1 .. Len(c.content) : c.content[f] \in Nat
  BY DEF Configs
<1>2. \A f, n : <<f, n>> \in LinesOf(c) <=>
              /\ IsDumper(c) /\ f \in 1 .. Len(c.content)
              /\ n \in (IF c.class = "once" THEN 1 ELSE 0) .. c.content[f]
  BY DEF LinesOf
<1>3. \A x \in LinesOf(c) : x = <<x[1], x[2]>> /\ x[1] \in Nat /\ x[2] \in Nat
  BY <1>1 DEF LinesOf
<1>. QED
  BY Zenon, <1>1, <1>2, <1>3

\* The lines before the next one: after a line, after the end of a file, after the
\* last file, and at the start.
LEMMA UnderNext ==
  ASSUME NEW c \in Configs
  PROVE  /\ \A f, n \in Nat : <<f, n>> \in LinesOf(c) =>
              Under(c, <<f, n + 1>>) = Under(c, <<f, n>>) \cup {<<f, n>>}
         /\ \A f \in 1 .. Len(c.content) :
              LineDumper(c) => Under(c, <<f, c.content[f] + 1>>) = Under(c, <<f + 1, 0>>)
         /\ LineDumper(c) => Under(c, <<Len(c.content) + 1, 0>>) = LinesOf(c)
         /\ Under(c, <<1, 0>>) = {}
<1>. USE DEF Under, Earlier
<1>1. ASSUME NEW f \in Nat, NEW n \in Nat, <<f, n>> \in LinesOf(c)
      PROVE  Under(c, <<f, n + 1>>) = Under(c, <<f, n>>) \cup {<<f, n>>}
  BY <1>1, LinesAre
<1>2. ASSUME NEW f \in 1 .. Len(c.content), LineDumper(c)
      PROVE  Under(c, <<f, c.content[f] + 1>>) = Under(c, <<f + 1, 0>>)
  <2>1. ASSUME NEW x \in LinesOf(c)
        PROVE  Earlier(x, <<f, c.content[f] + 1>>) <=> Earlier(x, <<f + 1, 0>>)
    <3>1. /\ x = <<x[1], x[2]>> /\ x[1] \in Nat /\ x[2] \in Nat /\ c.content[f] \in Nat
          /\ x[1] = f => x[2] <= c.content[f]
      BY LinesAre
    <3>. QED
      BY <3>1
  <2>. QED
    BY <2>1
<1>3. LineDumper(c) => Under(c, <<Len(c.content) + 1, 0>>) = LinesOf(c)
  BY LinesAre
<1>4. Under(c, <<1, 0>>) = {}
  BY LinesAre
<1>. QED
  BY <1>1, <1>2, <1>3, <1>4

(***************************************************************************)
(* Sequences of lines.                                                     *)
(***************************************************************************)
\* The elements after an append.
LEMMA Appended ==
  ASSUME NEW s \in Seq(LineType), NEW l \in LineType
  PROVE  /\ Append(s, l) \in Seq(LineType) /\ Len(s) \in Nat /\ DOMAIN s = 1 .. Len(s)
         /\ DOMAIN Append(s, l) = 1 .. Len(s) + 1
         /\ \A k \in 1 .. Len(s) : Append(s, l)[k] = s[k] /\ s[k] \in LineType
         /\ Append(s, l)[Len(s) + 1] = l
<1>1. Len(s) \in Nat /\ DOMAIN s = 1 .. Len(s)
  BY ListFn
<1>2. /\ Append(s, l) \in Seq(LineType) /\ Len(Append(s, l)) = Len(s) + 1
      /\ \A k \in 1 .. Len(s) : Append(s, l)[k] = s[k]
      /\ Append(s, l)[Len(s) + 1] = l
  BY AppendFn
<1>3. DOMAIN Append(s, l) = 1 .. Len(s) + 1
  BY <1>2, ListFn
<1>4. \A k \in 1 .. Len(s) : s[k] \in LineType
  BY EntryIn
<1>. QED
  BY <1>1, <1>2, <1>3, <1>4

\* A line appended to the buffer is appended to all lines.
LEMMA AppendToAll ==
  ASSUME NEW w \in Seq(LineType), NEW d \in Seq(LineType), NEW l \in LineType
  PROVE  w \o Append(d, l) = Append(w \o d, l)
BY AppendJoin, JoinAssoc, JoinFn

\* The lines of an executor after an append.
LEMMA OfAppend ==
  ASSUME NEW s \in Seq(LineType), NEW l \in LineType, NEW i
  PROVE  Of(Append(s, l), i) = IF l.from = i + 1 THEN Of(s, i) \cup {Said(l)} ELSE Of(s, i)
BY Appended DEF Of

\* A line that is the next of its dumper keeps the lines in order.
LEMMA OrderedAppend ==
  ASSUME NEW p, NEW s \in Seq(LineType), NEW l \in LineType, Ordered(p, s),
         l.from # 0 => /\ Said(l) \in LinesOf(p[l.from])
                       /\ \A k \in DOMAIN s : s[k].from <= l.from
                       /\ Of(s, l.from - 1) = Under(p[l.from], Said(l))
  PROVE  Ordered(p, Append(s, l))
<1>. DEFINE t == Append(s, l)
<1>1. /\ Len(s) \in Nat /\ DOMAIN s = 1 .. Len(s) /\ DOMAIN t = 1 .. Len(s) + 1
      /\ \A k \in 1 .. Len(s) : t[k] = s[k] /\ s[k] \in LineType
      /\ t[Len(s) + 1] = l
  BY Appended
<1>. HIDE DEF t
<1>2. ASSUME l.from # 0, NEW k \in 1 .. Len(s), s[k].from = l.from
      PROVE  Earlier(Said(s[k]), Said(l))
  <2>0. s[k].from = (l.from - 1) + 1 /\ k \in DOMAIN s
    BY <1>1, <1>2 DEF LineType
  <2>1. Said(s[k]) \in Of(s, l.from - 1)
    BY Zenon, <2>0 DEF Of
  <2>. QED
    BY <1>2, <2>1 DEF Under
<1>3. ASSUME l.from # 0, NEW m \in LinesOf(p[l.from]), Earlier(m, Said(l))
      PROVE  \E j \in 1 .. Len(s) : s[j].from = l.from /\ Said(s[j]) = m
  <2>1. m \in Of(s, l.from - 1)
    BY <1>3 DEF Under
  <2>. QED
    BY <1>1, <2>1 DEF Of, LineType
<1>4. ASSUME NEW k \in DOMAIN t, t[k].from # 0
      PROVE  /\ Said(t[k]) \in LinesOf(p[t[k].from])
             /\ \A m \in LinesOf(p[t[k].from]) : Earlier(m, Said(t[k])) =>
                    \E j \in 1 .. k - 1 : t[j].from = t[k].from /\ Said(t[j]) = m
  <2>1. CASE k = Len(s) + 1
    BY <1>1, <1>3, <1>4, <2>1
  <2>2. CASE k \in 1 .. Len(s)
    <3>1. t[k] = s[k] /\ \A j \in 1 .. k - 1 : t[j] = s[j]
      BY <1>1, <2>2
    <3>. QED
      BY <1>1, <1>4, <2>2, <3>1 DEF Ordered
  <2>. QED
    BY <1>1, <2>1, <2>2
<1>5. ASSUME NEW j \in DOMAIN t, NEW k \in DOMAIN t, j < k, t[j].from # 0, t[k].from # 0
      PROVE  \/ t[j].from < t[k].from
             \/ t[j].from = t[k].from /\ Earlier(Said(t[j]), Said(t[k]))
  <2>0. j \in 1 .. Len(s) /\ t[j] = s[j] /\ s[j].from \in Nat
    BY SMTT(30), <1>1, <1>5 DEF LineType
  <2>1. CASE k = Len(s) + 1
    <3>1. t[k] = l /\ l.from \in Nat /\ s[j].from <= l.from
      BY <1>1, <1>5, <2>0, <2>1 DEF LineType
    <3>. QED
      BY <1>2, <1>5, <2>0, <3>1
  <2>2. CASE k \in 1 .. Len(s)
    BY <1>1, <1>5, <2>0, <2>2 DEF Ordered
  <2>. QED
    BY <1>1, <2>1, <2>2
<1>6. Ordered(p, t)
  BY <1>4, <1>5 DEF Ordered
<1>. QED
  BY <1>6 DEF t

\* Lines s after which executor i of list p may go on.
UpTo(p, s, i) ==
    /\ s \in Seq(LineType) /\ Ordered(p, s)
    /\ \A k \in DOMAIN s : s[k].from <= i + 1

\* The next line of dumper i.
LEMMA NextLine ==
  ASSUME NEW p \in Seq(Configs), NEW i \in 0 .. Len(p) - 1, NEW s, UpTo(p, s, i),
         NEW f \in Nat, NEW n \in Nat, <<f, n>> \in LinesOf(p[i + 1]),
         Of(s, i) = Under(p[i + 1], <<f, n>>)
  PROVE  /\ Line(i, f, n) \in LineType /\ UpTo(p, Append(s, Line(i, f, n)), i)
         /\ Of(Append(s, Line(i, f, n)), i) = Under(p[i + 1], <<f, n + 1>>)
         /\ \A j \in Nat \ {i} : Of(Append(s, Line(i, f, n)), j) = Of(s, j)
<1>. DEFINE l == Line(i, f, n)
<1>0. Len(p) \in Nat /\ i \in Nat /\ i + 1 \in 1 .. Len(p) /\ p[i + 1] \in Configs /\ (i + 1) - 1 = i
  BY ListFn, EntryIn
<1>1. l \in LineType /\ l.from = i + 1 /\ Said(l) = <<f, n>> /\ l.from # 0
  BY <1>0 DEF Line, LineType, Said
<1>. HIDE DEF l
<1>2. s \in Seq(LineType) /\ Ordered(p, s) /\ \A k \in DOMAIN s : s[k].from <= i + 1
  BY DEF UpTo
<1>3. Ordered(p, Append(s, l))
  BY Zenon, <1>0, <1>1, <1>2, OrderedAppend
<1>4. Append(s, l) \in Seq(LineType) /\ \A k \in DOMAIN Append(s, l) : Append(s, l)[k].from <= i + 1
  BY <1>0, <1>1, <1>2, Appended
<1>5. Of(Append(s, l), i) = Under(p[i + 1], <<f, n + 1>>)
  <2>1. Of(Append(s, l), i) = Of(s, i) \cup {<<f, n>>}
    BY <1>1, <1>2, OfAppend
  <2>2. Under(p[i + 1], <<f, n + 1>>) = Under(p[i + 1], <<f, n>>) \cup {<<f, n>>}
    BY ZenonT(60), <1>0, UnderNext
  <2>. QED
    BY Zenon, <2>1, <2>2
<1>6. \A j \in Nat \ {i} : Of(Append(s, l), j) = Of(s, j)
  BY SMTT(30), <1>0, <1>1, <1>2, OfAppend
<1>. QED
  BY SMTT(30), <1>1, <1>3, <1>4, <1>5, <1>6 DEF l, UpTo

\* The title of a group is of no executor.
LEMMA TitleLine ==
  ASSUME NEW p, NEW s \in Seq(LineType), Ordered(p, s), NEW g \in Nat
  PROVE  /\ GroupTitle(g) \in LineType /\ Append(s, GroupTitle(g)) \in Seq(LineType)
         /\ Ordered(p, Append(s, GroupTitle(g)))
         /\ \A j \in Nat : Of(Append(s, GroupTitle(g)), j) = Of(s, j)
         /\ \A k \in DOMAIN Append(s, GroupTitle(g)) :
              \/ Append(s, GroupTitle(g))[k].from = 0
              \/ k \in DOMAIN s /\ Append(s, GroupTitle(g))[k] = s[k]
<1>. DEFINE l == GroupTitle(g)
<1>1. l \in LineType /\ l.from = 0
  BY DEF GroupTitle, LineType
<1>. HIDE DEF l
<1>2. Ordered(p, Append(s, l))
  BY <1>1, OrderedAppend
<1>3. \A j \in Nat : Of(Append(s, l), j) = Of(s, j)
  BY <1>1, OfAppend
<1>4. /\ Append(s, l) \in Seq(LineType)
      /\ \A k \in DOMAIN Append(s, l) : \/ Append(s, l)[k].from = 0
                                        \/ k \in DOMAIN s /\ Append(s, l)[k] = s[k]
  <2>1. /\ Append(s, l) \in Seq(LineType) /\ Len(s) \in Nat /\ DOMAIN s = 1 .. Len(s)
        /\ DOMAIN Append(s, l) = 1 .. Len(s) + 1
        /\ \A k \in 1 .. Len(s) : Append(s, l)[k] = s[k]
        /\ Append(s, l)[Len(s) + 1] = l
    BY <1>1, Appended
  <2>2. \A k \in 1 .. Len(s) + 1 : k \in 1 .. Len(s) \/ k = Len(s) + 1
    BY <2>1
  <2>. QED
    BY <1>1, <2>1, <2>2
<1>. QED
  BY <1>1, <1>2, <1>3, <1>4 DEF l

\* Lines that say the same are as much in order.
LEMMA SameLines ==
  ASSUME NEW p, NEW s \in Seq(LineType), NEW t \in Seq(LineType), DOMAIN t = DOMAIN s,
         \A k \in DOMAIN s : t[k].from = s[k].from /\ Said(t[k]) = Said(s[k])
  PROVE  /\ \A i : Of(t, i) = Of(s, i)
         /\ Ordered(p, s) => Ordered(p, t)
<1>1. \A i : Of(t, i) = Of(s, i)
  BY DEF Of
<1>2. ASSUME Ordered(p, s) PROVE Ordered(p, t)
  <2>1. DOMAIN s = 1 .. Len(s) /\ Len(s) \in Nat
    BY ListFn
  <2>2. \A k \in DOMAIN s : \A j \in 1 .. k - 1 : j \in DOMAIN s
    BY <2>1
  <2>. QED
    BY <1>2, <2>2 DEF Ordered
<1>. QED
  BY <1>1, <1>2

\* A function on 1 .. n is a sequence of length n.
LEMMA FunctionIsSeq ==
  ASSUME NEW T, NEW n \in Nat, NEW q \in [1 .. n -> T]
  PROVE  q \in Seq(T) /\ Len(q) = n
<1>1. q \in Seq(T)
  BY ListsAre
<1>2. DOMAIN q = 1 .. n /\ DOMAIN q = 1 .. Len(q) /\ Len(q) \in Nat
  BY <1>1, ListFn
<1>. QED
  BY <1>1, <1>2

\* q are the lines of dumper i, which answers at once and has said nothing in s.
IsOnce(p, i, s, q) ==
    /\ p \in Seq(Configs) /\ i \in 0 .. Len(p) - 1 /\ UpTo(p, s, i)
    /\ p[i + 1].class = "once" /\ Len(p[i + 1].content) = 1 /\ Of(s, i) = {}
    /\ q = [n \in 1 .. p[i + 1].content[1] |-> Line(i, 1, n)]

\* All lines of a dumper that answers at once.
LEMMA OnceLines ==
  ASSUME NEW p, NEW i, NEW s, NEW q, IsOnce(p, i, s, q)
  PROVE  /\ q \in Seq(LineType) /\ UpTo(p, s \o q, i)
         /\ Of(s \o q, i) = LinesOf(p[i + 1])
         /\ \A j \in Nat \ {i} : Of(s \o q, j) = Of(s, j)
         /\ \A k \in DOMAIN q : q[k].from = i + 1
<1>. SUFFICES ASSUME p \in Seq(Configs), i \in 0 .. Len(p) - 1, UpTo(p, s, i),
                     p[i + 1].class = "once", Len(p[i + 1].content) = 1, Of(s, i) = {},
                     q = [n \in 1 .. p[i + 1].content[1] |-> Line(i, 1, n)]
              PROVE  /\ q \in Seq(LineType) /\ UpTo(p, s \o q, i)
                     /\ Of(s \o q, i) = LinesOf(p[i + 1])
                     /\ \A j \in Nat \ {i} : Of(s \o q, j) = Of(s, j)
                     /\ \A k \in DOMAIN q : q[k].from = i + 1
  BY Zenon DEF IsOnce
<1>. DEFINE c == p[i + 1]
            t == s \o q
            m == c.content[1]
<1>0. Len(p) \in Nat /\ i \in Nat /\ i + 1 \in 1 .. Len(p) /\ c \in Configs /\ i + 1 # 0
  BY ListFn, EntryIn
<1>1. m \in Nat
  <2>1. \A f \in 1 .. Len(c.content) : c.content[f] \in Nat
    BY Zenon, <1>0, LinesAre
  <2>2. 1 \in 1 .. Len(c.content)
    OBVIOUS
  <2>. QED
    BY <2>1, <2>2
<1>2. /\ s \in Seq(LineType) /\ Ordered(p, s) /\ Len(s) \in Nat /\ DOMAIN s = 1 .. Len(s)
      /\ \A k \in 1 .. Len(s) : s[k].from <= i + 1 /\ s[k] \in LineType
  BY ListFn, EntryIn DEF UpTo
<1>3. \A x : x \in LinesOf(c) <=> \E n \in 1 .. m : x = <<1, n>>
  BY <1>0, <1>1 DEF LinesOf, IsDumper
<1>. HIDE DEF c, m
<1>4. /\ q \in Seq(LineType) /\ Len(q) = m
      /\ \A n \in 1 .. m : q[n].from = i + 1 /\ Said(q[n]) = <<1, n>>
  <2>1. \A n \in 1 .. m : /\ Line(i, 1, n) \in LineType /\ Line(i, 1, n).from = i + 1
                          /\ Said(Line(i, 1, n)) = <<1, n>>
    BY <1>0, <1>1 DEF Line, LineType, Said
  <2>2. q = [n \in 1 .. m |-> Line(i, 1, n)]
    BY DEF c, m
  <2>3. q \in [1 .. m -> LineType]
    BY <2>1, <2>2
  <2>4. q \in Seq(LineType) /\ Len(q) = m
    BY ZenonT(60), <1>1, <2>3, FunctionIsSeq
  <2>. QED
    BY Zenon, <2>1, <2>2, <2>4
<1>5. /\ t \in Seq(LineType) /\ Len(t) = Len(s) + m
      /\ \A k \in 1 .. Len(s) + m : t[k] = IF k <= Len(s) THEN s[k] ELSE q[k - Len(s)]
  <2>0. s \in Seq(LineType) /\ q \in Seq(LineType)
    BY <1>2, <1>4
  <2>1. /\ s \o q \in Seq(LineType) /\ Len(s \o q) = Len(s) + Len(q)
        /\ \A k \in 1 .. Len(s) + Len(q) :
             (s \o q)[k] = IF k <= Len(s) THEN s[k] ELSE q[k - Len(s)]
    BY ZenonT(60), <2>0, JoinFn
  <2>. QED
    BY Zenon, <1>4, <2>1
<1>. HIDE DEF t
<1>6. /\ DOMAIN t = 1 .. Len(s) + m
      /\ \A k \in 1 .. Len(s) : t[k] = s[k]
      /\ \A k \in Len(s) + 1 .. Len(s) + m : /\ t[k].from = i + 1 /\ Said(t[k]) = <<1, k - Len(s)>>
                                            /\ k - Len(s) \in 1 .. m
  <2>1. DOMAIN t = 1 .. Len(s) + m
    BY <1>5, ListFn
  <2>2. \A k \in 1 .. Len(s) : k \in 1 .. Len(s) + m /\ k <= Len(s)
    BY <1>1, <1>2
  <2>3. \A k \in Len(s) + 1 .. Len(s) + m :
          k \in 1 .. Len(s) + m /\ ~(k <= Len(s)) /\ k - Len(s) \in 1 .. m
    BY <1>1, <1>2
  <2>4. \A k \in 1 .. Len(s) : t[k] = s[k]
    BY <1>5, <2>2
  <2>5. \A k \in Len(s) + 1 .. Len(s) + m : t[k] = q[k - Len(s)]
    BY <1>5, <2>3
  <2>6. ASSUME NEW k \in Len(s) + 1 .. Len(s) + m
        PROVE  t[k].from = i + 1 /\ Said(t[k]) = <<1, k - Len(s)>> /\ k - Len(s) \in 1 .. m
    <3>1. t[k] = q[k - Len(s)] /\ k - Len(s) \in 1 .. m
      BY <2>3, <2>5
    <3>2. q[k - Len(s)].from = i + 1 /\ Said(q[k - Len(s)]) = <<1, k - Len(s)>>
      BY Zenon, <1>4, <3>1
    <3>. QED
      BY <3>1, <3>2
  <2>. QED
    BY <2>1, <2>4, <2>6
<1>7. \A k \in DOMAIN t : k \in 1 .. Len(s) \/ k \in Len(s) + 1 .. Len(s) + m
  BY <1>1, <1>2, <1>6
<1>8. \A k \in 1 .. Len(s) : s[k].from # i + 1
  BY <1>2 DEF Of
<1>9. \A n \in 1 .. m : Len(s) + n \in DOMAIN t /\ t[Len(s) + n].from = i + 1 /\ Said(t[Len(s) + n]) = <<1, n>>
  <2>1. \A n \in 1 .. m : Len(s) + n \in Len(s) + 1 .. Len(s) + m /\ (Len(s) + n) - Len(s) = n
    BY <1>1, <1>2
  <2>2. \A k \in Len(s) + 1 .. Len(s) + m : k \in DOMAIN t
    BY <1>1, <1>2, <1>6
  <2>. QED
    BY <1>6, <2>1, <2>2
<1>10. Of(t, i) = LinesOf(c)
  <2>1. ASSUME NEW x \in Of(t, i) PROVE x \in LinesOf(c)
    BY <1>3, <1>6, <1>7, <1>8, <2>1 DEF Of
  <2>2. ASSUME NEW x \in LinesOf(c) PROVE x \in Of(t, i)
    BY <1>3, <1>9, <2>2 DEF Of
  <2>. QED
    BY Zenon, <2>1, <2>2
<1>11. ASSUME NEW j \in Nat \ {i} PROVE Of(t, j) = Of(s, j)
  <2>1. \A k \in Len(s) + 1 .. Len(s) + m : t[k].from # j + 1
    BY <1>0, <1>6
  <2>2. \A k \in 1 .. Len(s) : k \in DOMAIN t
    BY <1>1, <1>2, <1>6
  <2>3. {k \in DOMAIN t : t[k].from = j + 1} = {k \in DOMAIN s : s[k].from = j + 1}
    BY Zenon, <1>2, <1>6, <1>7, <2>1, <2>2
  <2>4. \A k \in DOMAIN s : t[k] = s[k]
    BY Zenon, <1>2, <1>6
  <2>. QED
    BY ZenonT(60), <2>3, <2>4 DEF Of
<1>12. \A k \in DOMAIN t : t[k].from <= i + 1
  BY <1>0, <1>2, <1>6, <1>7
<1>13. ASSUME NEW k \in DOMAIN t, t[k].from # 0
       PROVE  /\ Said(t[k]) \in LinesOf(p[t[k].from])
              /\ \A l \in LinesOf(p[t[k].from]) : Earlier(l, Said(t[k])) =>
                     \E j \in 1 .. k - 1 : t[j].from = t[k].from /\ Said(t[j]) = l
  <2>1. CASE k \in 1 .. Len(s)
    <3>1. t[k] = s[k] /\ \A j \in 1 .. k - 1 : t[j] = s[j]
      BY <1>2, <1>6, <2>1
    <3>. QED
      BY SMTT(30), <1>2, <1>13, <2>1, <3>1 DEF Ordered
  <2>2. CASE k \in Len(s) + 1 .. Len(s) + m
    <3>1. t[k].from = i + 1 /\ Said(t[k]) = <<1, k - Len(s)>> /\ Said(t[k]) \in LinesOf(c)
      BY Zenon, <1>3, <1>6, <2>2
    <3>2. ASSUME NEW l \in LinesOf(c), Earlier(l, Said(t[k]))
          PROVE  \E j \in 1 .. k - 1 : t[j].from = i + 1 /\ Said(t[j]) = l
      <4>1. PICK n \in 1 .. m : l = <<1, n>>
        BY Zenon, <1>3
      <4>2. n < k - Len(s)
        BY <3>1, <3>2, <4>1 DEF Earlier
      <4>3. Len(s) + n \in 1 .. k - 1
        BY <1>2, <2>2, <4>1, <4>2
      <4>. QED
        BY Zenon, <1>9, <4>1, <4>3
    <3>. QED
      BY Zenon, <3>1, <3>2 DEF c
  <2>. QED
    BY Zenon, <1>7, <2>1, <2>2
<1>14. ASSUME NEW j \in DOMAIN t, NEW k \in DOMAIN t, j < k, t[j].from # 0, t[k].from # 0
       PROVE  \/ t[j].from < t[k].from
              \/ t[j].from = t[k].from /\ Earlier(Said(t[j]), Said(t[k]))
  <2>1. CASE k \in 1 .. Len(s)
    <3>1. j \in 1 .. Len(s) /\ t[j] = s[j] /\ t[k] = s[k]
      BY <1>2, <1>6, <1>14, <2>1
    <3>. QED
      BY <1>2, <1>14, <2>1, <3>1 DEF Ordered
  <2>2. CASE k \in Len(s) + 1 .. Len(s) + m /\ j \in 1 .. Len(s)
    <3>1. t[k].from = i + 1 /\ t[j] = s[j] /\ s[j].from \in Nat /\ s[j].from <= i + 1 /\ s[j].from # i + 1
      BY Zenon, <1>2, <1>6, <1>8, <2>2 DEF LineType
    <3>. QED
      BY <1>0, <3>1
  <2>3. CASE k \in Len(s) + 1 .. Len(s) + m /\ j \in Len(s) + 1 .. Len(s) + m
    <3>1. /\ t[k].from = i + 1 /\ Said(t[k]) = <<1, k - Len(s)>>
          /\ t[j].from = i + 1 /\ Said(t[j]) = <<1, j - Len(s)>>
      BY Zenon, <1>6, <2>3
    <3>2. j - Len(s) < k - Len(s)
      BY <1>1, <1>2, <1>14, <2>3
    <3>. QED
      BY <3>1, <3>2 DEF Earlier
  <2>. QED
    BY Zenon, <1>7, <2>1, <2>2, <2>3
<1>15. Ordered(p, t)
  BY Zenon, <1>13, <1>14 DEF Ordered
<1>. QED
  <2>1. \A k \in DOMAIN q : q[k].from = i + 1
    BY Zenon DEF Line
  <2>. QED
    BY Zenon, <1>4, <1>5, <1>10, <1>11, <1>12, <1>15, <2>1 DEF UpTo, t, c

(***************************************************************************)
(* The invariant.                                                          *)
(***************************************************************************)
\* The shape of a list.
LEMMA ListShape ==
  ASSUME NEW p \in Pipelines
  PROVE  /\ p \in Seq(Configs) /\ Len(p) \in Nat /\ Len(p) < SIZE_LIMIT /\ SIZE_LIMIT \in Nat
         /\ \A i \in 0 .. Len(p) - 1 :
              /\ i \in Nat /\ i + 1 \in 1 .. Len(p) /\ p[i + 1] \in Configs
              /\ p[i + 1].class \in {"cmd", "once"} => Len(p[i + 1].content) = 1
              /\ IsDumper(p[i + 1]) => \E j \in i + 1 .. Len(p) - 1 : IsOutput(p[j + 1])
              /\ IsDumper(p[i + 1]) /\ p[i + 1].loop =>
                    \A j \in i + 1 .. Len(p) - 1 :
                        IsDumper(p[j + 1]) => \E b \in i + 1 .. j - 1 : Boundary(p[b + 1])
<1>1. p \in Seq(Configs) /\ Len(p) \in Nat /\ Len(p) < SIZE_LIMIT /\ SIZE_LIMIT \in Nat
  BY PipelineAssumption DEF PipelineAssumption
<1>2. ASSUME NEW i \in 0 .. Len(p) - 1
      PROVE  /\ i \in Nat /\ i + 1 \in 1 .. Len(p) /\ p[i + 1] \in Configs
             /\ p[i + 1].class \in {"cmd", "once"} => Len(p[i + 1].content) = 1
  BY <1>1, PipelineAssumption, EntryIn DEF PipelineAssumption
<1>3. ASSUME NEW i \in 0 .. Len(p) - 1, IsDumper(p[i + 1])
      PROVE  \E j \in i + 1 .. Len(p) - 1 : IsOutput(p[j + 1])
  <2>1. PICK k \in (i + 1) + 1 .. Len(p) : IsOutput(p[k])
    BY <1>1, <1>3, PipelineAssumption DEF PipelineAssumption
  <2>2. k - 1 \in i + 1 .. Len(p) - 1 /\ (k - 1) + 1 = k
    BY <1>1, <2>1
  <2>. QED
    BY Zenon, <2>1, <2>2
<1>4. ASSUME NEW i \in 0 .. Len(p) - 1, IsDumper(p[i + 1]), p[i + 1].loop,
             NEW j \in i + 1 .. Len(p) - 1, IsDumper(p[j + 1])
      PROVE  \E b \in i + 1 .. j - 1 : Boundary(p[b + 1])
  <2>0. i + 1 \in 1 .. Len(p) /\ j + 1 \in (i + 1) + 1 .. Len(p)
    BY <1>1, <1>4
  <2>1. PICK k \in (i + 1) + 1 .. (j + 1) - 1 : Boundary(p[k])
    BY Zenon, <1>4, <2>0, PipelineAssumption DEF PipelineAssumption
  <2>2. k - 1 \in i + 1 .. j - 1 /\ (k - 1) + 1 = k
    BY <1>1, <2>1
  <2>. QED
    BY Zenon, <2>1, <2>2
<1>. QED
  BY Zenon, <1>1, <1>2, <1>3, <1>4

\* The loop variable goes up by one, and the way back ends at the dumper it is
\* for, also when that is the first executor and the variable wraps.
LEMMA Wraps ==
  ASSUME NEW i \in 0 .. SIZE_LIMIT - 2
  PROVE  /\ NextIndex(i) = i + 1
         /\ NextIndex((i + SIZE_LIMIT - 1) % SIZE_LIMIT) = i
<1>1. SIZE_LIMIT \in Nat \ {0}
  BY Zenon, PipelineAssumption DEF PipelineAssumption
<1>2. \A x \in 0 .. SIZE_LIMIT - 1 : x % SIZE_LIMIT = x
  BY <1>1
<1>3. SIZE_LIMIT % SIZE_LIMIT = 0
  BY <1>1
<1>4. \A x \in 0 .. SIZE_LIMIT - 1 : (x + SIZE_LIMIT) % SIZE_LIMIT = x
  BY <1>1
<1>5. CASE i = 0
  BY <1>1, <1>2, <1>3, <1>5 DEF NextIndex
<1>6. CASE i # 0
  <2>1. i - 1 \in 0 .. SIZE_LIMIT - 1 /\ i + SIZE_LIMIT - 1 = (i - 1) + SIZE_LIMIT /\ (i - 1) + 1 = i
    BY <1>1, <1>6
  <2>. QED
    BY <1>1, <1>2, <1>4, <2>1 DEF NextIndex
<1>. QED
  BY Zenon, <1>5, <1>6

\* No executor has begun at the start.
LEMMA DumpInit == Init => DumpInv
<1>. SUFFICES ASSUME Init PROVE DumpInv
  BY Zenon
<1>1. /\ executors \in Pipelines /\ isZip \in BOOLEAN /\ phase = "head" /\ index = 0
      /\ loopStack = <<>> /\ groupName = 0 /\ dumpDatas = <<>> /\ written = <<>>
      /\ dumper = [i \in Indices |-> Fresh] /\ sink = "unset" /\ canceled = FALSE /\ faulty = {}
  BY Zenon DEF Init
<1>2. Len(executors) \in Nat
  BY Zenon, <1>1, ListShape
<1>3. Pending = <<>> /\ <<>> \in Seq(LineType) /\ All = <<>>
  BY <1>1 DEF Pending, All
<1>4. Ordered(executors, <<>>) /\ \A i : Of(<<>>, i) = {}
  BY DEF Ordered, Of
<1>5. Fresh \in DumperType
  BY DEF Fresh, DumperType
<1>6. \A i \in Indices : Untouched(i, dumper[i], All)
  BY Zenon, <1>1, <1>3, <1>4 DEF Untouched
<1>7. LoopInv(All)
  BY <1>1, <1>2, <1>3, <1>5, <1>6 DEF LoopInv, StackInv, AtIndex, Indices
<1>8. \A k \in DOMAIN All : All[k].from <= Len(executors)
  BY <1>3
<1>9. Ordered(executors, All) /\ dumpDatas \in Seq(LineType) /\ written \in Seq(LineType) /\ groupName \in Nat
  BY Zenon, <1>1, <1>3, <1>4
<1>. QED
  BY Zenon, <1>1, <1>7, <1>8, <1>9 DEF DumpInv, Loop

\* What is known of the executor at index, in the loop.
LEMMA Current ==
  ASSUME DumpInv, sink # "failed", phase \in Loop
  PROVE  /\ executors \in Seq(Configs) /\ Len(executors) \in Nat /\ index \in 0 .. Len(executors)
         /\ LoopInv(All) /\ Ordered(executors, All)
         /\ written \in Seq(LineType) /\ dumpDatas \in Seq(LineType) /\ Pending \in Seq(LineType)
         /\ All \in Seq(LineType)
         /\ index < Len(executors) =>
              /\ index \in Indices /\ index \in Nat /\ Cfg(index) \in Configs
              /\ dumper[index] \in DumperType /\ AtIndex(Cfg(index), dumper[index], All)
              /\ UpTo(executors, All, index)
<1>1. /\ executors \in Seq(Configs) /\ Len(executors) \in Nat /\ index \in 0 .. Len(executors)
      /\ LoopInv(All) /\ Ordered(executors, All)
      /\ written \in Seq(LineType) /\ dumpDatas \in Seq(LineType)
  BY Zenon, ListShape DEF DumpInv, LoopInv
<1>2. Pending \in Seq(LineType)
  BY Zenon, <1>1, EmptyList DEF Pending
<1>3. All \in Seq(LineType)
  BY Zenon, <1>1, <1>2, JoinFn DEF All
<1>4. ASSUME index < Len(executors)
      PROVE  /\ index \in Indices /\ index \in Nat /\ Cfg(index) \in Configs
             /\ dumper[index] \in DumperType /\ AtIndex(Cfg(index), dumper[index], All)
             /\ UpTo(executors, All, index)
  <2>1. index \in Indices /\ index \in Nat /\ Cfg(index) \in Configs /\ dumper[index] \in DumperType
    <3>1. index \in Indices /\ index \in Nat /\ index + 1 \in 1 .. Len(executors)
      BY <1>1, <1>4 DEF Indices
    <3>2. Cfg(index) \in Configs
      BY Zenon, <1>1, <3>1, EntryIn DEF Cfg
    <3>3. dumper \in [Indices -> DumperType]
      BY Zenon, <1>1 DEF LoopInv
    <3>. QED
      BY Zenon, <3>1, <3>2, <3>3
  <2>2. AtIndex(Cfg(index), dumper[index], All)
    BY Zenon, <1>1, <1>4 DEF LoopInv
  <2>3. ASSUME NEW k \in DOMAIN All PROVE All[k].from <= index + 1
    <3>1. All[k] \in LineType /\ All[k].from <= Len(executors)
      BY Zenon, <1>3, EntryIn, ListFn DEF DumpInv
    <3>2. CASE All[k].from > index + 1
      <4>1. All[k].from - 1 \in Indices /\ All[k].from - 1 > index /\ (All[k].from - 1) + 1 = All[k].from
        BY <1>1, <3>1, <3>2 DEF Indices, LineType
      <4>2. Of(All, All[k].from - 1) = {}
        BY Zenon, <1>1, <4>1 DEF LoopInv, Untouched
      <4>3. Said(All[k]) \in Of(All, All[k].from - 1)
        BY Zenon, <4>1 DEF Of
      <4>. QED
        BY Zenon, <4>2, <4>3
    <3>. QED
      BY <1>1, <3>1, <3>2 DEF LineType
  <2>. QED
    BY Zenon, <1>1, <1>3, <2>1, <2>2, <2>3 DEF UpTo
<1>. QED
  BY Zenon, <1>1, <1>2, <1>3, <1>4

\* What a step of the executor at index does to the lines and the members: only its
\* own lines and titles are added, and only its own members change.
Grown ==
    /\ executors' = executors /\ canceled' = canceled /\ isZip' = isZip
    /\ faulty \subseteq faulty' /\ sink' # "failed" /\ groupName' \in Nat
    /\ dumpDatas' \in Seq(LineType) /\ written' \in Seq(LineType)
    /\ dumper' \in [Indices -> DumperType] /\ \A j \in Indices \ {index} : dumper'[j] = dumper[j]
    /\ UpTo(executors, All', index)
    /\ \A j \in Nat \ {index} : Of(All', j) = Of(All, j)
    /\ ~IsDumper(Cfg(index)) => Untouched(index, dumper'[index], All')
    /\ \A k \in DOMAIN Pending' :
         \/ Pending'[k].from \in {0, index + 1}
         \/ \E m \in DOMAIN Pending : Pending[m].from = Pending'[k].from

\* What such a step keeps, wherever it goes.
LEMMA GrownKeeps ==
  ASSUME DumpInv, sink # "failed", phase \in Loop, index < Len(executors), Grown
  PROVE  /\ Indices' = Indices /\ (\A i : Cfg(i)' = Cfg(i))
         /\ \A k \in DOMAIN All' : All'[k].from <= Len(executors)
         /\ Ordered(executors, All')
         /\ \A i \in Indices : i > index \/ ~IsDumper(Cfg(i)) => Untouched(i, dumper'[i], All')
         /\ \A t \in Indices \ {index} :
              /\ Looping(Cfg(t), t, dumper[t], All) => Looping(Cfg(t), t, dumper'[t], All')
              /\ Whole(Cfg(t), t, All) => Whole(Cfg(t), t, All')
         /\ \A k \in DOMAIN Pending' : Pending'[k].from # 0 =>
              \A j \in Pending'[k].from .. index - 1 : ~IsOutput(Cfg(j))
<1>1. /\ Len(executors) \in Nat /\ index \in 0 .. Len(executors) /\ LoopInv(All)
      /\ index \in Indices /\ index \in Nat
  BY Zenon, Current
<1>2. \A i \in Indices : i \in Nat
  BY <1>1 DEF Indices
<1>3. Indices' = Indices /\ (\A i : Cfg(i)' = Cfg(i))
  BY ZenonT(60) DEF Grown, Indices, Cfg
<1>4. Ordered(executors, All') /\ \A k \in DOMAIN All' : All'[k].from <= Len(executors)
  <2>1. /\ All' \in Seq(LineType) /\ Ordered(executors, All')
        /\ \A k \in DOMAIN All' : All'[k].from <= index + 1
    BY Zenon DEF Grown, UpTo
  <2>2. ASSUME NEW k \in DOMAIN All' PROVE All'[k].from \in Nat
    <3>1. All'[k] \in LineType
      BY Zenon, <2>1, EntryIn, ListFn
    <3>. QED
      BY Zenon, <3>1 DEF LineType
  <2>3. index + 1 <= Len(executors) /\ index + 1 \in Nat /\ Len(executors) \in Nat
    BY <1>1
  <2>4. ASSUME NEW k \in DOMAIN All' PROVE All'[k].from <= Len(executors)
    <3>1. All'[k].from \in Nat /\ All'[k].from <= index + 1
      BY Zenon, <2>1, <2>2
    <3>. QED
      BY <2>3, <3>1
  <2>. QED
    BY Zenon, <2>1, <2>4
<1>5. ASSUME NEW i \in Indices, i > index \/ ~IsDumper(Cfg(i)) PROVE Untouched(i, dumper'[i], All')
  <2>1. CASE i = index
    BY <1>1, <1>5, <2>1 DEF Grown
  <2>2. CASE i # index
    BY ZenonT(60), <1>1, <1>2, <1>5, <2>2 DEF Grown, LoopInv, Untouched
  <2>. QED
    BY Zenon, <2>1, <2>2
<1>6. ASSUME NEW t \in Indices \ {index}
      PROVE  /\ Looping(Cfg(t), t, dumper[t], All) => Looping(Cfg(t), t, dumper'[t], All')
             /\ Whole(Cfg(t), t, All) => Whole(Cfg(t), t, All')
  <2>1. dumper'[t] = dumper[t] /\ Of(All', t) = Of(All, t)
    BY Zenon, <1>2 DEF Grown
  <2>. QED
    BY Zenon, <2>1 DEF Looping, Reading, Whole
<1>7. ASSUME NEW k \in DOMAIN Pending', Pending'[k].from # 0, NEW j \in Pending'[k].from .. index - 1
      PROVE  ~IsOutput(Cfg(j))
  <2>1. CASE Pending'[k].from = index + 1
    BY <1>1, <1>7, <2>1
  <2>2. CASE \E m \in DOMAIN Pending : Pending[m].from = Pending'[k].from
    BY Zenon, <1>1, <1>7, <2>2 DEF LoopInv
  <2>. QED
    BY Zenon, <1>7, <2>1, <2>2 DEF Grown
<1>. QED
  BY Zenon, <1>3, <1>4, <1>5, <1>6, <1>7

\* A step that stays with the executor.
LEMMA Stays ==
  ASSUME DumpInv, sink # "failed", phase \in Loop, index < Len(executors), Grown,
         index' = index, loopStack' = loopStack, phase' \in {"pre", "exec", "after"},
         AtIndex(Cfg(index), dumper[index], All)'
  PROVE  DumpInv'
<1>1. /\ Len(executors) \in Nat /\ index \in 0 .. Len(executors) /\ LoopInv(All)
      /\ index \in Indices /\ index \in Nat
  BY Zenon, Current
<1>2. /\ Indices' = Indices /\ (\A i : Cfg(i)' = Cfg(i))
      /\ \A k \in DOMAIN All' : All'[k].from <= Len(executors)
      /\ Ordered(executors, All')
      /\ \A i \in Indices : i > index \/ ~IsDumper(Cfg(i)) => Untouched(i, dumper'[i], All')
      /\ \A t \in Indices \ {index} :
           /\ Looping(Cfg(t), t, dumper[t], All) => Looping(Cfg(t), t, dumper'[t], All')
           /\ Whole(Cfg(t), t, All) => Whole(Cfg(t), t, All')
      /\ \A k \in DOMAIN Pending' : Pending'[k].from # 0 =>
           \A j \in Pending'[k].from .. index - 1 : ~IsOutput(Cfg(j))
  BY Zenon, GrownKeeps
<1>3. StackInv(All)'
  <2>1. CASE loopStack = <<>>
    BY Zenon, <2>1 DEF StackInv
  <2>2. ASSUME NEW t \in 0 .. index - 1, loopStack = <<t>>, t < Len(executors),
               Looping(Cfg(t), t, dumper[t], All), \A b \in t + 1 .. index - 1 : ~Boundary(Cfg(b))
        PROVE  StackInv(All)'
    <3>1. t \in Indices \ {index}
      BY <1>1, <2>2 DEF Indices
    <3>. QED
      BY Zenon, <1>2, <2>2, <3>1 DEF StackInv, Grown
  <2>. QED
    BY Zenon, <1>1, <2>1, <2>2 DEF LoopInv, StackInv
<1>4. ASSUME ~canceled, NEW i \in 0 .. index - 1
      PROVE  i \in faulty' \/ loopStack' = <<i>> \/ Whole(Cfg(i), i, All')
  <2>1. i \in Indices \ {index}
    BY <1>1 DEF Indices
  <2>. QED
    BY Zenon, <1>1, <1>2, <1>4, <2>1 DEF LoopInv, Grown
<1>5. LoopInv(All)'
  BY Zenon, <1>1, <1>2, <1>3, <1>4 DEF LoopInv, Grown
<1>. QED
  BY Zenon, <1>2, <1>5 DEF DumpInv, Grown, Loop

\* Between the dumper that loops and index there is neither a boundary nor another
\* dumper.
LEMMA StackTop ==
  ASSUME DumpInv, sink # "failed", phase \in Loop, index < Len(executors), loopStack # <<>>
  PROVE  \E t \in 0 .. index - 1 :
            /\ loopStack = <<t>> /\ t \in Indices /\ Looping(Cfg(t), t, dumper[t], All)
            /\ \A b \in t + 1 .. index - 1 : ~Boundary(Cfg(b))
            /\ \A j \in t + 1 .. index : ~IsDumper(Cfg(j))
<1>1. /\ Len(executors) \in Nat /\ index \in 0 .. Len(executors) /\ StackInv(All) /\ executors \in Pipelines
  BY Zenon, Current DEF LoopInv, DumpInv
<1>2. PICK t \in 0 .. index - 1 :
            /\ loopStack = <<t>> /\ t < Len(executors) /\ Looping(Cfg(t), t, dumper[t], All)
            /\ \A b \in t + 1 .. index - 1 : ~Boundary(Cfg(b))
  BY Zenon, <1>1 DEF StackInv
<1>3. t \in Indices /\ t \in 0 .. Len(executors) - 1
  BY <1>1, <1>2 DEF Indices
<1>4. IsDumper(executors[t + 1]) /\ executors[t + 1].loop
  BY Zenon, <1>2 DEF Looping, Reading, IsDumper, Cfg
<1>5. ASSUME NEW j \in t + 1 .. index, IsDumper(Cfg(j)) PROVE FALSE
  <2>1. j \in t + 1 .. Len(executors) - 1
    BY <1>1, <1>2
  <2>2. PICK b \in t + 1 .. j - 1 : Boundary(executors[b + 1])
    BY Zenon, <1>1, <1>3, <1>4, <1>5, <2>1, ListShape DEF Cfg
  <2>3. b \in t + 1 .. index - 1
    BY <1>1, <1>2, <2>2
  <2>. QED
    BY Zenon, <1>2, <2>2, <2>3 DEF Cfg
<1>. QED
  BY Zenon, <1>2, <1>3, <1>5

\* A step that goes on with the next executor: the one at index failed, has said
\* all, or is the one to come back to.
LEMMA Advances ==
  ASSUME DumpInv, sink # "failed", phase \in Loop, index < Len(executors), Grown,
         index' = index + 1, phase' = "head",
         IsOutput(Cfg(index)) => Pending' = <<>>,
         \/ /\ loopStack' = loopStack /\ (loopStack = <<>> \/ ~Boundary(Cfg(index)))
            /\ index \in faulty' \/ canceled \/ Whole(Cfg(index), index, All')
         \/ /\ loopStack' = <<index>> /\ Looping(Cfg(index), index, dumper'[index], All')
            /\ loopStack = <<>>
  PROVE  DumpInv'
<1>1. /\ Len(executors) \in Nat /\ index \in 0 .. Len(executors) /\ LoopInv(All)
      /\ index \in Indices /\ index \in Nat
  BY Zenon, Current
<1>2. /\ Indices' = Indices /\ (\A i : Cfg(i)' = Cfg(i))
      /\ \A k \in DOMAIN All' : All'[k].from <= Len(executors)
      /\ Ordered(executors, All')
      /\ \A i \in Indices : i > index \/ ~IsDumper(Cfg(i)) => Untouched(i, dumper'[i], All')
      /\ \A t \in Indices \ {index} :
           /\ Looping(Cfg(t), t, dumper[t], All) => Looping(Cfg(t), t, dumper'[t], All')
           /\ Whole(Cfg(t), t, All) => Whole(Cfg(t), t, All')
      /\ \A k \in DOMAIN Pending' : Pending'[k].from # 0 =>
           \A j \in Pending'[k].from .. index - 1 : ~IsOutput(Cfg(j))
  BY Zenon, GrownKeeps
<1>3. StackInv(All)'
  <2>1. CASE loopStack' = <<>>
    BY Zenon, <2>1 DEF StackInv
  <2>2. CASE loopStack' = <<index>> /\ Looping(Cfg(index), index, dumper'[index], All')
    <3>1. index \in 0 .. index' - 1 /\ \A b : b \notin index + 1 .. index' - 1
      BY <1>1
    <3>2. Looping(executors'[index + 1], index, dumper'[index], All') /\ index < Len(executors')
      BY Zenon, <2>2 DEF Grown, Cfg
    <3>3. \E t \in 0 .. index' - 1 :
             /\ loopStack' = <<t>> /\ t < Len(executors')
             /\ Looping(executors'[t + 1], t, dumper'[t], All')
             /\ \A b \in t + 1 .. index' - 1 : ~Boundary(executors'[b + 1])
      BY Zenon, <2>2, <3>1, <3>2
    <3>. QED
      BY Zenon, <3>3 DEF StackInv, Cfg
  <2>3. CASE loopStack' = loopStack /\ ~Boundary(Cfg(index)) /\ loopStack # <<>>
    <3>1. PICK t \in 0 .. index - 1 :
            /\ loopStack = <<t>> /\ t \in Indices /\ Looping(Cfg(t), t, dumper[t], All)
            /\ \A b \in t + 1 .. index - 1 : ~Boundary(Cfg(b))
      BY Zenon, <2>3, StackTop
    <3>2. t \in Indices \ {index} /\ t \in 0 .. index' - 1 /\ t < Len(executors)
      BY <1>1, <3>1 DEF Indices
    <3>3. \A b \in t + 1 .. index' - 1 : b \in t + 1 .. index - 1 \/ b = index
      BY <1>1, <3>1
    <3>. QED
      BY ZenonT(60), <1>2, <2>3, <3>1, <3>2, <3>3 DEF StackInv, Grown
  <2>. QED
    BY Zenon, <2>1, <2>2, <2>3
<1>4. ASSUME ~canceled, NEW i \in 0 .. index' - 1
      PROVE  i \in faulty' \/ loopStack' = <<i>> \/ Whole(Cfg(i), i, All')
  <2>1. CASE i = index
    BY Zenon, <1>4, <2>1
  <2>2. CASE i # index
    <3>1. i \in Indices \ {index} /\ i \in 0 .. index - 1
      BY <1>1, <2>2 DEF Indices
    <3>2. i \in faulty' \/ loopStack = <<i>> \/ Whole(Cfg(i), i, All')
      BY Zenon, <1>1, <1>2, <1>4, <3>1 DEF LoopInv, Grown
    <3>. QED
      BY <3>2
  <2>. QED
    BY Zenon, <2>1, <2>2
<1>5. index' \in 0 .. Len(executors) /\ \A i \in Indices : i > index' => i > index
  BY <1>1 DEF Indices
<1>6. index' < Len(executors) => AtIndex(Cfg(index), dumper[index], All)'
  <2>1. ASSUME index' < Len(executors) PROVE Untouched(index', dumper'[index'], All')
    <3>1. index' \in Indices /\ index' > index
      BY <1>1, <2>1 DEF Indices
    <3>. QED
      BY Zenon, <1>2, <3>1
  <2>. QED
    BY Zenon, <2>1 DEF AtIndex
<1>7. ASSUME NEW k \in DOMAIN Pending', Pending'[k].from # 0, NEW j \in Pending'[k].from .. index' - 1
      PROVE  ~IsOutput(Cfg(j))
  <2>1. CASE j = index
    BY <1>7, <2>1
  <2>2. CASE j # index
    <3>1. Pending'[k].from \in Nat
      <4>1. dumpDatas' \in Seq(LineType) /\ Pending' \in Seq(LineType)
        BY Zenon, EmptyList DEF Grown, Pending
      <4>2. Pending'[k] \in LineType
        BY Zenon, <1>7, <4>1, EntryIn, ListFn
      <4>. QED
        BY Zenon, <4>2 DEF LineType
    <3>2. j \in Pending'[k].from .. index - 1
      BY <1>1, <1>7, <2>2, <3>1
    <3>. QED
      BY Zenon, <1>2, <1>7, <3>2
  <2>. QED
    BY Zenon, <2>1, <2>2
<1>8. LoopInv(All)'
  BY Zenon, <1>1, <1>2, <1>3, <1>4, <1>5, <1>6, <1>7 DEF LoopInv, Grown
<1>. QED
  BY Zenon, <1>2, <1>8 DEF DumpInv, Grown, Loop

\* A boundary that goes back to the dumper that loops.
LEMMA Returns ==
  ASSUME DumpInv, sink # "failed", phase \in Loop, index < Len(executors), Grown,
         Boundary(Cfg(index)), loopStack = <<index'>>, loopStack' = <<>>, phase' = "head"
  PROVE  DumpInv'
<1>1. /\ Len(executors) \in Nat /\ index \in 0 .. Len(executors) /\ LoopInv(All)
      /\ index \in Indices /\ index \in Nat
  BY Zenon, Current
<1>2. /\ Indices' = Indices /\ (\A i : Cfg(i)' = Cfg(i))
      /\ \A k \in DOMAIN All' : All'[k].from <= Len(executors)
      /\ Ordered(executors, All')
      /\ \A i \in Indices : i > index \/ ~IsDumper(Cfg(i)) => Untouched(i, dumper'[i], All')
      /\ \A t \in Indices \ {index} :
           /\ Looping(Cfg(t), t, dumper[t], All) => Looping(Cfg(t), t, dumper'[t], All')
           /\ Whole(Cfg(t), t, All) => Whole(Cfg(t), t, All')
      /\ \A k \in DOMAIN Pending' : Pending'[k].from # 0 =>
           \A j \in Pending'[k].from .. index - 1 : ~IsOutput(Cfg(j))
  BY Zenon, GrownKeeps
<1>3. PICK t \in 0 .. index - 1 :
            /\ loopStack = <<t>> /\ t \in Indices /\ Looping(Cfg(t), t, dumper[t], All)
            /\ \A j \in t + 1 .. index : ~IsDumper(Cfg(j))
  BY Zenon, StackTop
<1>4. index' = t /\ t \in Indices \ {index} /\ t \in 0 .. Len(executors) /\ t < Len(executors) /\ t < index
  BY <1>1, <1>3 DEF Indices
<1>5. ASSUME NEW i \in Indices, i > t \/ ~IsDumper(Cfg(i)) PROVE Untouched(i, dumper'[i], All')
  <2>1. i > index \/ i \in t + 1 .. index \/ ~IsDumper(Cfg(i))
    BY <1>1, <1>3, <1>5 DEF Indices
  <2>. QED
    BY Zenon, <1>2, <1>3, <2>1
<1>6. AtIndex(Cfg(index), dumper[index], All)'
  <2>1. Looping(executors'[t + 1], t, dumper'[t], All')
    BY Zenon, <1>2, <1>3, <1>4 DEF Grown, Cfg
  <2>. QED
    BY Zenon, <1>4, <2>1 DEF AtIndex, Cfg
<1>7. ASSUME ~canceled, NEW i \in 0 .. t - 1 PROVE i \in faulty' \/ Whole(Cfg(i), i, All')
  <2>1. i \in Indices \ {index} /\ i \in 0 .. index - 1 /\ i # t
    BY <1>1, <1>3, <1>4 DEF Indices
  <2>2. loopStack # <<i>>
    BY <1>3, <2>1
  <2>. QED
    BY Zenon, <1>1, <1>2, <1>7, <2>1, <2>2 DEF LoopInv, Grown
<1>8. ASSUME NEW k \in DOMAIN Pending', Pending'[k].from # 0, NEW j \in Pending'[k].from .. t - 1
      PROVE  ~IsOutput(Cfg(j))
  <2>1. j \in Pending'[k].from .. index - 1
    BY <1>1, <1>4, <1>8
  <2>. QED
    BY Zenon, <1>2, <1>8, <2>1
<1>9. StackInv(All)'
  BY Zenon DEF StackInv
<1>10. LoopInv(All)'
  BY Zenon, <1>2, <1>4, <1>5, <1>6, <1>7, <1>8, <1>9 DEF LoopInv, Grown
<1>. QED
  BY Zenon, <1>2, <1>10 DEF DumpInv, Grown, Loop

\* Buffer e is buffer d and more lines of executor i, with the lines w written.
Adds(p, i, w, d, e) ==
    /\ e \in Seq(LineType) /\ UpTo(p, w \o e, i)
    /\ \A j \in Nat \ {i} : Of(w \o e, j) = Of(w \o d, j)
    /\ \A k \in DOMAIN e : \/ e[k].from \in {0, i + 1}
                           \/ \E m \in DOMAIN d : d[m].from = e[k].from

\* No line, and lines in two steps.
LEMMA AddsMore ==
  ASSUME NEW p, NEW i, NEW w, NEW d \in Seq(LineType)
  PROVE  /\ UpTo(p, w \o d, i) => Adds(p, i, w, d, d)
         /\ \A e, g : Adds(p, i, w, d, e) /\ Adds(p, i, w, e, g) => Adds(p, i, w, d, g)
<1>1. UpTo(p, w \o d, i) => Adds(p, i, w, d, d)
  BY Zenon DEF Adds
<1>2. ASSUME NEW e, NEW g, Adds(p, i, w, d, e), Adds(p, i, w, e, g) PROVE Adds(p, i, w, d, g)
  <2>1. \A j \in Nat \ {i} : Of(w \o g, j) = Of(w \o d, j)
    BY Zenon, <1>2 DEF Adds
  <2>2. \A k \in DOMAIN g : \/ g[k].from \in {0, i + 1}
                           \/ \E m \in DOMAIN d : d[m].from = g[k].from
    BY ZenonT(60), <1>2 DEF Adds
  <2>. QED
    BY Zenon, <1>2, <2>1, <2>2 DEF Adds
<1>. QED
  BY Zenon, <1>1, <1>2

\* One line.
LEMMA AddsLine ==
  ASSUME NEW p \in Seq(Configs), NEW i \in 0 .. Len(p) - 1,
         NEW w \in Seq(LineType), NEW d \in Seq(LineType), UpTo(p, w \o d, i),
         NEW f \in Nat, NEW n \in Nat, <<f, n>> \in LinesOf(p[i + 1]),
         Of(w \o d, i) = Under(p[i + 1], <<f, n>>)
  PROVE  /\ Adds(p, i, w, d, Append(d, Line(i, f, n)))
         /\ Of(w \o Append(d, Line(i, f, n)), i) = Under(p[i + 1], <<f, n + 1>>)
<1>. DEFINE l == Line(i, f, n)
<1>1. /\ l \in LineType /\ UpTo(p, Append(w \o d, l), i)
      /\ Of(Append(w \o d, l), i) = Under(p[i + 1], <<f, n + 1>>)
      /\ \A j \in Nat \ {i} : Of(Append(w \o d, l), j) = Of(w \o d, j)
  BY NextLine
<1>2. l.from = i + 1
  BY Zenon DEF Line
<1>. HIDE DEF l
<1>3. w \o Append(d, l) = Append(w \o d, l)
  BY Zenon, <1>1, AppendToAll
<1>4. /\ Append(d, l) \in Seq(LineType)
      /\ \A k \in DOMAIN Append(d, l) :
            Append(d, l)[k].from = i + 1 \/ \E m \in DOMAIN d : d[m].from = Append(d, l)[k].from
  <2>1. /\ Append(d, l) \in Seq(LineType) /\ Len(d) \in Nat /\ DOMAIN d = 1 .. Len(d)
        /\ DOMAIN Append(d, l) = 1 .. Len(d) + 1
        /\ \A k \in 1 .. Len(d) : Append(d, l)[k] = d[k]
        /\ Append(d, l)[Len(d) + 1] = l
    BY ZenonT(60), <1>1, Appended
  <2>2. \A k \in 1 .. Len(d) + 1 : k \in 1 .. Len(d) \/ k = Len(d) + 1
    BY <2>1
  <2>. QED
    BY Zenon, <1>2, <2>1, <2>2
<1>5. Adds(p, i, w, d, Append(d, l))
  BY Zenon, <1>1, <1>3, <1>4 DEF Adds
<1>. QED
  BY Zenon, <1>1, <1>3, <1>5 DEF l

\* The same, with its hypotheses in one: <<f, n>> is the next line of executor i.
IsNext(p, i, w, d, f, n) ==
    /\ p \in Seq(Configs) /\ i \in 0 .. Len(p) - 1 /\ w \in Seq(LineType) /\ d \in Seq(LineType)
    /\ UpTo(p, w \o d, i) /\ f \in Nat /\ n \in Nat /\ <<f, n>> \in LinesOf(p[i + 1])
    /\ Of(w \o d, i) = Under(p[i + 1], <<f, n>>)

LEMMA AddsNext ==
  ASSUME NEW p, NEW i, NEW w, NEW d, NEW f, NEW n, IsNext(p, i, w, d, f, n)
  PROVE  /\ Adds(p, i, w, d, Append(d, Line(i, f, n)))
         /\ Of(w \o Append(d, Line(i, f, n)), i) = Under(p[i + 1], <<f, n + 1>>)
BY AddsLine DEF IsNext

\* What every step of an executor leaves alone.
Kept ==
    /\ executors' = executors /\ canceled' = canceled /\ isZip' = isZip
    /\ faulty \subseteq faulty' /\ sink' # "failed" /\ groupName' \in Nat
    /\ dumper' \in [Indices -> DumperType] /\ \A j \in Indices \ {index} : dumper'[j] = dumper[j]

\* A step that adds lines to the buffer.
LEMMA AddsGrown ==
  ASSUME written \in Seq(LineType), Kept, Pending = dumpDatas, Pending' = dumpDatas', written' = written,
         Adds(executors, index, written, dumpDatas, dumpDatas'),
         ~IsDumper(Cfg(index)) => Untouched(index, dumper'[index], All')
  PROVE  Grown
BY ZenonT(60) DEF Kept, Grown, Adds, All

\* A step that adds none.
LEMMA SameGrown ==
  ASSUME DumpInv, sink # "failed", phase \in Loop, index < Len(executors), Kept, All' = All,
         dumpDatas' \in Seq(LineType), written' \in Seq(LineType),
         ~IsDumper(Cfg(index)) => dumper'[index] = dumper[index],
         Pending' = Pending \/ Pending' = <<>>
  PROVE  Grown
<1>1. index \in Indices /\ UpTo(executors, All, index) /\ LoopInv(All)
  BY Zenon, Current
<1>2. ~IsDumper(Cfg(index)) => Untouched(index, dumper'[index], All')
  BY Zenon, <1>1 DEF LoopInv
<1>3. \A k \in DOMAIN Pending' : \E m \in DOMAIN Pending : Pending[m].from = Pending'[k].from
  OBVIOUS
<1>. QED
  BY Zenon, <1>1, <1>2, <1>3 DEF Kept, Grown

\* The title of a group.
LEMMA AddsTitle ==
  ASSUME NEW p, NEW i \in Nat, NEW w \in Seq(LineType), NEW d \in Seq(LineType), UpTo(p, w \o d, i),
         NEW g \in Nat
  PROVE  /\ Adds(p, i, w, d, Append(d, GroupTitle(g)))
         /\ Of(w \o Append(d, GroupTitle(g)), i) = Of(w \o d, i)
<1>. DEFINE l == GroupTitle(g)
            s == w \o d
<1>0. s \in Seq(LineType) /\ Ordered(p, s) /\ \A k \in DOMAIN s : s[k].from <= i + 1
  BY Zenon DEF UpTo
<1>. HIDE DEF s
<1>1. /\ l \in LineType /\ Append(s, l) \in Seq(LineType) /\ Ordered(p, Append(s, l))
      /\ \A j \in Nat : Of(Append(s, l), j) = Of(s, j)
      /\ \A k \in DOMAIN Append(s, l) :
           \/ Append(s, l)[k].from = 0
           \/ k \in DOMAIN s /\ Append(s, l)[k] = s[k]
  BY Zenon, <1>0, TitleLine
<1>2. l.from = 0
  BY Zenon DEF GroupTitle
<1>. HIDE DEF l
<1>3. w \o Append(d, l) = Append(s, l)
  BY Zenon, <1>1, AppendToAll DEF s
<1>4. /\ Append(d, l) \in Seq(LineType)
      /\ \A k \in DOMAIN Append(d, l) :
            Append(d, l)[k].from = 0 \/ \E m \in DOMAIN d : d[m].from = Append(d, l)[k].from
  <2>1. /\ Append(d, l) \in Seq(LineType) /\ Len(d) \in Nat /\ DOMAIN d = 1 .. Len(d)
        /\ DOMAIN Append(d, l) = 1 .. Len(d) + 1
        /\ \A k \in 1 .. Len(d) : Append(d, l)[k] = d[k]
        /\ Append(d, l)[Len(d) + 1] = l
    BY ZenonT(60), <1>1, Appended
  <2>2. \A k \in 1 .. Len(d) + 1 : k \in 1 .. Len(d) \/ k = Len(d) + 1
    BY <2>1
  <2>. QED
    BY Zenon, <1>2, <2>1, <2>2
<1>5. \A k \in DOMAIN Append(s, l) : Append(s, l)[k].from <= i + 1
  BY <1>0, <1>1
<1>6. UpTo(p, w \o Append(d, l), i)
  BY Zenon, <1>1, <1>3, <1>5 DEF UpTo
<1>7. \A j \in Nat : Of(w \o Append(d, l), j) = Of(w \o d, j)
  BY Zenon, <1>1, <1>3 DEF s
<1>8. Adds(p, i, w, d, Append(d, l))
  BY Zenon, <1>4, <1>6, <1>7 DEF Adds
<1>. QED
  BY Zenon, <1>7, <1>8 DEF l

\* A step that changes at most the members of the executor at index.
LEMMA KeptBy ==
  ASSUME DumpInv, sink # "failed", phase \in Loop, index < Len(executors),
         UNCHANGED <<request, canceled, sink>>, faulty \subseteq faulty', groupName' \in Nat,
         NEW d \in DumperType, dumper' = [dumper EXCEPT ![index] = d] \/ (dumper' = dumper /\ d = dumper[index])
  PROVE  Kept /\ dumper'[index] = d
<1>1. index \in Indices /\ dumper \in [Indices -> DumperType]
  BY Zenon, Current DEF LoopInv
<1>2. /\ dumper' \in [Indices -> DumperType] /\ dumper'[index] = d
      /\ \A j \in Indices \ {index} : dumper'[j] = dumper[j]
  BY Zenon, <1>1
<1>. QED
  BY Zenon, <1>2 DEF Kept, request

\* The loop goes on after a dumper that failed or has nothing to say.
LEMMA Skips ==
  ASSUME DumpInv, sink # "failed", phase \in Loop, index < Len(executors), Grown, SkipExecutor,
         IsDumper(Cfg(index)), index \in faulty' \/ Whole(Cfg(index), index, All')
  PROVE  DumpInv'
<1>1. /\ Len(executors) \in Nat /\ index \in Nat /\ executors \in Pipelines
  BY Zenon, Current DEF DumpInv
<1>2. index \in 0 .. SIZE_LIMIT - 2
  BY <1>1, ListShape
<1>3. index' = index + 1 /\ phase' = "head" /\ loopStack' = loopStack
  BY Zenon, <1>2, Wraps DEF SkipExecutor
<1>4. ~Boundary(Cfg(index)) /\ ~IsOutput(Cfg(index))
  BY Zenon DEF Boundary, IsOutput, IsGroup, IsDumper, LineDumper
<1>. QED
  BY Zenon, <1>3, <1>4, Advances

\* LoopEnter: at most a title.
LEMMA EnterStep ==
  ASSUME DumpInv, sink # "failed", LoopEnter
  PROVE  DumpInv'
<1>1. /\ phase = "head" /\ index < Len(executors) /\ phase' = "pre" /\ phase \in Loop
      /\ UNCHANGED <<request, index, loopStack, dumper, sink, written, canceled, failures>>
  BY Zenon DEF LoopEnter, Loop
<1>2. /\ index \in Nat /\ Cfg(index) \in Configs /\ dumper[index] \in DumperType
      /\ written \in Seq(LineType) /\ dumpDatas \in Seq(LineType)
      /\ UpTo(executors, All, index) /\ AtIndex(Cfg(index), dumper[index], All) /\ groupName \in Nat
  BY Zenon, <1>1, Current DEF DumpInv
<1>3. Pending = dumpDatas /\ Pending' = dumpDatas' /\ All = written \o dumpDatas /\ All' = written \o dumpDatas'
  BY Zenon, <1>1 DEF Pending, All
<1>4. groupName' \in Nat
  BY Zenon, <1>2 DEF LoopEnter, Configs
<1>5. Kept
  BY Zenon, <1>1, <1>2, <1>4, KeptBy DEF failures
<1>6. Grown /\ Of(All', index) = Of(All, index)
  <2>1. CASE dumpDatas' = dumpDatas
    BY Zenon, <1>1, <1>2, <1>3, <1>5, <2>1, SameGrown
  <2>2. CASE IsDumper(Cfg(index)) /\ dumpDatas' = Append(dumpDatas, GroupTitle(groupName'))
    <3>1. /\ Adds(executors, index, written, dumpDatas, dumpDatas')
          /\ Of(written \o dumpDatas', index) = Of(written \o dumpDatas, index)
      BY ZenonT(60), <1>2, <1>3, <1>4, <2>2, AddsTitle
    <3>. QED
      BY Zenon, <1>1, <1>2, <1>3, <1>5, <2>2, <3>1, AddsGrown
  <2>. QED
    BY Zenon, <2>1, <2>2 DEF LoopEnter, CheckGroupName
<1>7. AtIndex(Cfg(index), dumper[index], All)'
  BY Zenon, <1>1, <1>2, <1>6 DEF AtIndex, Untouched, Looping, Reading, Cfg, request
<1>. QED
  BY Zenon, <1>1, <1>6, <1>7, Stays

\* What is known of the executor at index before and during its calls.
LEMMA Here ==
  ASSUME DumpInv, sink # "failed", phase \in {"pre", "exec"}
  PROVE  /\ index < Len(executors) /\ phase \in Loop
         /\ executors \in Seq(Configs) /\ index \in 0 .. Len(executors) - 1
         /\ index \in Nat /\ Cfg(index) \in Configs /\ Cfg(index) = executors[index + 1]
         /\ dumper[index] \in DumperType /\ index \in Indices /\ dumper \in [Indices -> DumperType]
         /\ written \in Seq(LineType) /\ dumpDatas \in Seq(LineType) /\ groupName \in Nat
         /\ Pending = dumpDatas /\ All = written \o dumpDatas /\ UpTo(executors, written \o dumpDatas, index)
         /\ AtIndex(Cfg(index), dumper[index], All)
         /\ Cfg(index).class \in {"cmd", "once"} => Len(Cfg(index).content) = 1
<1>1. phase \in Loop /\ Pending = dumpDatas /\ All = written \o dumpDatas
  BY Zenon DEF Loop, Pending, All
<1>2. /\ Len(executors) \in Nat /\ index \in 0 .. Len(executors) /\ LoopInv(All) /\ executors \in Pipelines
      /\ groupName \in Nat
  BY Zenon, <1>1, Current DEF DumpInv
<1>3. index < Len(executors) /\ dumper \in [Indices -> DumperType]
  BY Zenon, <1>2 DEF LoopInv
<1>4. index \in 0 .. Len(executors) - 1
  BY <1>2, <1>3
<1>5. Cfg(index).class \in {"cmd", "once"} => Len(Cfg(index).content) = 1
  BY Zenon, <1>2, <1>4, ListShape DEF Cfg
<1>6. Cfg(index) = executors[index + 1]
  BY Zenon DEF Cfg
<1>. QED
  BY Zenon, <1>1, <1>2, <1>3, <1>4, <1>5, <1>6, Current

\* The names that a dumper that has not begun builds.
LEMMA FreshNames ==
  ASSUME NEW c \in Configs
  PROVE  /\ <<>> \o Names(c) = Names(c) /\ Names(c) \in Seq(Nat) /\ Len(Names(c)) = Len(c.content)
         /\ Len(c.content) \in Nat /\ \A f \in 1 .. Len(c.content) : Names(c)[f] = f
<1>1. Len(c.content) \in Nat
  BY Zenon, LinesAre
<1>2. Names(c) \in [1 .. Len(c.content) -> Nat] /\ \A f \in 1 .. Len(c.content) : Names(c)[f] = f
  BY <1>1 DEF Names
<1>3. Names(c) \in Seq(Nat) /\ Len(Names(c)) = Len(c.content)
  BY Zenon, <1>1, <1>2, FunctionIsSeq
<1>4. <<>> \o Names(c) = Names(c)
  BY Zenon, <1>3, JoinEmpty
<1>. QED
  BY Zenon, <1>1, <1>2, <1>3, <1>4

\* The members after the changes the dumpers make to them.
LEMMA MembersAre ==
  ASSUME NEW d \in DumperType
  PROVE  /\ CloseFd(d) \in DumperType
         /\ \A q \in Seq(Nat) : LET e == [d EXCEPT !.names = q]
                               IN  e \in DumperType /\ e.names = q /\ e.next = d.next
         /\ d.next < Len(d.names) =>
              LET e == OpenedNext(d)
              IN  /\ e \in DumperType /\ e.names = d.names /\ e.next = d.next + 1
                  /\ e.stream = d.names[d.next + 1] /\ e.pos = 0 /\ e.more = d.more
<1>1. CloseFd(d) \in DumperType
  BY Zenon DEF CloseFd, DumperType
<1>2. ASSUME NEW q \in Seq(Nat)
      PROVE  LET e == [d EXCEPT !.names = q]
             IN  e \in DumperType /\ e.names = q /\ e.next = d.next
  BY Zenon DEF DumperType
<1>3. ASSUME d.next < Len(d.names)
      PROVE  LET e == OpenedNext(d)
             IN  /\ e \in DumperType /\ e.names = d.names /\ e.next = d.next + 1
                 /\ e.stream = d.names[d.next + 1] /\ e.pos = 0 /\ e.more = d.more
  <2>1. d.next \in Nat /\ d.names \in Seq(Nat) /\ Len(d.names) \in Nat
    BY Zenon, ListFn DEF DumperType
  <2>2. d.next + 1 \in 1 .. Len(d.names) /\ d.next + 1 \in Nat
    BY <1>3, <2>1
  <2>3. d.names[d.next + 1] \in Nat
    BY Zenon, <2>1, <2>2, EntryIn
  <2>. QED
    BY Zenon, <2>2, <2>3 DEF OpenedNext, DumperType
<1>. QED
  BY Zenon, <1>1, <1>2, <1>3

\* PreExecute of a FileStreamDumper: it goes on, has no file, fails, or begins with
\* the title of its first file.
LEMMA FilePreStep ==
  ASSUME DumpInv, sink # "failed", phase = "pre", FilePreExecute,
         UNCHANGED <<request, sink, written, canceled>>
  PROVE  DumpInv'
<1>. DEFINE c == Cfg(index)
            q == Names(c)
            named == [dumper[index] EXCEPT !.names = q]
<1>0. c.class = "file" /\ LineDumper(c) /\ IsDumper(c)
  BY Zenon DEF FilePreExecute, LineDumper, IsDumper
<1>1. /\ index < Len(executors) /\ phase \in Loop
      /\ executors \in Seq(Configs) /\ index \in 0 .. Len(executors) - 1
      /\ index \in Nat /\ c \in Configs /\ c = executors[index + 1]
      /\ dumper[index] \in DumperType /\ index \in Indices
      /\ written \in Seq(LineType) /\ dumpDatas \in Seq(LineType) /\ groupName \in Nat
      /\ Pending = dumpDatas /\ All = written \o dumpDatas /\ UpTo(executors, written \o dumpDatas, index)
      /\ AtIndex(c, dumper[index], All)
  BY ZenonT(60), Here
<1>2. /\ <<>> \o q = q /\ q \in Seq(Nat) /\ Len(q) = Len(c.content) /\ Len(c.content) \in Nat
      /\ \A f \in 1 .. Len(c.content) : q[f] = f
  BY Zenon, <1>1, FreshNames
<1>3. Untouched(index, dumper[index], All) \/ Looping(c, index, dumper[index], All)
  BY Zenon, <1>1 DEF AtIndex
<1>4. BuildFileNames(index) = dumper[index].names \o q
  BY Zenon DEF BuildFileNames, Names
<1>5. dumper[index].next = 0 => /\ dumper[index] = Fresh /\ Of(All, index) = {}
                                /\ [dumper[index] EXCEPT !.names = BuildFileNames(index)] = named
  <2>1. Looping(c, index, dumper[index], All) => dumper[index].next # 0
    <3>1. ASSUME Looping(c, index, dumper[index], All)
          PROVE  dumper[index].next = dumper[index].stream /\ dumper[index].stream \in 1 .. Len(c.content)
      BY Zenon, <1>0, <3>1 DEF Looping, Reading
    <3>2. \A x : x \in 1 .. Len(c.content) => x # 0
      BY <1>2
    <3>. QED
      BY Zenon, <3>1, <3>2
  <2>2. ASSUME dumper[index].next = 0 PROVE dumper[index] = Fresh /\ Of(All, index) = {}
    BY Zenon, <1>3, <2>1, <2>2 DEF Untouched
  <2>3. ASSUME dumper[index] = Fresh PROVE BuildFileNames(index) = q
    <3>1. dumper[index].names = <<>>
      BY <2>3 DEF Fresh
    <3>. QED
      BY Zenon, <1>2, <1>4, <3>1
  <2>. QED
    BY Zenon, <2>2, <2>3
<1>6. named \in DumperType /\ named.names = q /\ named.next = dumper[index].next
  BY Zenon, <1>1, <1>2, MembersAre
<1>. HIDE DEF named
<1>7. (dumper[index].next = 0 => (NoMoreFiles(named) <=> Len(c.content) = 0)) /\ CloseFd(named) \in DumperType
  BY <1>2, <1>6, MembersAre DEF NoMoreFiles
<1>. HIDE DEF c, q, named
<1>8. CASE dumper[index].next > 0 /\ Proceed("exec") /\ Faultless /\ UNCHANGED <<dumper, dumpDatas>>
  <2>1. /\ phase' = "exec" /\ index' = index /\ loopStack' = loopStack /\ groupName' = groupName
        /\ faulty' = faulty /\ dumper' = dumper /\ dumpDatas' = dumpDatas
    BY Zenon, <1>8 DEF Proceed, Faultless, failures
  <2>2. Looping(c, index, dumper[index], All)
    BY <1>3, <1>8 DEF Untouched, Fresh
  <2>3. Pending' = dumpDatas' /\ All' = All
    BY Zenon, <1>1, <2>1 DEF Pending, All
  <2>4. Kept
    BY Zenon, <1>1, <2>1, KeptBy
  <2>5. Grown
    BY Zenon, <1>1, <2>1, <2>3, <2>4, SameGrown
  <2>6. AtIndex(Cfg(index), dumper[index], All)'
    BY Zenon, <1>0, <2>1, <2>2, <2>3 DEF AtIndex, Looping, Cfg, request, c
  <2>. QED
    BY Zenon, <1>1, <2>1, <2>5, <2>6, Stays
<1>9. CASE /\ dumper[index].next = 0 /\ dumper' = [dumper EXCEPT ![index] = CloseFd(named)] /\ SkipExecutor
           /\ UNCHANGED dumpDatas
           /\ (Faultless /\ Len(c.content) = 0) \/ Fault
  <2>1. /\ phase' = "head" /\ groupName' = groupName /\ dumpDatas' = dumpDatas /\ faulty \subseteq faulty'
        /\ Len(c.content) = 0 \/ index \in faulty'
    BY Zenon, <1>9 DEF SkipExecutor, Faultless, Fault, failures
  <2>2. Pending' = Pending /\ All' = All
    BY Zenon, <1>1, <2>1 DEF Pending, All
  <2>3. Kept
    BY ZenonT(60), <1>1, <1>7, <1>9, <2>1, KeptBy
  <2>4. Grown
    BY Zenon, <1>0, <1>1, <2>1, <2>2, <2>3, SameGrown DEF c
  <2>5. Len(c.content) = 0 => Whole(c, index, All')
    BY <1>0, <1>5, <1>9, <2>2 DEF Whole, LinesOf
  <2>. QED
    BY ZenonT(60), <1>0, <1>1, <1>9, <2>1, <2>4, <2>5, Skips DEF c
<1>10. CASE /\ dumper[index].next = 0 /\ Len(c.content) # 0 /\ Proceed("exec") /\ Faultless
            /\ dumper' = [dumper EXCEPT ![index] = OpenedNext(named)]
            /\ dumpDatas' = Append(dumpDatas, FileTitle(index, named))
  <2>1. /\ phase' = "exec" /\ index' = index /\ loopStack' = loopStack /\ groupName' = groupName
        /\ faulty' = faulty /\ executors' = executors
    BY Zenon, <1>10 DEF Proceed, Faultless, failures, request
  <2>2. 1 \in 1 .. Len(c.content) /\ q[1] = 1 /\ c.content[1] \in Nat
    <3>1. 1 \in 1 .. Len(c.content)
      BY <1>2, <1>10
    <3>2. \A f \in 1 .. Len(c.content) : c.content[f] \in Nat
      BY Zenon, <1>1, LinesAre
    <3>. QED
      BY Zenon, <1>2, <3>1, <3>2
  <2>3. /\ OpenedNext(named) \in DumperType /\ FileTitle(index, named) = Line(index, 1, 0)
        /\ OpenedNext(named).names = q /\ OpenedNext(named).next = 1
        /\ OpenedNext(named).stream = 1 /\ OpenedNext(named).pos = 0
    <3>1. named.next = 0 /\ named.next < Len(named.names) /\ named.names[named.next + 1] = 1
      BY <1>2, <1>6, <1>10, <2>2
    <3>. QED
      BY <1>6, <3>1, MembersAre DEF FileTitle
  <2>5. Kept /\ dumper'[index] = OpenedNext(named)
    BY Zenon, <1>1, <1>10, <2>1, <2>3, KeptBy
  <2>6. <<1, 0>> \in LinesOf(c) /\ Under(c, <<1, 0>>) = {}
    <3>1. 0 \in 0 .. c.content[1]
      BY <2>2
    <3>2. c.class # "once"
      BY Zenon, <1>0
    <3>. QED
      BY Zenon, <1>0, <1>1, <2>2, <3>1, <3>2, LinesAre, UnderNext
  <2>7. /\ Adds(executors, index, written, dumpDatas, dumpDatas')
        /\ Of(written \o dumpDatas', index) = Under(c, <<1, 0 + 1>>)
    <3>1. Of(written \o dumpDatas, index) = Under(executors[index + 1], <<1, 0>>)
      BY Zenon, <1>1, <1>5, <1>10, <2>6
    <3>2. /\ Adds(executors, index, written, dumpDatas, Append(dumpDatas, Line(index, 1, 0)))
          /\ Of(written \o Append(dumpDatas, Line(index, 1, 0)), index) = Under(executors[index + 1], <<1, 0 + 1>>)
      BY <1>1, <2>6, <3>1, AddsLine
    <3>. QED
      BY Zenon, <1>1, <1>10, <2>3, <3>2
  <2>8. Pending' = dumpDatas' /\ All' = written \o dumpDatas'
    BY Zenon, <2>1 DEF Pending, All
  <2>9. Grown
    BY Zenon, <1>0, <1>1, <2>5, <2>7, <2>8, AddsGrown DEF c
  <2>10. Reading(c, index, dumper'[index], All')
    <3>1. /\ dumper'[index].names = Names(c) /\ dumper'[index].next = 1
          /\ dumper'[index].stream = 1 /\ dumper'[index].pos = 0
      BY Zenon, <2>3, <2>5 DEF q
    <3>2. dumper'[index].stream \in 1 .. Len(c.content) /\ dumper'[index].pos \in 0 .. c.content[1]
      BY <2>2, <3>1
    <3>3. Of(All', index) = Under(c, <<dumper'[index].stream, dumper'[index].pos + 1>>)
      BY Zenon, <2>7, <2>8, <3>1
    <3>. QED
      BY Zenon, <1>0, <3>1, <3>2, <3>3 DEF Reading
  <2>11. AtIndex(Cfg(index), dumper[index], All)'
    BY Zenon, <1>0, <2>1, <2>10 DEF AtIndex, Cfg, c
  <2>. QED
    BY Zenon, <1>1, <2>1, <2>9, <2>11, Stays
<1>. QED
  BY Zenon, <1>5, <1>7, <1>8, <1>9, <1>10 DEF FilePreExecute

\* A line dumper that goes on reading, or is through with this call.
LEMMA ReadsOn ==
  ASSUME DumpInv, sink # "failed", phase \in {"pre", "exec"}, LineDumper(Cfg(index)), Kept,
         written' = written, index' = index, loopStack' = loopStack,
         Adds(executors, index, written, dumpDatas, dumpDatas'),
         \/ phase' = "exec" /\ Reading(Cfg(index), index, dumper'[index], written \o dumpDatas')
         \/ phase' = "after" /\ Looping(Cfg(index), index, dumper'[index], written \o dumpDatas')
         \/ /\ phase' = "after" /\ ~(Cfg(index).loop /\ dumper'[index].more)
            /\ canceled \/ Whole(Cfg(index), index, written \o dumpDatas')
  PROVE  DumpInv'
<1>1. /\ index < Len(executors) /\ phase \in Loop /\ written \in Seq(LineType) /\ Pending = dumpDatas
  BY Zenon, Here
<1>2. executors' = executors /\ canceled' = canceled
  BY Zenon DEF Kept
<1>3. ~IsOutput(Cfg(index)) /\ IsDumper(Cfg(index))
  BY Zenon DEF LineDumper, IsOutput, IsDumper
<1>4. Pending' = dumpDatas' /\ All' = written \o dumpDatas'
  BY Zenon, <1>2, <1>3 DEF Pending, All, Cfg
<1>5. Grown
  BY Zenon, <1>1, <1>3, <1>4, AddsGrown
<1>6. AtIndex(Cfg(index), dumper[index], All)'
  BY Zenon, <1>2, <1>4 DEF AtIndex, Cfg
<1>. QED
  BY Zenon, <1>1, <1>5, <1>6, Stays

\* A dumper that is skipped.
LEMMA SkipsOn ==
  ASSUME DumpInv, sink # "failed", phase \in {"pre", "exec"}, IsDumper(Cfg(index)), Kept,
         written' = written, SkipExecutor,
         Adds(executors, index, written, dumpDatas, dumpDatas'),
         index \in faulty' \/ Whole(Cfg(index), index, written \o dumpDatas')
  PROVE  DumpInv'
<1>1. /\ index < Len(executors) /\ phase \in Loop /\ written \in Seq(LineType) /\ Pending = dumpDatas
  BY Zenon, Here
<1>2. phase' = "head"
  BY Zenon DEF SkipExecutor
<1>3. Pending' = dumpDatas' /\ All' = written \o dumpDatas'
  BY Zenon, <1>2 DEF Pending, All
<1>4. Grown
  BY Zenon, <1>1, <1>3, AddsGrown
<1>. QED
  BY Zenon, <1>1, <1>3, <1>4, Skips

\* PreExecute of a CMDDumper: the title the first time, or the pipe fails.
LEMMA CmdPreStep ==
  ASSUME DumpInv, sink # "failed", phase = "pre", CmdPreExecute,
         UNCHANGED <<request, sink, written, canceled>>
  PROVE  DumpInv'
<1>. DEFINE c == Cfg(index)
            d == dumper[index]
            opened == IF d.stream = 0 THEN [d EXCEPT !.stream = 1, !.pos = 0] ELSE d
            e == [opened EXCEPT !.titled = TRUE]
<1>0. c.class = "cmd" /\ LineDumper(c) /\ IsDumper(c)
  BY Zenon DEF CmdPreExecute, LineDumper, IsDumper
<1>1. /\ index < Len(executors) /\ phase \in Loop
      /\ executors \in Seq(Configs) /\ index \in 0 .. Len(executors) - 1
      /\ c \in Configs /\ c = executors[index + 1] /\ d \in DumperType
      /\ written \in Seq(LineType) /\ dumpDatas \in Seq(LineType) /\ groupName \in Nat
      /\ UpTo(executors, written \o dumpDatas, index) /\ All = written \o dumpDatas
      /\ AtIndex(c, d, All)
  BY Zenon, Here
<1>2. Len(c.content) = 1 /\ c.content[1] \in Nat
  <2>1. Len(c.content) = 1
    BY Zenon, <1>0, Here
  <2>2. \A f \in 1 .. Len(c.content) : c.content[f] \in Nat
    BY Zenon, <1>1, LinesAre
  <2>. QED
    BY <2>1, <2>2
<1>3. Untouched(index, d, All) \/ Looping(c, index, d, All)
  BY Zenon, <1>1 DEF AtIndex
<1>4. Adds(executors, index, written, dumpDatas, dumpDatas)
  BY Zenon, <1>1, AddsMore
<1>5. CASE /\ dumper' = [dumper EXCEPT ![index] = e] /\ Proceed("exec") /\ Faultless
           /\ dumpDatas' = IF d.titled THEN dumpDatas ELSE Append(dumpDatas, Line(index, 1, 0))
  <2>1. /\ phase' = "exec" /\ index' = index /\ loopStack' = loopStack /\ groupName' = groupName
        /\ faulty' = faulty
    BY Zenon, <1>5 DEF Proceed, Faultless, failures
  <2>2. e \in DumperType /\ e.titled /\ e.stream = opened.stream /\ e.pos = opened.pos
    BY Zenon, <1>1 DEF DumperType
  <2>. HIDE DEF e
  <2>3. Kept /\ dumper'[index] = e
    BY Zenon, <1>1, <1>5, <2>1, <2>2, KeptBy
  <2>4. CASE Untouched(index, d, All)
    <3>1. ~d.titled /\ e.stream = 1 /\ e.pos = 0 /\ Of(All, index) = {}
      BY <2>2, <2>4 DEF Untouched, Fresh
    <3>2. <<1, 0>> \in LinesOf(c) /\ Under(c, <<1, 0>>) = {}
      <4>1. 0 \in 0 .. c.content[1] /\ 1 \in 1 .. Len(c.content) /\ c.class # "once"
        BY <1>0, <1>2
      <4>. QED
        BY Zenon, <1>0, <1>1, <4>1, LinesAre, UnderNext
    <3>3. Of(written \o dumpDatas, index) = Under(executors[index + 1], <<1, 0>>)
      BY Zenon, <1>1, <3>1, <3>2
    <3>4. /\ Adds(executors, index, written, dumpDatas, Append(dumpDatas, Line(index, 1, 0)))
          /\ Of(written \o Append(dumpDatas, Line(index, 1, 0)), index) = Under(executors[index + 1], <<1, 0 + 1>>)
      BY <1>1, <3>2, <3>3, AddsLine
    <3>5. Reading(c, index, e, written \o dumpDatas')
      <4>1. e.stream \in 1 .. Len(c.content) /\ e.pos \in 0 .. c.content[1]
        BY <1>2, <3>1
      <4>2. Of(written \o dumpDatas', index) = Under(c, <<e.stream, e.pos + 1>>)
        BY Zenon, <1>1, <1>5, <3>1, <3>4
      <4>. QED
        BY Zenon, <1>0, <2>2, <3>1, <4>1, <4>2 DEF Reading
    <3>6. Adds(executors, index, written, dumpDatas, dumpDatas')
      BY Zenon, <1>5, <3>1, <3>4
    <3>. QED
      BY Zenon, <1>0, <2>1, <2>3, <3>5, <3>6, ReadsOn
  <2>5. CASE Looping(c, index, d, All)
    <3>1. d.titled /\ d.stream \in 1 .. Len(c.content) /\ Reading(c, index, d, All)
      BY Zenon, <1>0, <2>5 DEF Looping, Reading
    <3>2. dumpDatas' = dumpDatas /\ e.stream = d.stream /\ e.pos = d.pos
      BY <1>2, <1>5, <2>2, <3>1
    <3>3. Reading(c, index, e, written \o dumpDatas')
      BY Zenon, <1>0, <1>1, <2>2, <3>1, <3>2 DEF Reading
    <3>. QED
      BY Zenon, <1>0, <1>4, <2>1, <2>3, <3>2, <3>3, ReadsOn
  <2>. QED
    BY Zenon, <1>3, <2>4, <2>5
<1>6. CASE SkipExecutor /\ Fault /\ UNCHANGED <<dumper, dumpDatas>>
  <2>1. groupName' = groupName /\ faulty \subseteq faulty' /\ index \in faulty'
    BY Zenon, <1>6 DEF SkipExecutor, Fault
  <2>2. Kept
    BY Zenon, <1>1, <1>6, <2>1, KeptBy
  <2>. QED
    BY Zenon, <1>0, <1>4, <1>6, <2>1, <2>2, SkipsOn
<1>. QED
  BY Zenon, <1>5, <1>6 DEF CmdPreExecute

\* An executor that is no dumper has no lines.
LEMMA NoDumper ==
  ASSUME DumpInv, sink # "failed", phase \in Loop, index < Len(executors), ~IsDumper(Cfg(index))
  PROVE  Untouched(index, dumper[index], All) /\ Whole(Cfg(index), index, All)
<1>1. index \in Indices /\ LoopInv(All)
  BY Zenon, Current
<1>2. Untouched(index, dumper[index], All)
  BY Zenon, <1>1 DEF LoopInv
<1>. QED
  BY Zenon, <1>2 DEF Untouched, Whole, LinesOf

\* PreExecute of the executors that do their work in one call.
LEMMA SimplePreStep ==
  ASSUME DumpInv, sink # "failed", phase = "pre", SimplePreExecute,
         UNCHANGED <<request, sink, written, canceled>>
  PROVE  DumpInv'
<1>1. /\ index < Len(executors) /\ phase \in Loop /\ dumper[index] \in DumperType
      /\ written \in Seq(LineType) /\ dumpDatas \in Seq(LineType) /\ groupName \in Nat
      /\ Pending = dumpDatas /\ AtIndex(Cfg(index), dumper[index], All)
  BY Zenon, Here
<1>2. /\ phase' = "exec" /\ index' = index /\ loopStack' = loopStack /\ groupName' = groupName
      /\ faulty' = faulty /\ dumper' = dumper /\ dumpDatas' = dumpDatas /\ ~LineDumper(Cfg(index))
  BY Zenon DEF SimplePreExecute, Proceed, Faultless, failures, LineDumper
<1>3. Untouched(index, dumper[index], All)
  BY Zenon, <1>1, <1>2 DEF AtIndex, Looping, Reading
<1>4. Pending' = Pending /\ All' = All
  BY Zenon, <1>1, <1>2 DEF Pending, All
<1>5. Kept
  BY Zenon, <1>1, <1>2, KeptBy
<1>6. Grown
  BY Zenon, <1>1, <1>2, <1>4, <1>5, SameGrown
<1>7. AtIndex(Cfg(index), dumper[index], All)'
  BY Zenon, <1>2, <1>3, <1>4 DEF AtIndex, Cfg, request
<1>. QED
  BY Zenon, <1>1, <1>2, <1>6, <1>7, Stays

\* PreExecute of the output, when it can be opened.
LEMMA OutputPreStep ==
  ASSUME DumpInv, sink # "failed", phase = "pre", OutputPreExecute, sink' # "failed",
         UNCHANGED <<request, written, canceled>>
  PROVE  DumpInv'
<1>1. /\ index < Len(executors) /\ phase \in Loop /\ dumper[index] \in DumperType /\ index \in Indices
      /\ dumper \in [Indices -> DumperType]
      /\ written \in Seq(LineType) /\ dumpDatas \in Seq(LineType) /\ groupName \in Nat
      /\ Pending = dumpDatas
  BY Zenon, Here
<1>2. /\ phase' = "exec" /\ index' = index /\ loopStack' = loopStack /\ groupName' = groupName
      /\ faulty' = faulty /\ dumper' = dumper /\ dumpDatas' = dumpDatas /\ Cfg(index).class = "output"
  BY Zenon DEF OutputPreExecute, Proceed, Faultless, failures
<1>3. ~LineDumper(Cfg(index)) /\ ~IsDumper(Cfg(index))
  BY Zenon, <1>2 DEF LineDumper, IsDumper
<1>4. Pending' = Pending /\ All' = All
  BY Zenon, <1>1, <1>2 DEF Pending, All
<1>5. Kept
  BY Zenon, <1>1, <1>2 DEF Kept, request
<1>6. Grown
  BY Zenon, <1>1, <1>2, <1>4, <1>5, SameGrown
<1>7. Untouched(index, dumper[index], All)
  BY Zenon, <1>1, <1>3, NoDumper
<1>8. AtIndex(Cfg(index), dumper[index], All)'
  BY Zenon, <1>2, <1>3, <1>4, <1>7 DEF AtIndex, Cfg, request
<1>. QED
  BY Zenon, <1>1, <1>2, <1>6, <1>8, Stays

\* PreExecute of every executor.
LEMMA PreStep ==
  ASSUME DumpInv, sink # "failed", sink' # "failed", PreExecute
  PROVE  DumpInv'
<1>1. phase = "pre" /\ UNCHANGED <<request, written, canceled>>
  BY Zenon DEF PreExecute
<1>. QED
  BY Zenon, <1>1, FilePreStep, CmdPreStep, SimplePreStep, OutputPreStep DEF PreExecute

\* A call of getline by executor i, of configuration c and members d, with lines w
\* written and buffer b: the next line of the file, if it has one, goes to the
\* buffer, and n is the position after it.
GetLine(p, i, c, d, w, b, got, n) ==
    /\ p \in Seq(Configs) /\ i \in 0 .. Len(p) - 1 /\ c = p[i + 1] /\ d \in DumperType
    /\ w \in Seq(LineType) /\ b \in Seq(LineType) /\ UpTo(p, w \o b, i) /\ Reading(c, i, d, w \o b)
    /\ \/ d.pos < c.content[d.stream] /\ got = Append(b, Line(i, d.stream, d.pos + 1)) /\ n = d.pos + 1
       \/ ~(d.pos < c.content[d.stream]) /\ got = b /\ n = d.pos

\* After it, the lines up to position n are there.
Got(p, i, c, d, w, b, got, n) ==
    /\ Adds(p, i, w, b, got) /\ Of(w \o got, i) = Under(c, <<d.stream, n + 1>>)
    /\ n \in 0 .. c.content[d.stream] /\ n \in Nat
    /\ d.pos + 1 >= c.content[d.stream] => Of(w \o got, i) = Under(c, <<d.stream + 1, 0>>)

LEMMA GotLine ==
  ASSUME NEW p, NEW i, NEW c, NEW d, NEW w, NEW b, NEW got, NEW n, GetLine(p, i, c, d, w, b, got, n)
  PROVE  Got(p, i, c, d, w, b, got, n)
<1>0. /\ p \in Seq(Configs) /\ i \in 0 .. Len(p) - 1 /\ c = p[i + 1] /\ d \in DumperType
      /\ w \in Seq(LineType) /\ b \in Seq(LineType) /\ UpTo(p, w \o b, i) /\ Reading(c, i, d, w \o b)
  BY Zenon DEF GetLine
<1>1. c \in Configs
  BY <1>0, EntryIn, ListFn
<1>2. /\ LineDumper(c) /\ d.stream \in 1 .. Len(c.content) /\ Len(c.content) \in Nat
      /\ c.content[d.stream] \in Nat /\ d.pos \in 0 .. c.content[d.stream] /\ d.pos \in Nat
      /\ Of(w \o b, i) = Under(c, <<d.stream, d.pos + 1>>) /\ d.stream \in Nat
  <2>1. /\ LineDumper(c) /\ d.stream \in 1 .. Len(c.content) /\ d.pos \in 0 .. c.content[d.stream]
        /\ Of(w \o b, i) = Under(c, <<d.stream, d.pos + 1>>)
    BY Zenon, <1>0 DEF Reading
  <2>2. Len(c.content) \in Nat /\ c.content[d.stream] \in Nat
    BY Zenon, <1>1, <2>1, LinesAre
  <2>3. d.stream \in Nat /\ d.pos \in Nat
    BY <2>1, <2>2
  <2>. QED
    BY Zenon, <2>1, <2>2, <2>3
<1>. DEFINE m == c.content[d.stream]
            r == d.pos
<1>3. m \in Nat /\ r \in Nat /\ r <= m
  BY <1>2
<1>. HIDE DEF m, r
<1>4. CASE r < m
  <2>1. r + 1 \in 0 .. m /\ r + 1 \in Nat
    BY <1>3, <1>4
  <2>2. <<d.stream, r + 1>> \in LinesOf(c)
    <3>1. IsDumper(c) /\ c.class # "once"
      BY Zenon, <1>2 DEF LineDumper, IsDumper
    <3>. QED
      BY Zenon, <1>1, <1>2, <2>1, <3>1, LinesAre DEF m
  <2>3. Of(w \o b, i) = Under(p[i + 1], <<d.stream, r + 1>>)
    BY Zenon, <1>0, <1>2 DEF r
  <2>4. /\ Adds(p, i, w, b, Append(b, Line(i, d.stream, r + 1)))
        /\ Of(w \o Append(b, Line(i, d.stream, r + 1)), i) = Under(p[i + 1], <<d.stream, (r + 1) + 1>>)
    <3>1. d.stream \in Nat /\ r + 1 \in Nat /\ <<d.stream, r + 1>> \in LinesOf(p[i + 1])
      BY ZenonT(60), <1>0, <1>2, <2>1, <2>2
    <3>2. IsNext(p, i, w, b, d.stream, r + 1)
      BY Zenon, <1>0, <2>3, <3>1 DEF IsNext
    <3>. QED
      BY <3>2, AddsNext
  <2>5. got = Append(b, Line(i, d.stream, r + 1)) /\ n = r + 1
    BY Zenon, <1>4 DEF r, m, GetLine
  <2>6. Adds(p, i, w, b, got) /\ Of(w \o got, i) = Under(c, <<d.stream, n + 1>>)
    BY Zenon, <1>0, <2>4, <2>5
  <2>7. r + 1 >= m => n = m
    BY <1>3, <1>4, <2>5
  <2>8. Under(c, <<d.stream, m + 1>>) = Under(c, <<d.stream + 1, 0>>)
    BY Zenon, <1>1, <1>2, UnderNext DEF m
  <2>9. n \in 0 .. m /\ n \in Nat
    BY Zenon, <2>1, <2>5
  <2>10. r + 1 >= m => Of(w \o got, i) = Under(c, <<d.stream + 1, 0>>)
    BY Zenon, <2>6, <2>7, <2>8
  <2>. QED
    BY Zenon, <2>6, <2>9, <2>10 DEF m, r, Got
<1>5. CASE ~(r < m)
  <2>1. got = b /\ n = r
    BY Zenon, <1>5 DEF m, r, GetLine
  <2>2. n = m /\ n \in 0 .. m /\ n \in Nat
    BY <1>3, <1>5, <2>1
  <2>3. Adds(p, i, w, b, b)
    BY Zenon, <1>0, AddsMore
  <2>4. Under(c, <<d.stream, m + 1>>) = Under(c, <<d.stream + 1, 0>>)
    BY Zenon, <1>1, <1>2, UnderNext DEF m
  <2>5. Of(w \o b, i) = Under(c, <<d.stream, n + 1>>)
    BY Zenon, <1>2, <2>1 DEF r
  <2>. QED
    BY Zenon, <2>1, <2>2, <2>3, <2>4, <2>5 DEF m, Got
<1>. QED
  BY Zenon, <1>4, <1>5

\* Execute of a FileStreamDumper, one call of ReadLineInFile: a line, the end of a
\* file and the title of the next, the end of the last, or a failure.
LEMMA FileReadStep ==
  ASSUME DumpInv, sink # "failed", phase = "exec", Cfg(index).class = "file",
         NEW ret \in {"DUMP_OK", "DUMP_MORE_DATA", "DUMP_FAIL"}, ReadLineInFile(ret),
         IF ret = "DUMP_FAIL" THEN SkipExecutor
         ELSE Proceed(IF ret = "DUMP_MORE_DATA" /\ ~NeedLoop(Cfg(index)) THEN "exec" ELSE "after"),
         UNCHANGED <<request, sink, written, canceled>>
  PROVE  DumpInv'
<1>. DEFINE c == Cfg(index)
            d == dumper[index]
            lines == c.content[d.stream]
            got == IF d.pos < lines THEN Append(dumpDatas, Line(index, d.stream, d.pos + 1)) ELSE dumpDatas
            n == IF d.pos < lines THEN d.pos + 1 ELSE d.pos
            step == [d EXCEPT !.pos = n, !.more = ret = "DUMP_MORE_DATA"]
<1>0. c.class = "file" /\ LineDumper(c) /\ IsDumper(c)
  BY Zenon DEF LineDumper, IsDumper
<1>1. /\ executors \in Seq(Configs) /\ index \in 0 .. Len(executors) - 1 /\ index < Len(executors)
      /\ c \in Configs /\ c = executors[index + 1] /\ d \in DumperType /\ phase \in Loop
      /\ written \in Seq(LineType) /\ dumpDatas \in Seq(LineType) /\ groupName \in Nat
      /\ UpTo(executors, written \o dumpDatas, index) /\ All = written \o dumpDatas
      /\ AtIndex(c, d, All)
  BY Zenon, Here
<1>2. Reading(c, index, d, written \o dumpDatas)
  BY Zenon, <1>0, <1>1 DEF AtIndex
<1>3. /\ d.stream \in 1 .. Len(c.content) /\ d.next = d.stream /\ d.names = Names(c) /\ d.stream \in Nat
      /\ Len(d.names) = Len(c.content) /\ Len(c.content) \in Nat /\ d.names \in Seq(Nat)
      /\ \A f \in 1 .. Len(c.content) : d.names[f] = f
  <2>1. d.stream \in 1 .. Len(c.content) /\ d.next = d.stream /\ d.names = Names(c)
    BY Zenon, <1>0, <1>2 DEF Reading
  <2>2. /\ Names(c) \in Seq(Nat) /\ Len(Names(c)) = Len(c.content)
        /\ Len(c.content) \in Nat /\ \A f \in 1 .. Len(c.content) : Names(c)[f] = f
    BY Zenon, <1>1, FreshNames
  <2>. QED
    BY <2>1, <2>2
<1>. HIDE DEF c, d
<1>4. /\ Adds(executors, index, written, dumpDatas, got)
      /\ Of(written \o got, index) = Under(c, <<d.stream, n + 1>>)
      /\ n \in 0 .. lines /\ n \in Nat
      /\ d.pos + 1 >= lines => Of(written \o got, index) = Under(c, <<d.stream + 1, 0>>)
  <2>1. GetLine(executors, index, c, d, written, dumpDatas, got, n)
    BY Zenon, <1>1, <1>2 DEF GetLine
  <2>. HIDE DEF got, n
  <2>. QED
    <3>1. Got(executors, index, c, d, written, dumpDatas, got, n)
      BY Zenon, <2>1, GotLine
    <3>. QED
      BY Zenon, <3>1 DEF Got
<1>. HIDE DEF lines, got, n
<1>5. /\ step \in DumperType /\ step.names = d.names /\ step.next = d.next /\ step.stream = d.stream
      /\ step.pos = n /\ step.more = (ret = "DUMP_MORE_DATA")
  BY Zenon, <1>1, <1>4 DEF DumperType
<1>. HIDE DEF step
<1>6. ret # "DUMP_FAIL" => /\ index' = index /\ loopStack' = loopStack /\ groupName' = groupName
                          /\ phase' = IF ret = "DUMP_MORE_DATA" /\ ~c.loop THEN "exec" ELSE "after"
  BY Zenon DEF Proceed, NeedLoop, c
<1>7. ASSUME NEW e \in DumperType, dumper' = [dumper EXCEPT ![index] = e], Faultless \/ Fault,
             groupName' = groupName
      PROVE  Kept /\ dumper'[index] = e
  <2>1. faulty \subseteq faulty' /\ groupName' \in Nat
    BY Zenon, <1>1, <1>7 DEF Faultless, Fault, failures
  <2>. QED
    BY ZenonT(60), <1>1, <1>7, <2>1, KeptBy
<1>8. ASSUME NEW e \in DumperType, dumper' = [dumper EXCEPT ![index] = e], Fault, ret = "DUMP_FAIL",
             Adds(executors, index, written, dumpDatas, dumpDatas')
      PROVE  DumpInv'
  <2>1. SkipExecutor /\ index \in faulty'
    BY Zenon, <1>8 DEF Fault
  <2>2. Kept
    BY Zenon, <1>7, <1>8, <2>1 DEF SkipExecutor
  <2>. QED
    BY Zenon, <1>0, <1>8, <2>1, <2>2, SkipsOn DEF c
<1>9. ASSUME NEW e \in DumperType, dumper' = [dumper EXCEPT ![index] = e], Faultless,
             ret = "DUMP_MORE_DATA", e.more, Reading(c, index, e, written \o dumpDatas'),
             Adds(executors, index, written, dumpDatas, dumpDatas')
      PROVE  DumpInv'
  <2>1. /\ index' = index /\ loopStack' = loopStack /\ groupName' = groupName
        /\ phase' = IF ~c.loop THEN "exec" ELSE "after"
    BY Zenon, <1>6, <1>9
  <2>2. Kept /\ dumper'[index] = e
    BY Zenon, <1>7, <1>9, <2>1
  <2>3. c.loop => Looping(c, index, e, written \o dumpDatas')
    BY Zenon, <1>9 DEF Looping
  <2>. QED
    BY Zenon, <1>0, <1>9, <2>1, <2>2, <2>3, ReadsOn DEF c
<1>10. CASE /\ ret = "DUMP_MORE_DATA" /\ dumper' = [dumper EXCEPT ![index] = step] /\ dumpDatas' = got
            /\ Faultless
  <2>1. Reading(c, index, step, written \o dumpDatas')
    <3>1. Of(written \o dumpDatas', index) = Under(c, <<step.stream, step.pos + 1>>)
      BY Zenon, <1>4, <1>5, <1>10
    <3>2. step.pos \in 0 .. c.content[step.stream]
      BY Zenon, <1>4, <1>5 DEF lines
    <3>. QED
      BY Zenon, <1>0, <1>3, <1>5, <3>1, <3>2 DEF Reading
  <2>. QED
    BY Zenon, <1>4, <1>5, <1>9, <1>10, <2>1
<1>11. CASE /\ ret = "DUMP_FAIL" /\ dumper' = [dumper EXCEPT ![index].more = FALSE] /\ UNCHANGED dumpDatas
            /\ Fault
  <2>1. [d EXCEPT !.more = FALSE] \in DumperType
    BY ZenonT(60), <1>1 DEF DumperType
  <2>2. dumper' = [dumper EXCEPT ![index] = [d EXCEPT !.more = FALSE]]
    BY Zenon, <1>11 DEF d
  <2>3. Adds(executors, index, written, dumpDatas, dumpDatas')
    BY Zenon, <1>1, <1>11, AddsMore
  <2>. QED
    BY Zenon, <1>8, <1>11, <2>1, <2>2, <2>3
<1>12. CASE /\ d.pos + 1 >= lines /\ NoMoreFiles(d) /\ ret = "DUMP_OK"
            /\ dumper' = [dumper EXCEPT ![index] = CloseFd(step)] /\ dumpDatas' = got /\ Faultless
  <2>1. CloseFd(step) \in DumperType /\ ~CloseFd(step).more
    <3>1. CloseFd(step) \in DumperType
      BY Zenon, <1>5, MembersAre
    <3>2. CloseFd(step).more = step.more
      BY Zenon, <1>5 DEF CloseFd, DumperType
    <3>. QED
      BY Zenon, <1>5, <1>12, <3>1, <3>2
  <2>2. index' = index /\ loopStack' = loopStack /\ groupName' = groupName /\ phase' = "after"
    BY Zenon, <1>6, <1>12
  <2>3. Kept /\ dumper'[index] = CloseFd(step)
    BY Zenon, <1>7, <1>12, <2>1, <2>2
  <2>4. d.stream = Len(c.content)
    BY <1>3, <1>12 DEF NoMoreFiles
  <2>5. Whole(c, index, written \o dumpDatas')
    BY Zenon, <1>0, <1>1, <1>4, <1>12, <2>4, UnderNext DEF Whole
  <2>. QED
    BY Zenon, <1>0, <1>4, <1>12, <2>1, <2>2, <2>3, <2>5, ReadsOn DEF c
<1>13. CASE /\ d.pos + 1 >= lines /\ ~NoMoreFiles(d) /\ ret = "DUMP_MORE_DATA"
            /\ dumper' = [dumper EXCEPT ![index] = OpenedNext(step)]
            /\ dumpDatas' = Append(got, FileTitle(index, step)) /\ Faultless
  <2>. DEFINE f == d.stream + 1
              e == OpenedNext(step)
  <2>1. f \in 1 .. Len(c.content) /\ d.names[f] = f /\ f \in Nat
    BY SMTT(30), <1>3, <1>13 DEF NoMoreFiles
  <2>. HIDE DEF f
  <2>2. /\ e \in DumperType /\ e.names = Names(c) /\ e.next = f /\ e.stream = f /\ e.pos = 0 /\ e.more
        /\ FileTitle(index, step) = Line(index, f, 0)
    <3>1. step.next + 1 = f /\ step.names[step.next + 1] = f /\ step.next < Len(step.names) /\ step.more
      <4>1. step.next = d.stream /\ step.names = d.names /\ step.more /\ d.stream + 1 = f
        BY ZenonT(60), <1>3, <1>5, <1>13 DEF f
      <4>2. d.stream < Len(d.names)
        BY <1>3, <1>13 DEF NoMoreFiles
      <4>. QED
        BY Zenon, <2>1, <4>1, <4>2
    <3>. QED
      BY Zenon, <1>3, <1>5, <3>1, MembersAre DEF FileTitle
  <2>. HIDE DEF e
  <2>3. <<f, 0>> \in LinesOf(c) /\ 0 \in 0 .. c.content[f]
    <3>1. c.content[f] \in Nat /\ c.class # "once"
      BY Zenon, <1>0, <1>1, <2>1, LinesAre
    <3>2. 0 \in 0 .. c.content[f]
      BY <3>1
    <3>. QED
      BY Zenon, <1>0, <1>1, <2>1, <3>1, <3>2, LinesAre
  <2>4. Of(written \o got, index) = Under(executors[index + 1], <<f, 0>>)
    BY Zenon, <1>1, <1>4, <1>13 DEF f
  <2>5. got \in Seq(LineType) /\ UpTo(executors, written \o got, index)
    BY Zenon, <1>4 DEF Adds
  <2>6. /\ Adds(executors, index, written, got, Append(got, Line(index, f, 0)))
        /\ Of(written \o Append(got, Line(index, f, 0)), index) = Under(executors[index + 1], <<f, 0 + 1>>)
    <3>1. <<f, 0>> \in LinesOf(executors[index + 1]) /\ f \in Nat /\ 0 \in Nat
      BY Zenon, <1>1, <2>1, <2>3
    <3>2. /\ executors \in Seq(Configs) /\ index \in 0 .. Len(executors) - 1 /\ written \in Seq(LineType)
          /\ got \in Seq(LineType) /\ UpTo(executors, written \o got, index)
      BY Zenon, <1>1, <2>5
    <3>3. IsNext(executors, index, written, got, f, 0)
      BY Zenon, <2>4, <3>1, <3>2 DEF IsNext
    <3>. QED
      BY <3>3, AddsNext
  <2>7. dumpDatas' = Append(got, Line(index, f, 0))
    BY Zenon, <1>13, <2>2
  <2>8. Adds(executors, index, written, dumpDatas, dumpDatas')
    BY Zenon, <1>1, <1>4, <2>6, <2>7, AddsMore
  <2>9. Reading(c, index, e, written \o dumpDatas')
    <3>1. Of(written \o dumpDatas', index) = Under(c, <<e.stream, e.pos + 1>>)
      BY Zenon, <1>1, <2>2, <2>6, <2>7
    <3>2. e.pos \in 0 .. c.content[e.stream] /\ e.stream \in 1 .. Len(c.content)
      BY Zenon, <2>1, <2>2, <2>3
    <3>. QED
      BY Zenon, <1>0, <2>2, <3>1, <3>2 DEF Reading
  <2>10. dumper' = [dumper EXCEPT ![index] = e]
    BY Zenon, <1>13 DEF e
  <2>. QED
    BY Zenon, <1>9, <1>13, <2>2, <2>8, <2>9, <2>10
<1>14. CASE /\ ret = "DUMP_FAIL" /\ dumper' = [dumper EXCEPT ![index] = CloseFd(step)] /\ dumpDatas' = got
            /\ Fault
  BY Zenon, <1>4, <1>5, <1>8, <1>14, MembersAre
<1>15. d.stream # 0
  BY <1>3
<1>. QED
  <2>1. step = [d EXCEPT !.pos = IF d.pos < lines THEN @ + 1 ELSE @, !.more = ret = "DUMP_MORE_DATA"]
    BY Zenon DEF step, n
  <2>. QED
    BY Zenon, <1>10, <1>11, <1>12, <1>13, <1>14, <1>15, <2>1 DEF ReadLineInFile, c, d, lines, got

\* Execute of a CMDDumper, one call of ReadLineInCmd: a line, the end, or a failure.
LEMMA CmdReadStep ==
  ASSUME DumpInv, sink # "failed", phase = "exec", Cfg(index).class = "cmd",
         NEW ret \in {"DUMP_OK", "DUMP_MORE_DATA", "DUMP_FAIL"}, ReadLineInCmd(ret),
         IF ret = "DUMP_FAIL" THEN SkipExecutor
         ELSE Proceed(IF ret = "DUMP_MORE_DATA" /\ ~NeedLoop(Cfg(index)) THEN "exec" ELSE "after"),
         UNCHANGED <<request, sink, written, canceled>>
  PROVE  DumpInv'
<1>. DEFINE c == Cfg(index)
            d == dumper[index]
<1>0. c.class = "cmd" /\ LineDumper(c) /\ IsDumper(c)
  BY Zenon DEF LineDumper, IsDumper
<1>1. /\ executors \in Seq(Configs) /\ index \in 0 .. Len(executors) - 1 /\ index < Len(executors)
      /\ c \in Configs /\ c = executors[index + 1] /\ d \in DumperType /\ phase \in Loop
      /\ written \in Seq(LineType) /\ dumpDatas \in Seq(LineType) /\ groupName \in Nat
      /\ UpTo(executors, written \o dumpDatas, index) /\ All = written \o dumpDatas
      /\ AtIndex(c, d, All)
  BY Zenon, Here
<1>2. Reading(c, index, d, written \o dumpDatas)
  BY Zenon, <1>0, <1>1 DEF AtIndex
<1>3. /\ Len(c.content) = 1 /\ d.stream = 1 /\ d.stream \in 1 .. Len(c.content)
      /\ d.titled /\ d.pos \in Nat /\ c.content[1] \in Nat
  <2>1. Len(c.content) = 1
    BY Zenon, <1>0, Here
  <2>2. d.stream \in 1 .. Len(c.content) /\ d.titled /\ d.pos \in Nat
    BY ZenonT(60), <1>0, <1>1, <1>2 DEF Reading, DumperType
  <2>3. \A f \in 1 .. Len(c.content) : c.content[f] \in Nat
    BY Zenon, <1>1, LinesAre
  <2>. QED
    BY <2>1, <2>2, <2>3
<1>4. ret # "DUMP_FAIL" => /\ index' = index /\ loopStack' = loopStack /\ groupName' = groupName
                          /\ phase' = IF ret = "DUMP_MORE_DATA" /\ ~c.loop THEN "exec" ELSE "after"
  BY Zenon DEF Proceed, NeedLoop
<1>. HIDE DEF c, d
<1>5. CASE /\ d.pos < c.content[1] /\ ret = "DUMP_MORE_DATA" /\ Faultless
           /\ dumper' = [dumper EXCEPT ![index].pos = @ + 1, ![index].more = TRUE]
           /\ dumpDatas' = Append(dumpDatas, Line(index, 1, d.pos + 1))
  <2>. DEFINE e == [d EXCEPT !.pos = d.pos + 1, !.more = TRUE]
  <2>1. e \in DumperType /\ e.stream = 1 /\ e.pos = d.pos + 1 /\ e.more /\ e.titled
    <3>1. d.pos + 1 \in Nat
      BY <1>3
    <3>2. e \in DumperType /\ e.stream = d.stream /\ e.pos = d.pos + 1 /\ e.more = TRUE /\ e.titled = d.titled
      BY Zenon, <1>1, <3>1 DEF DumperType
    <3>. QED
      BY Zenon, <1>3, <3>2
  <2>2. dumper' = [dumper EXCEPT ![index] = e]
    BY Zenon, <1>5 DEF d
  <2>. HIDE DEF e
  <2>3. GetLine(executors, index, c, d, written, dumpDatas, dumpDatas', d.pos + 1)
    BY Zenon, <1>1, <1>2, <1>3, <1>5 DEF GetLine
  <2>4. /\ Adds(executors, index, written, dumpDatas, dumpDatas')
        /\ Of(written \o dumpDatas', index) = Under(c, <<d.stream, (d.pos + 1) + 1>>)
        /\ d.pos + 1 \in 0 .. c.content[d.stream]
    <3>1. Got(executors, index, c, d, written, dumpDatas, dumpDatas', d.pos + 1)
      BY Zenon, <2>3, GotLine
    <3>. QED
      BY ZenonT(60), <3>1 DEF Got
  <2>5. Reading(c, index, e, written \o dumpDatas')
    <3>1. /\ e.stream \in 1 .. Len(c.content) /\ e.pos \in 0 .. c.content[e.stream] /\ e.titled
          /\ Of(written \o dumpDatas', index) = Under(c, <<e.stream, e.pos + 1>>)
      BY Zenon, <1>3, <2>1, <2>4
    <3>2. LineDumper(c) /\ c.class # "file"
      BY Zenon, <1>0
    <3>. QED
      BY Zenon, <3>1, <3>2 DEF Reading
  <2>6. /\ index' = index /\ loopStack' = loopStack /\ groupName' = groupName /\ faulty \subseteq faulty'
        /\ phase' = IF ~c.loop THEN "exec" ELSE "after"
    BY Zenon, <1>4, <1>5 DEF Faultless, failures
  <2>7. Kept /\ dumper'[index] = e
    BY Zenon, <1>1, <2>1, <2>2, <2>6, KeptBy
  <2>8. c.loop => Looping(c, index, e, written \o dumpDatas')
    BY Zenon, <2>1, <2>5 DEF Looping
  <2>. QED
    BY Zenon, <1>0, <2>4, <2>5, <2>6, <2>7, <2>8, ReadsOn DEF c
<1>6. CASE /\ d.pos >= c.content[1] /\ ret = "DUMP_OK" /\ Faultless /\ UNCHANGED dumpDatas
           /\ dumper' = [dumper EXCEPT ![index].more = FALSE]
  <2>. DEFINE e == [d EXCEPT !.more = FALSE]
  <2>1. e \in DumperType /\ ~e.more
    BY Zenon, <1>1 DEF DumperType
  <2>2. dumper' = [dumper EXCEPT ![index] = e]
    BY Zenon, <1>6 DEF d
  <2>. HIDE DEF e
  <2>3. GetLine(executors, index, c, d, written, dumpDatas, dumpDatas, d.pos)
    <3>1. ~(d.pos < c.content[d.stream])
      BY <1>3, <1>6
    <3>. QED
      BY Zenon, <1>1, <1>2, <3>1 DEF GetLine
  <2>4. /\ Adds(executors, index, written, dumpDatas, dumpDatas)
        /\ d.pos + 1 >= c.content[d.stream] =>
             Of(written \o dumpDatas, index) = Under(c, <<d.stream + 1, 0>>)
    <3>1. Got(executors, index, c, d, written, dumpDatas, dumpDatas, d.pos)
      BY Zenon, <2>3, GotLine
    <3>. QED
      BY ZenonT(60), <3>1 DEF Got
  <2>5. Whole(c, index, written \o dumpDatas')
    <3>1. d.pos + 1 >= c.content[d.stream]
      BY <1>3, <1>6
    <3>2. d.stream + 1 = Len(c.content) + 1
      BY Zenon, <1>3
    <3>3. Under(c, <<Len(c.content) + 1, 0>>) = LinesOf(c)
      BY Zenon, <1>0, <1>1, UnderNext
    <3>. QED
      BY Zenon, <1>6, <2>4, <3>1, <3>2, <3>3 DEF Whole
  <2>6. /\ index' = index /\ loopStack' = loopStack /\ groupName' = groupName /\ faulty \subseteq faulty'
        /\ phase' = "after"
    BY Zenon, <1>4, <1>6 DEF Faultless, failures
  <2>7. Kept /\ dumper'[index] = e
    BY Zenon, <1>1, <2>1, <2>2, <2>6, KeptBy
  <2>. QED
    BY Zenon, <1>0, <1>6, <2>1, <2>4, <2>5, <2>6, <2>7, ReadsOn DEF c
<1>7. CASE ret = "DUMP_FAIL" /\ Fault /\ UNCHANGED dumpDatas /\ dumper' = [dumper EXCEPT ![index].more = FALSE]
  <2>. DEFINE e == [d EXCEPT !.more = FALSE]
  <2>1. e \in DumperType /\ dumper' = [dumper EXCEPT ![index] = e]
    BY Zenon, <1>1, <1>7 DEF DumperType, d
  <2>. HIDE DEF e
  <2>2. SkipExecutor /\ index \in faulty' /\ groupName' = groupName /\ faulty \subseteq faulty'
    BY Zenon, <1>7 DEF Fault, SkipExecutor
  <2>3. Kept
    BY ZenonT(60), <1>1, <2>1, <2>2, KeptBy
  <2>4. Adds(executors, index, written, dumpDatas, dumpDatas')
    BY Zenon, <1>1, <1>7, AddsMore
  <2>. QED
    BY Zenon, <1>0, <1>7, <2>2, <2>3, <2>4, SkipsOn DEF c
<1>. QED
  <2>1. ret = EofStatus => ret = "DUMP_OK" /\ (ret = "DUMP_MORE_DATA") = FALSE
    BY Zenon DEF EofStatus
  <2>. QED
    BY Zenon, <1>5, <1>6, <1>7, <2>1 DEF ReadLineInCmd, c, d

\* Execute of both line dumpers.
LEMMA LineStep ==
  ASSUME DumpInv, sink # "failed", ExecuteLine
  PROVE  DumpInv'
<1>1. phase = "exec" /\ UNCHANGED <<request, sink, written, canceled>>
  BY Zenon DEF ExecuteLine
<1>2. PICK ret \in {"DUMP_OK", "DUMP_MORE_DATA", "DUMP_FAIL"} :
          /\ ReadLine(ret)
          /\ IF ret = "DUMP_FAIL" THEN SkipExecutor
             ELSE Proceed(IF ret = "DUMP_MORE_DATA" /\ ~NeedLoop(Cfg(index)) THEN "exec" ELSE "after")
  BY Zenon DEF ExecuteLine
<1>3. CASE Cfg(index).class = "file" /\ ReadLineInFile(ret)
  BY Zenon, <1>1, <1>2, <1>3, FileReadStep
<1>4. CASE Cfg(index).class = "cmd" /\ ReadLineInCmd(ret)
  BY Zenon, <1>1, <1>2, <1>4, CmdReadStep
<1>. QED
  BY Zenon, <1>2, <1>3, <1>4 DEF ReadLine

\* A canceled dumper stops.
LEMMA CanceledStep ==
  ASSUME DumpInv, sink # "failed", ExecuteCanceled
  PROVE  DumpInv'
<1>1. /\ phase = "exec" /\ UNCHANGED <<request, sink, canceled>> /\ written' = written /\ dumper' = dumper
      /\ dumpDatas' = dumpDatas /\ LineDumper(Cfg(index)) /\ ~Cfg(index).loop /\ canceled /\ faulty' = faulty
      /\ phase' = "after" /\ index' = index /\ loopStack' = loopStack /\ groupName' = groupName
  BY Zenon DEF ExecuteCanceled, NeedLoop, Proceed, failures
<1>2. /\ index < Len(executors) /\ phase \in Loop /\ dumper[index] \in DumperType /\ groupName \in Nat
      /\ dumpDatas \in Seq(LineType) /\ UpTo(executors, written \o dumpDatas, index)
  BY Zenon, <1>1, Here
<1>3. Kept
  BY Zenon, <1>1, <1>2, KeptBy
<1>4. Adds(executors, index, written, dumpDatas, dumpDatas')
  BY Zenon, <1>1, <1>2, AddsMore
<1>. QED
  BY Zenon, <1>1, <1>3, <1>4, ReadsOn

\* In the buffer.
LEMMA AddsOnce ==
  ASSUME NEW p, NEW i, NEW w \in Seq(LineType), NEW d \in Seq(LineType), NEW q, IsOnce(p, i, w \o d, q)
  PROVE  Adds(p, i, w, d, d \o q) /\ Of(w \o (d \o q), i) = LinesOf(p[i + 1])
<1>. DEFINE s == w \o d
<1>1. /\ q \in Seq(LineType) /\ UpTo(p, s \o q, i) /\ Of(s \o q, i) = LinesOf(p[i + 1])
      /\ \A j \in Nat \ {i} : Of(s \o q, j) = Of(s, j)
      /\ \A k \in DOMAIN q : q[k].from = i + 1
  BY OnceLines
<1>2. w \o (d \o q) = s \o q
  BY SMTT(30), <1>1, JoinAssoc
<1>3. d \o q \in Seq(LineType) /\ Len(d \o q) = Len(d) + Len(q) /\ Len(d) \in Nat /\ Len(q) \in Nat
  BY Zenon, <1>1, JoinFn, ListFn
<1>4. \A k \in 1 .. Len(q) : q[k].from = i + 1
  BY Zenon, <1>1, ListFn
<1>5. ASSUME NEW k \in DOMAIN (d \o q)
      PROVE  (d \o q)[k].from = i + 1 \/ \E m \in DOMAIN d : d[m].from = (d \o q)[k].from
  <2>1. k \in 1 .. Len(d) + Len(q) /\ DOMAIN d = 1 .. Len(d)
    BY Zenon, <1>3, ListFn
  <2>2. (d \o q)[k] = IF k <= Len(d) THEN d[k] ELSE q[k - Len(d)]
    BY Zenon, <1>1, <2>1, JoinFn
  <2>3. CASE k <= Len(d)
    BY <1>3, <2>1, <2>2, <2>3
  <2>4. CASE ~(k <= Len(d))
    <3>1. k - Len(d) \in 1 .. Len(q)
      BY <1>3, <2>1, <2>4
    <3>. QED
      BY Zenon, <1>4, <2>2, <2>4, <3>1
  <2>. QED
    BY Zenon, <2>3, <2>4
<1>. QED
  BY ZenonT(60), <1>1, <1>2, <1>3, <1>5 DEF Adds

\* Cleaned lines say the same.
Cleaned(d, e) == e = [k \in DOMAIN d |-> [d[k] EXCEPT !.clean = TRUE]]

LEMMA AddsCleaned ==
  ASSUME NEW p, NEW i, NEW w \in Seq(LineType), NEW d \in Seq(LineType), UpTo(p, w \o d, i),
         NEW e, Cleaned(d, e)
  PROVE  Adds(p, i, w, d, e) /\ Of(w \o e, i) = Of(w \o d, i)
<1>. SUFFICES ASSUME e = [k \in DOMAIN d |-> [d[k] EXCEPT !.clean = TRUE]]
              PROVE  Adds(p, i, w, d, e) /\ Of(w \o e, i) = Of(w \o d, i)
  BY Zenon DEF Cleaned
<1>1. Len(d) \in Nat /\ DOMAIN d = 1 .. Len(d) /\ Len(w) \in Nat /\ DOMAIN w = 1 .. Len(w)
  BY Zenon, ListFn
<1>2. \A k \in 1 .. Len(d) : /\ e[k] \in LineType /\ e[k].from = d[k].from /\ Said(e[k]) = Said(d[k])
  <2>1. ASSUME NEW l \in LineType
        PROVE  LET m == [l EXCEPT !.clean = TRUE]
               IN  m \in LineType /\ m.from = l.from /\ Said(m) = Said(l)
    BY Zenon DEF LineType, Said
  <2>2. \A k \in 1 .. Len(d) : d[k] \in LineType /\ e[k] = [d[k] EXCEPT !.clean = TRUE]
    BY Zenon, <1>1, EntryIn
  <2>. QED
    BY ZenonT(60), <2>1, <2>2
<1>3. e \in Seq(LineType) /\ Len(e) = Len(d) /\ DOMAIN e = DOMAIN d
  <2>1. e \in [1 .. Len(d) -> LineType] /\ DOMAIN e = DOMAIN d
    BY Zenon, <1>1, <1>2
  <2>. QED
    BY Zenon, <1>1, <2>1, FunctionIsSeq
<1>4. /\ w \o d \in Seq(LineType) /\ w \o e \in Seq(LineType)
      /\ DOMAIN (w \o d) = 1 .. Len(w) + Len(d) /\ DOMAIN (w \o e) = 1 .. Len(w) + Len(d)
      /\ \A k \in 1 .. Len(w) + Len(d) : (w \o d)[k] = IF k <= Len(w) THEN w[k] ELSE d[k - Len(w)]
      /\ \A k \in 1 .. Len(w) + Len(d) : (w \o e)[k] = IF k <= Len(w) THEN w[k] ELSE e[k - Len(w)]
  <2>1. /\ w \o d \in Seq(LineType) /\ Len(w \o d) = Len(w) + Len(d)
        /\ \A k \in 1 .. Len(w) + Len(d) : (w \o d)[k] = IF k <= Len(w) THEN w[k] ELSE d[k - Len(w)]
    BY Zenon, JoinFn
  <2>2. /\ w \o e \in Seq(LineType) /\ Len(w \o e) = Len(w) + Len(e)
        /\ \A k \in 1 .. Len(w) + Len(e) : (w \o e)[k] = IF k <= Len(w) THEN w[k] ELSE e[k - Len(w)]
    BY <1>3, JoinFn
  <2>. QED
    BY ZenonT(60), <1>3, <2>1, <2>2, ListFn
<1>5. \A k \in DOMAIN (w \o d) : /\ (w \o e)[k].from = (w \o d)[k].from
                                /\ Said((w \o e)[k]) = Said((w \o d)[k])
  <2>. SUFFICES ASSUME NEW k \in 1 .. Len(w) + Len(d)
                PROVE  (w \o e)[k].from = (w \o d)[k].from /\ Said((w \o e)[k]) = Said((w \o d)[k])
    BY Zenon, <1>4
  <2>1. CASE k <= Len(w)
    <3>1. (w \o e)[k] = w[k] /\ (w \o d)[k] = w[k]
      BY Zenon, <1>4, <2>1
    <3>. QED
      BY Zenon, <3>1
  <2>2. CASE ~(k <= Len(w))
    <3>1. k - Len(w) \in 1 .. Len(d)
      BY <1>1, <2>2
    <3>2. (w \o e)[k] = e[k - Len(w)] /\ (w \o d)[k] = d[k - Len(w)]
      BY Zenon, <1>4, <2>2
    <3>. QED
      BY Zenon, <1>2, <3>1, <3>2
  <2>. QED
    BY Zenon, <2>1, <2>2
<1>. DEFINE s == w \o d
            t == w \o e
<1>6. /\ s \in Seq(LineType) /\ t \in Seq(LineType) /\ DOMAIN t = DOMAIN s /\ UpTo(p, s, i)
      /\ \A k \in DOMAIN s : t[k].from = s[k].from /\ Said(t[k]) = Said(s[k])
  BY Zenon, <1>4, <1>5
<1>. HIDE DEF s, t
<1>7. (\A j : Of(t, j) = Of(s, j)) /\ Ordered(p, t)
  BY Zenon, <1>6, SameLines DEF UpTo
<1>8. UpTo(p, t, i)
  BY Zenon, <1>6, <1>7 DEF UpTo
<1>9. \A k \in DOMAIN e : e[k].from = d[k].from
  BY Zenon, <1>1, <1>2, <1>3
<1>. QED
  BY Zenon, <1>3, <1>7, <1>8, <1>9 DEF Adds, s, t

\* An executor that has done its work in one call.
LEMMA DoneOnce ==
  ASSUME DumpInv, sink # "failed", phase = "exec", ~LineDumper(Cfg(index)), ~IsOutput(Cfg(index)), Kept,
         dumper' = dumper, written' = written, index' = index, loopStack' = loopStack, phase' = "after",
         Adds(executors, index, written, dumpDatas, dumpDatas'),
         Whole(Cfg(index), index, written \o dumpDatas')
  PROVE  DumpInv'
<1>1. /\ index < Len(executors) /\ phase \in Loop /\ written \in Seq(LineType) /\ Pending = dumpDatas
  BY ZenonT(60), Here
<1>2. executors' = executors
  BY Zenon DEF Kept
<1>3. Pending' = dumpDatas' /\ All' = written \o dumpDatas'
  BY Zenon, <1>2 DEF Pending, All, Cfg
<1>4. ~IsDumper(Cfg(index)) => Untouched(index, dumper'[index], All')
  <2>1. ~IsDumper(Cfg(index)) => Untouched(index, dumper[index], All)
    BY Zenon, <1>1, NoDumper
  <2>. QED
    BY Zenon, <1>3, <2>1 DEF Untouched, Whole, LinesOf
<1>5. Grown
  BY Zenon, <1>1, <1>3, <1>4, AddsGrown
<1>6. AtIndex(Cfg(index), dumper[index], All)'
  BY Zenon, <1>2, <1>3 DEF AtIndex, Cfg
<1>. QED
  BY Zenon, <1>1, <1>5, <1>6, Stays

\* Execute of the executors that do their work in one call.
LEMMA OnceStep ==
  ASSUME DumpInv, sink # "failed", ExecuteOnce
  PROVE  DumpInv'
<1>1. phase = "exec" /\ UNCHANGED <<request, canceled, sink>> /\ dumper' = dumper /\ written' = written
  BY Zenon DEF ExecuteOnce
<1>2. /\ executors \in Seq(Configs) /\ index \in 0 .. Len(executors) - 1 /\ index < Len(executors)
      /\ Cfg(index) = executors[index + 1] /\ dumper[index] \in DumperType /\ phase \in Loop
      /\ written \in Seq(LineType) /\ dumpDatas \in Seq(LineType) /\ groupName \in Nat
      /\ UpTo(executors, written \o dumpDatas, index) /\ All = written \o dumpDatas
      /\ AtIndex(Cfg(index), dumper[index], All)
      /\ Cfg(index).class = "once" => Len(Cfg(index).content) = 1
  BY Zenon, <1>1, Here
<1>3. ASSUME groupName' = groupName, faulty \subseteq faulty' PROVE Kept
  BY ZenonT(60), <1>1, <1>2, <1>3, KeptBy
<1>4. ASSUME Cfg(index).class \in {"group", "once", "filter"}, Proceed("after"), Faultless,
             Adds(executors, index, written, dumpDatas, dumpDatas'),
             Whole(Cfg(index), index, written \o dumpDatas')
      PROVE  DumpInv'
  <2>1. /\ phase' = "after" /\ index' = index /\ loopStack' = loopStack /\ groupName' = groupName
        /\ faulty \subseteq faulty' /\ ~LineDumper(Cfg(index)) /\ ~IsOutput(Cfg(index))
    BY Zenon, <1>4 DEF Proceed, Faultless, failures, LineDumper, IsOutput
  <2>2. Kept
    BY Zenon, <1>3, <2>1
  <2>. QED
    BY Zenon, <1>1, <1>4, <2>1, <2>2, DoneOnce
<1>5. Adds(executors, index, written, dumpDatas, dumpDatas)
  BY Zenon, <1>2, AddsMore
<1>6. Cfg(index).class \in {"group", "filter"} => Whole(Cfg(index), index, written \o dumpDatas)
  BY Zenon, <1>2, NoDumper DEF IsDumper, LineDumper
<1>7. CASE Cfg(index).class = "group" /\ Proceed("after") /\ Faultless /\ UNCHANGED dumpDatas
  BY Zenon, <1>4, <1>5, <1>6, <1>7
<1>8. CASE /\ Cfg(index).class = "once" /\ Proceed("after") /\ Faultless
           /\ dumpDatas' = dumpDatas \o [n \in 1 .. Cfg(index).content[1] |-> Line(index, 1, n)]
  <2>. DEFINE q == [n \in 1 .. Cfg(index).content[1] |-> Line(index, 1, n)]
  <2>1. Of(All, index) = {}
    BY Zenon, <1>1, <1>2, <1>8 DEF AtIndex, LineDumper, Untouched
  <2>2. IsOnce(executors, index, written \o dumpDatas, q)
    BY Zenon, <1>2, <1>8, <2>1 DEF IsOnce
  <2>3. dumpDatas' = dumpDatas \o q
    BY Zenon, <1>8
  <2>. HIDE DEF q
  <2>4. /\ Adds(executors, index, written, dumpDatas, dumpDatas \o q)
        /\ Of(written \o (dumpDatas \o q), index) = LinesOf(executors[index + 1])
    BY Zenon, <1>2, <2>2, AddsOnce
  <2>. QED
    BY Zenon, <1>2, <1>4, <1>8, <2>3, <2>4 DEF Whole
<1>9. CASE Cfg(index).class = "once" /\ SkipExecutor /\ Fault /\ UNCHANGED dumpDatas
  <2>1. groupName' = groupName /\ faulty \subseteq faulty' /\ index \in faulty' /\ IsDumper(Cfg(index))
    BY Zenon, <1>9 DEF SkipExecutor, Fault, IsDumper
  <2>2. Kept
    BY Zenon, <1>3, <2>1
  <2>. QED
    BY Zenon, <1>1, <1>5, <1>9, <2>1, <2>2, SkipsOn
<1>10. CASE Cfg(index).class = "filter" /\ dumpDatas' = Filtered /\ Proceed("after") /\ Faultless
  <2>1. Cleaned(dumpDatas, dumpDatas')
    BY Zenon, <1>10 DEF Filtered, Cleaned
  <2>2. /\ Adds(executors, index, written, dumpDatas, dumpDatas')
        /\ Of(written \o dumpDatas', index) = Of(written \o dumpDatas, index)
    BY <1>2, <2>1, AddsCleaned
  <2>. QED
    BY Zenon, <1>4, <1>6, <1>10, <2>2 DEF Whole
<1>. QED
  BY Zenon, <1>7, <1>8, <1>9, <1>10 DEF ExecuteOnce

\* Execute of the output: the buffer is written.
LEMMA OutputStep ==
  ASSUME DumpInv, sink # "failed", ExecuteOutput
  PROVE  DumpInv'
<1>1. /\ phase = "exec" /\ UNCHANGED <<request, canceled, sink>> /\ dumper' = dumper
      /\ written' = written \o dumpDatas /\ dumpDatas' = dumpDatas /\ faulty' = faulty
      /\ phase' = "after" /\ index' = index /\ loopStack' = loopStack /\ groupName' = groupName
      /\ Cfg(index).class = "output" /\ executors' = executors
  BY Zenon DEF ExecuteOutput, Proceed, failures, request
<1>2. /\ index < Len(executors) /\ phase \in Loop /\ dumper[index] \in DumperType
      /\ written \in Seq(LineType) /\ dumpDatas \in Seq(LineType) /\ groupName \in Nat
      /\ All = written \o dumpDatas
  BY Zenon, <1>1, Here
<1>3. IsOutput(Cfg(index)) /\ ~IsDumper(Cfg(index)) /\ ~LineDumper(Cfg(index))
  BY Zenon, <1>1 DEF IsOutput, IsDumper, LineDumper
<1>4. Pending' = <<>>
  BY Zenon, <1>1, <1>3 DEF Pending, Cfg
<1>5. written \o dumpDatas \in Seq(LineType)
  BY Zenon, <1>2, JoinFn
<1>6. All' = All
  <2>1. (written \o dumpDatas) \o <<>> = written \o dumpDatas
    BY Zenon, <1>5, JoinEmpty
  <2>. QED
    BY Zenon, <1>1, <1>2, <1>4, <2>1 DEF All
<1>7. Kept
  BY Zenon, <1>1, <1>2, KeptBy
<1>8. Grown
  BY Zenon, <1>1, <1>2, <1>4, <1>5, <1>6, <1>7, SameGrown
<1>9. Whole(Cfg(index), index, All)
  BY Zenon, <1>2, <1>3, NoDumper
<1>10. AtIndex(Cfg(index), dumper[index], All)'
  BY Zenon, <1>1, <1>3, <1>6, <1>9 DEF AtIndex, Cfg
<1>. QED
  BY Zenon, <1>1, <1>2, <1>8, <1>10, Stays

\* AfterExecute: on to the next executor, which a dumper with more data is noted
\* for, or back to that dumper.
LEMMA AfterStep ==
  ASSUME DumpInv, sink # "failed", AfterExecute
  PROVE  DumpInv'
<1>. DEFINE c == Cfg(index)
            d == dumper[index]
            ret == IF LineDumper(c) /\ d.more THEN "DUMP_MORE_DATA" ELSE "DUMP_OK"
<1>0. /\ phase = "after" /\ phase \in Loop /\ phase' = "head" /\ UNCHANGED <<request, canceled, sink>>
      /\ groupName' = groupName /\ written' = written /\ faulty' = faulty
      /\ dumper' = IF LineDumper(c) THEN [dumper EXCEPT ![index] = AfterDumper(@)] ELSE dumper
      /\ dumpDatas' = BufferAfter(c)
      /\ index' = NextIndex(IF Boundary(c) THEN LoopBack ELSE index)
      /\ loopStack' = StackAfter(c, ret)
  BY Zenon DEF AfterExecute, Loop, failures
<1>1. /\ Len(executors) \in Nat /\ index \in 0 .. Len(executors) /\ LoopInv(All) /\ executors \in Pipelines
      /\ written \in Seq(LineType) /\ dumpDatas \in Seq(LineType) /\ groupName \in Nat
  BY Zenon, <1>0, Current DEF DumpInv
<1>2. index < Len(executors) /\ dumper \in [Indices -> DumperType]
  BY Zenon, <1>0, <1>1 DEF LoopInv
<1>3. index \in Indices /\ index \in Nat /\ d \in DumperType /\ AtIndex(c, d, All)
  BY Zenon, <1>0, <1>2, Current
<1>4. \/ LineDumper(c) /\ Looping(c, index, d, All)
      \/ ~(LineDumper(c) /\ c.loop /\ d.more) /\ (canceled \/ Whole(c, index, All))
  BY Zenon, <1>0, <1>3 DEF AtIndex
<1>5. index \in 0 .. SIZE_LIMIT - 2 /\ Len(executors) < SIZE_LIMIT /\ SIZE_LIMIT \in Nat
  BY <1>1, <1>2, ListShape
<1>6. NextIndex(index) = index + 1
  BY Zenon, <1>5, Wraps
<1>. HIDE DEF c, d, ret
<1>7. IsOutput(c) => Pending' = <<>>
  BY Zenon, <1>0 DEF Pending, BufferAfter
<1>8. Pending' = Pending /\ dumpDatas' \in Seq(LineType)
  <2>1. Pending = IF IsOutput(c) THEN <<>> ELSE dumpDatas
    BY Zenon, <1>0 DEF Pending, c
  <2>2. Pending' = dumpDatas'
    BY Zenon, <1>0 DEF Pending
  <2>. QED
    BY Zenon, <1>0, <1>1, <2>1, <2>2, EmptyList DEF BufferAfter
<1>9. All' = All
  BY Zenon, <1>0, <1>8 DEF All
<1>10. Kept /\ (d.more => dumper'[index] = d) /\ (~IsDumper(c) => dumper'[index] = d)
  <2>1. CASE LineDumper(c)
    <3>1. AfterDumper(d) \in DumperType
      BY Zenon, <1>3, MembersAre DEF AfterDumper
    <3>2. dumper' = [dumper EXCEPT ![index] = AfterDumper(d)]
      BY Zenon, <1>0, <2>1 DEF d
    <3>3. Kept /\ dumper'[index] = AfterDumper(d)
      BY Zenon, <1>0, <1>1, <1>2, <3>1, <3>2, KeptBy
    <3>. QED
      BY Zenon, <2>1, <3>3 DEF AfterDumper, IsDumper
  <2>2. CASE ~LineDumper(c)
    BY Zenon, <1>0, <1>1, <1>2, <1>3, <2>2, KeptBy DEF d
  <2>. QED
    BY Zenon, <2>1, <2>2
<1>11. Grown
  BY ZenonT(60), <1>0, <1>1, <1>2, <1>8, <1>9, <1>10, SameGrown DEF c, d
<1>12. CASE Boundary(c) /\ loopStack = <<>>
  <2>1. index' = index + 1 /\ loopStack' = <<>>
    BY Zenon, <1>0, <1>6, <1>12 DEF LoopBack, StackAfter
  <2>2. Whole(c, index, All')
    BY Zenon, <1>0, <1>2, <1>9, <1>12, NoDumper DEF c, Boundary, IsOutput, IsGroup, IsDumper, LineDumper
  <2>. QED
    BY ZenonT(60), <1>0, <1>2, <1>7, <1>11, <1>12, <2>1, <2>2, Advances DEF c
<1>13. CASE Boundary(c) /\ loopStack # <<>>
  <2>1. PICK t \in 0 .. index - 1 : loopStack = <<t>>
    BY Zenon, <1>0, <1>2, <1>13, StackTop
  <2>2. t \in 0 .. SIZE_LIMIT - 2
    BY <1>5, <2>1
  <2>3. LoopBack = (t + SIZE_LIMIT - 1) % SIZE_LIMIT
    <3>1. Len(loopStack) = 1 /\ loopStack[1] = t
      BY Zenon, <2>1
    <3>. QED
      BY Zenon, <1>13, <3>1 DEF LoopBack
  <2>4. NextIndex(LoopBack) = t
    BY Zenon, <2>2, <2>3, Wraps
  <2>5. index' = t /\ loopStack' = <<>>
    BY Zenon, <1>0, <1>13, <2>4 DEF StackAfter
  <2>. QED
    BY Zenon, <1>0, <1>2, <1>11, <1>13, <2>1, <2>5, Returns DEF c
<1>14. CASE ~Boundary(c) /\ LineDumper(c) /\ Looping(c, index, d, All)
  <2>1. IsDumper(c) /\ c.loop /\ d.more
    BY Zenon, <1>14 DEF IsDumper, Looping
  <2>2. loopStack = <<>>
    <3>1. loopStack # <<>> => ~IsDumper(Cfg(index))
      <4>1. \A t \in 0 .. index - 1 : index \in t + 1 .. index
        BY <1>3
      <4>. QED
        BY Zenon, <1>0, <1>2, <4>1, StackTop
    <3>. QED
      BY Zenon, <2>1, <3>1 DEF c
  <2>3. index' = index + 1 /\ loopStack' = <<index>>
    BY <1>0, <1>6, <1>14, <2>1, <2>2 DEF StackAfter, ret
  <2>4. Looping(c, index, dumper'[index], All')
    BY Zenon, <1>9, <1>10, <1>14, <2>1
  <2>. QED
    BY ZenonT(60), <1>0, <1>2, <1>7, <1>11, <2>2, <2>3, <2>4, Advances DEF c
<1>15. CASE ~Boundary(c) /\ ~(LineDumper(c) /\ c.loop /\ d.more) /\ (canceled \/ Whole(c, index, All))
  <2>1. index' = index + 1 /\ loopStack' = loopStack
    BY Zenon, <1>0, <1>6, <1>15 DEF StackAfter, ret
  <2>2. canceled \/ Whole(c, index, All')
    BY Zenon, <1>9, <1>15
  <2>. QED
    BY ZenonT(60), <1>0, <1>2, <1>7, <1>11, <1>15, <2>1, <2>2, Advances DEF c
<1>. QED
  BY Zenon, <1>4, <1>12, <1>13, <1>14, <1>15

\* The lines of an executor in two sequences.
LEMMA OfConcat ==
  ASSUME NEW w \in Seq(LineType), NEW d \in Seq(LineType), NEW i
  PROVE  Of(w \o d, i) = Of(w, i) \cup Of(d, i)
<1>1. /\ Len(w) \in Nat /\ Len(d) \in Nat /\ DOMAIN w = 1 .. Len(w) /\ DOMAIN d = 1 .. Len(d)
  BY Zenon, ListFn
<1>2. /\ DOMAIN (w \o d) = 1 .. Len(w) + Len(d)
      /\ \A k \in 1 .. Len(w) + Len(d) : (w \o d)[k] = IF k <= Len(w) THEN w[k] ELSE d[k - Len(w)]
  BY JoinFn, ListFn
<1>3. ASSUME NEW k \in DOMAIN (w \o d)
      PROVE  \/ \E j \in DOMAIN w : (w \o d)[k] = w[j]
             \/ \E j \in DOMAIN d : (w \o d)[k] = d[j]
  <2>1. CASE k <= Len(w)
    BY <1>1, <1>2, <2>1
  <2>2. CASE ~(k <= Len(w))
    <3>1. k - Len(w) \in 1 .. Len(d) /\ (w \o d)[k] = d[k - Len(w)]
      BY <1>1, <1>2, <2>2
    <3>. QED
      BY Zenon, <1>1, <3>1
  <2>. QED
    BY Zenon, <2>1, <2>2
<1>4. \A j \in DOMAIN w : \E k \in DOMAIN (w \o d) : (w \o d)[k] = w[j]
  <2>1. \A j \in 1 .. Len(w) : j \in 1 .. Len(w) + Len(d) /\ j <= Len(w)
    BY <1>1
  <2>. QED
    BY Zenon, <1>1, <1>2, <2>1
<1>5. ASSUME NEW j \in DOMAIN d PROVE \E k \in DOMAIN (w \o d) : (w \o d)[k] = d[j]
  <2>1. Len(w) + j \in 1 .. Len(w) + Len(d) /\ ~(Len(w) + j <= Len(w)) /\ (Len(w) + j) - Len(w) = j
    BY <1>1
  <2>2. (w \o d)[Len(w) + j] = d[j]
    BY Zenon, <1>2, <2>1
  <2>. QED
    BY Zenon, <1>2, <2>1, <2>2
<1>. DEFINE t == w \o d
<1>. HIDE DEF t
<1>6. \A s, x : x \in Of(s, i) <=> \E k \in DOMAIN s : s[k].from = i + 1 /\ x = Said(s[k])
  BY Zenon DEF Of
<1>7. ASSUME NEW x \in Of(t, i) PROVE x \in Of(w, i) \cup Of(d, i)
  <2>1. PICK k \in DOMAIN t : t[k].from = i + 1 /\ x = Said(t[k])
    BY Zenon, <1>6, <1>7
  <2>2. (\E j \in DOMAIN w : t[k] = w[j]) \/ (\E j \in DOMAIN d : t[k] = d[j])
    BY Zenon, <1>3, <2>1 DEF t
  <2>. QED
    BY Zenon, <1>6, <2>1, <2>2
<1>8. ASSUME NEW x \in Of(w, i) \cup Of(d, i) PROVE x \in Of(t, i)
  <2>1. \E l : l.from = i + 1 /\ x = Said(l) /\ \E k \in DOMAIN t : t[k] = l
    BY <1>4, <1>5, <1>6, <1>8 DEF t
  <2>. QED
    BY Zenon, <1>6, <2>1
<1>. QED
  BY Zenon, <1>7, <1>8 DEF t

\* At the end of the list nothing is left to come back to, and every line of a
\* dumper has been written.
LEMMA AllWritten ==
  ASSUME DumpInv, sink # "failed", phase = "head", index >= Len(executors)
  PROVE  EndInv
<1>. SUFFICES ASSUME ~canceled, NEW i \in Indices \ faulty PROVE Of(written, i) = LinesOf(Cfg(i))
  BY Zenon DEF EndInv
<1>1. /\ Len(executors) \in Nat /\ index \in 0 .. Len(executors) /\ LoopInv(All) /\ executors \in Pipelines
      /\ written \in Seq(LineType) /\ Pending \in Seq(LineType)
  BY Zenon, Current DEF DumpInv, Loop
<1>2. index = Len(executors) /\ i \in 0 .. Len(executors) - 1 /\ i \in 0 .. index - 1 /\ i \in Nat
  BY <1>1 DEF Indices
<1>3. Of(All, i) = Of(written, i) \cup Of(Pending, i)
  BY <1>1, OfConcat DEF All
<1>4. ASSUME NEW t \in 0 .. Len(executors) - 1, IsDumper(Cfg(t))
      PROVE  \E j \in t + 1 .. index - 1 : IsOutput(Cfg(j))
  BY Zenon, <1>1, <1>2, <1>4, ListShape DEF Cfg
<1>5. loopStack = <<>>
  <2>1. ASSUME NEW t \in 0 .. index - 1, Looping(Cfg(t), t, dumper[t], All),
               \A b \in t + 1 .. index - 1 : ~Boundary(Cfg(b))
        PROVE  FALSE
    <3>1. IsDumper(Cfg(t)) /\ t \in 0 .. Len(executors) - 1
      BY Zenon, <1>2, <2>1 DEF Looping, Reading, IsDumper
    <3>2. PICK j \in t + 1 .. index - 1 : IsOutput(Cfg(j))
      BY Zenon, <1>4, <3>1
    <3>. QED
      BY Zenon, <2>1, <3>2 DEF Boundary
  <2>. QED
    BY Zenon, <1>1, <2>1 DEF LoopInv, StackInv
<1>6. Of(All, i) = LinesOf(Cfg(i))
  <2>1. loopStack # <<i>>
    BY Zenon, <1>5
  <2>. QED
    BY Zenon, <1>1, <1>2, <2>1 DEF LoopInv, Whole
<1>7. CASE IsDumper(Cfg(i))
  <2>1. PICK j \in i + 1 .. index - 1 : IsOutput(Cfg(j))
    BY Zenon, <1>2, <1>4, <1>7
  <2>2. \A k \in DOMAIN Pending : Pending[k].from # i + 1
    <3>1. \A k \in DOMAIN Pending : Pending[k].from # 0 =>
             \A b \in Pending[k].from .. index - 1 : ~IsOutput(Cfg(b))
      BY Zenon, <1>1 DEF LoopInv
    <3>2. i + 1 # 0
      BY <1>2
    <3>. QED
      BY Zenon, <2>1, <3>1, <3>2
  <2>3. Of(Pending, i) = {}
    BY Zenon, <2>2 DEF Of
  <2>. QED
    BY Zenon, <1>3, <1>6, <2>3
<1>8. CASE ~IsDumper(Cfg(i))
  BY Zenon, <1>3, <1>6, <1>8 DEF LinesOf
<1>. QED
  BY Zenon, <1>7, <1>8

\* The loop ends, at the end of the list or because the request was canceled.
LEMMA EndStep ==
  ASSUME DumpInv, sink # "failed", LoopEnd \/ LoopCanceled
  PROVE  DumpInv'
<1>1. /\ phase = "head" /\ phase' = "reset"
      /\ executors' = executors /\ isZip' = isZip /\ canceled' = canceled /\ sink' = sink /\ faulty' = faulty
      /\ written' = written /\ dumpDatas' = dumpDatas /\ groupName' = groupName
      /\ index >= Len(executors) \/ canceled
  BY Zenon DEF LoopEnd, LoopCanceled, request, failures
<1>2. EndInv
  BY Zenon, <1>1, AllWritten DEF EndInv
<1>3. EndInv'
  BY Zenon, <1>1, <1>2 DEF EndInv, Indices, Cfg
<1>4. Pending' = Pending /\ All' = All
  BY Zenon, <1>1 DEF Pending, All
<1>. QED
  BY Zenon, <1>1, <1>3, <1>4 DEF DumpInv, Loop

\* The reset of the executors and the packing.
LEMMA ResetStep ==
  ASSUME DumpInv, sink # "failed", ResetPlain \/ ZipFolderOpen \/ FlushItem \/ CloseArchive \/ Finish
  PROVE  DumpInv'
<1>1. /\ phase \in {"reset", "pack", "finish"} /\ phase' \in {"pack", "finish", "done"}
      /\ executors' = executors /\ isZip' = isZip /\ canceled' = canceled /\ sink' = sink /\ faulty' = faulty
      /\ written' = written /\ dumpDatas' = dumpDatas /\ groupName' = groupName
  BY Zenon DEF ResetPlain, ZipFolderOpen, FlushItem, CloseArchive, Finish, Proceed, Faultless, PackFault, request, failures
<1>2. EndInv
  BY Zenon, <1>1 DEF DumpInv, Loop
<1>3. EndInv'
  BY Zenon, <1>1, <1>2 DEF EndInv, Indices, Cfg
<1>4. Pending' = Pending /\ All' = All
  BY Zenon, <1>1 DEF Pending, All
<1>. QED
  BY Zenon, <1>1, <1>3, <1>4 DEF DumpInv, Loop

\* CancelAllRequest takes nothing away from the lines.
LEMMA CancelStep ==
  ASSUME DumpInv, sink # "failed", Cancel
  PROVE  DumpInv'
<1>1. /\ canceled' = TRUE /\ executors' = executors /\ isZip' = isZip /\ sink' = sink /\ faulty' = faulty
      /\ written' = written /\ dumpDatas' = dumpDatas /\ groupName' = groupName /\ dumper' = dumper
      /\ phase' = phase /\ index' = index /\ loopStack' = loopStack
  BY Zenon DEF Cancel, request, control, failures
<1>2. Pending' = Pending /\ All' = All /\ Indices' = Indices /\ \A i : Cfg(i)' = Cfg(i)
  BY Zenon, <1>1 DEF Pending, All, Indices, Cfg
<1>3. LoopInv(All) => LoopInv(All)'
  <2>1. StackInv(All) => StackInv(All)'
    BY Zenon, <1>1, <1>2 DEF StackInv
  <2>2. index < Len(executors) /\ AtIndex(Cfg(index), dumper[index], All) => AtIndex(Cfg(index), dumper[index], All)'
    BY Zenon, <1>1, <1>2 DEF AtIndex, Cfg
  <2>. QED
    BY Zenon, <1>1, <1>2, <2>1, <2>2 DEF LoopInv
<1>4. EndInv'
  BY Zenon, <1>1 DEF EndInv
<1>. QED
  BY Zenon, <1>1, <1>2, <1>3, <1>4 DEF DumpInv

\* What every step keeps, also when the output has failed.
LEMMA AlwaysKept ==
  ASSUME DumpInv, Next
  PROVE  /\ isZip' \in BOOLEAN /\ canceled' \in BOOLEAN /\ executors' \in Pipelines
         /\ sink' = "failed" => isZip'
         /\ phase' \in Loop \cup {"reset", "pack", "finish", "done"}
         /\ sink = "failed" => sink' = "failed"
<1>. USE DEF DumpInv, Loop, request, control, Proceed, SkipExecutor
<1>1. CASE LoopEnd \/ LoopCanceled \/ LoopEnter
  BY Zenon, <1>1 DEF LoopEnd, LoopCanceled, LoopEnter
<1>2. CASE PreExecute
  <2>1. /\ executors' = executors /\ isZip' = isZip /\ canceled' = canceled
    BY Zenon, <1>2 DEF PreExecute
  <2>2. CASE OutputPreExecute
    BY Zenon, <2>1, <2>2 DEF OutputPreExecute
  <2>3. CASE (FilePreExecute \/ CmdPreExecute \/ SimplePreExecute) /\ UNCHANGED <<sink, title>>
    <3>1. phase' \in {"exec", "head"}
      BY Zenon, <2>3 DEF FilePreExecute, CmdPreExecute, SimplePreExecute
    <3>. QED
      BY Zenon, <2>1, <2>3, <3>1
  <2>. QED
    BY Zenon, <1>2, <2>2, <2>3 DEF PreExecute
<1>3. CASE ExecuteLine
  BY Zenon, <1>3 DEF ExecuteLine
<1>4. CASE ExecuteCanceled \/ ExecuteOnce \/ ExecuteOutput
  BY Zenon, <1>4 DEF ExecuteCanceled, ExecuteOnce, ExecuteOutput
<1>5. CASE AfterExecute
  BY ZenonT(60), <1>5 DEF AfterExecute
<1>6. CASE ResetPlain \/ ZipFolderOpen \/ FlushItem \/ CloseArchive \/ Finish
  BY Zenon, <1>6 DEF ResetPlain, ZipFolderOpen, FlushItem, CloseArchive, Finish
<1>7. CASE Cancel
  BY Zenon, <1>7 DEF Cancel
<1>8. CASE Done
  BY Zenon, <1>8 DEF Done, vars
<1>. QED
  BY Zenon, <1>1, <1>2, <1>3, <1>4, <1>5, <1>6, <1>7, <1>8 DEF Next, Step

\* The step lemma.
LEMMA DumpStep == DumpInv /\ [Next]_vars => DumpInv'
<1>. SUFFICES ASSUME DumpInv, [Next]_vars PROVE DumpInv'
  BY Zenon
<1>1. CASE UNCHANGED vars
  <2>1. /\ canceled' = canceled /\ executors' = executors /\ isZip' = isZip /\ sink' = sink /\ faulty' = faulty
        /\ written' = written /\ dumpDatas' = dumpDatas /\ groupName' = groupName /\ dumper' = dumper
        /\ phase' = phase /\ index' = index /\ loopStack' = loopStack
    BY Zenon, <1>1 DEF vars, request, control, failures
  <2>2. Pending' = Pending /\ All' = All /\ Indices' = Indices /\ \A i : Cfg(i)' = Cfg(i)
    BY Zenon, <2>1 DEF Pending, All, Indices, Cfg
  <2>3. LoopInv(All) => LoopInv(All)'
    BY Zenon, <2>1, <2>2 DEF LoopInv, StackInv, AtIndex, Cfg
  <2>4. EndInv => EndInv'
    BY Zenon, <2>1, <2>2 DEF EndInv
  <2>. QED
    BY Zenon, <2>1, <2>2, <2>3, <2>4 DEF DumpInv
<1>2. CASE Next /\ sink' = "failed"
  BY Zenon, <1>2, AlwaysKept DEF DumpInv
<1>3. CASE Next /\ sink' # "failed"
  <2>1. sink # "failed"
    BY Zenon, <1>3, AlwaysKept
  <2>2. CASE Done
    BY Zenon, <1>1, <2>2 DEF Done
  <2>. QED
    BY Zenon, <1>3, <2>1, <2>2, EndStep, EnterStep, PreStep, LineStep, CanceledStep, OnceStep, OutputStep,
       AfterStep, ResetStep, CancelStep DEF Next, Step
<1>. QED
  BY Zenon, <1>1, <1>2, <1>3

\* For every list of executors, all contents and all failures: what is written and
\* what waits in the buffer goes from dumper to dumper in the order of the list and
\* has of each the beginning of its lines, without a gap or a repetition, across
\* the turns of LOOP dumpers, cancels and failures (DumpImplement::DumpDatas).
THEOREM LinesTheorem == Spec => []LinesInOrder
<1>1. DumpInv => LinesInOrder
  BY Zenon DEF DumpInv, LinesInOrder, All
<1>. QED
  BY DumpInit, DumpStep, <1>1, PTL DEF Spec

\* For every list of executors, all contents and all failures: when DumpDatas
\* returns without a cancel and with a working output, every dumper that met no
\* failing call is written whole, whichever others failed (the continue statements
\* of DumpDatas and the way back to a LOOP dumper).
THEOREM LocalTheorem == Spec => []FailureIsLocal
<1>1. DumpInv => FailureIsLocal
  BY Zenon DEF DumpInv, FailureIsLocal, EndInv, Loop
<1>. QED
  BY DumpInit, DumpStep, <1>1, PTL DEF Spec
=============================================================================
