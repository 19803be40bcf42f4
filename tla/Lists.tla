------------------------------- MODULE Lists -------------------------------
(***************************************************************************)
(* The operators of SequencesExt that the dumpers need.  A proof obligation *)
(* carries every definition in reach; with the whole of that module each    *)
(* one of the dumpers takes the prover ten times as long.                   *)
(***************************************************************************)
EXTENDS Integers, Sequences, FiniteSets, FiniteSetsExt

Last(s) == s[Len(s)]

\* The sequences that have each element of S once, and one of them.
SetToSeqs(S) == Bijection(1 .. Cardinality(S), S)
SetToSeq(S) == CHOOSE s \in SetToSeqs(S) : TRUE

\* The first place that passes the test, or 0.
SelectInSeq(s, Test(_)) ==
    LET passes == {i \in DOMAIN s : Test(s[i])}
    IN IF passes = {} THEN 0 ELSE Min(passes)

\* op(... op(op(base, s[1]), s[2]) ..., s[n]).
FoldLeft(op(_, _), base, s) ==
    LET swap(x, acc) == op(acc, x)
        at(i) == s[i]
    IN MapThenFoldSet(swap, base, at, Max, DOMAIN s)

\* The elements among the first ones that are in K, in their order; for all of
\* them SelectSeq, whose definition the proof system does not expand.
KeptUpTo(s, K) ==
    LET kept[i \in 0..Len(s)] ==
            IF i = 0 THEN <<>>
            ELSE IF s[i] \in K THEN Append(kept[i - 1], s[i]) ELSE kept[i - 1]
    IN kept

Kept(s, K) == KeptUpTo(s, K)[Len(s)]

FlattenSeq(lists) == FoldLeft(\o, <<>>, lists)
=============================================================================
