--------------------------- MODULE MCTaskControl ----------------------------
(***************************************************************************)
(* Two requests of TaskControl for TLC.  w1, w2 and w4 are roots.  In the  *)
(* chain d1, d2, w2 the data of d1 is read two levels later; the dump task *)
(* off is disabled in the configuration, and gone is not registered.       *)
(***************************************************************************)
EXTENDS TaskControl, TLC

CONSTANTS r1, r2, d1, d2, off, gone, w1, w2, w4

Chain  == d1 :> {} @@ d2 :> {d1, off} @@ w1 :> {d1} @@ w2 :> {d2} @@ w4 :> {gone}
Reads  == d1 :> {} @@ d2 :> {} @@ w1 :> {"one"} @@ w2 :> {"one", "two"} @@ w4 :> {"one"}
Writes == d1 :> {"one"} @@ d2 :> {"two"} @@ w1 :> {} @@ w2 :> {} @@ w4 :> {}

\* The first request asks for two roots, a root twice, a root with a dependency
\* nobody registered, or an id that is no root; the second shares d1 and w1.
Lists == r1 :> {<<w2, w1>>, <<w1, w1>>, <<w4>>, <<d1>>} @@ r2 :> {<<w1>>}
=============================================================================
