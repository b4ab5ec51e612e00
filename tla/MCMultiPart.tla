----------------------------- MODULE MCMultiPart -----------------------------
(* Instances of MultiPart for TLC.                                          *)
EXTENDS MultiPart, TLC

CONSTANTS s1, s2, a, b, k1, k2, k3

\* Nothing, single bytes, and the same bytes in one piece.
MCChunks  == {<< >>, <<a>>, <<b>>, <<a, b>>}

\* An empty key, one that fits, and one that is too long for `generichash`.
MCKeyLen  == (k1 :> 0) @@ (k2 :> 2) @@ (k3 :> 5)

MCKeyLenTwo == (k1 :> 1) @@ (k2 :> 2)

\* The program's two variables are interchangeable.
Symmetric == Permutations({s1, s2})
=============================================================================
