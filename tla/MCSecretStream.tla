--------------------------- MODULE MCSecretStream ---------------------------
(***************************************************************************)
(* Instances of SecretStream for TLC: a message is a length class, and the *)
(* lengths 1 and 2 stand for ABYTES and messagebytes_max().                *)
(***************************************************************************)
EXTENDS SecretStream, TLC

CONSTANTS m0, m1, big, a0, a1, h1, h2, k1, k2

\* An empty, an ordinary and an oversized message.
MCLen     == (m0 :> 0) @@ (m1 :> 2) @@ (big :> 3)

\* Lengths on both sides of the bounds of pull_check.
MCGarbage == {0, ABYTES, ABYTES + MESSAGEBYTES_MAX + 1}

Failures  == {"init_push", "push", "init_pull"}

\* One stream with all tags, rekeys and tag bytes of other peers; one with all
\* lengths and additional data; two streams between which the puller changes.
MCPrograms ==
  {{h1, k1, k2, m0, a0, "rekey", "foreign"} \cup Tags \cup Failures,
   {h1, k1, m0, m1, big, a0, a1, "Message", "Rekey", "Final"} \cup Failures,
   {h1, h2, k1, k2, m0, a0, "Message", "Final", "restart", "push"}}
=============================================================================
