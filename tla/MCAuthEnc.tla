------------------------------ MODULE MCAuthEnc ------------------------------
(* Instances of AuthEnc for TLC.                                            *)
EXTENDS AuthEnc, TLC

CONSTANTS b1, b2, m0, m1, n1, a0, a1, k1, alice, bob, weak, e1, e2

\* An empty and an ordinary message.
MCLen    == (m0 :> 0) @@ (m1 :> 1)

Secret     == {"secretbox", "aead", k1}
Public     == {"box", "pre", alice, weak}

\* Two programs that work in place, and one that sends ciphertexts between two
\* people.
MCPrograms ==
  {{"detached", m1, a0, a1} \cup Secret,
   {"detached", m1} \cup Public,
   {"attached", "sealedbox", m0, m1, a0, a1, bob} \cup Secret \cup Public}

\* Programs that use one module.
OnlyBox    == {{"detached", "box", m1, alice, weak}}
OnlyAead   == {{"detached", "aead", m1, a0, a1, k1}}

Symmetric  == Permutations({b1, b2}) \cup Permutations({e1, e2})
=============================================================================
