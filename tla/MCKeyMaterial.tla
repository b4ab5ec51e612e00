---------------------------- MODULE MCKeyMaterial ----------------------------
(* The instance of KeyMaterial that TLC checks.                              *)
EXTENDS KeyMaterial, TLC

CONSTANTS s1, s2, s3, s4, r1, r2

MCSlots  == {s1, s2, s3, s4}
MCPageOf == (s1 :> "p") @@ (s2 :> "p") @@ (s3 :> "q") @@ (s4 :> "q")
MCPrograms == {{"copies", "mlock"}, {"kx"}, {"kx", "memzero"}, {"kdf", "memzero"},
               {"box", "sign"}, {"box", "scalarmult"}, {"box", "pwhash"}}

\* One program has room for the secret keys of client and server beside the
\* keys of a session.
MCSlotsOf == [u \in MCPrograms |-> IF u = {"kx"} THEN MCSlots ELSE {s1, s2, s3}]

\* Two slots of a page are interchangeable, and so are the draws.
Symmetric == {f @@ g : f \in Permutations({s1, s2}), g \in Permutations({r1, r2})}
=============================================================================
