----------------------------- MODULE MCKeystream -----------------------------
(* Instances of Keystream for TLC: two peers, as in the documentation of    *)
(* `box_`, that count in steps of two.                                      *)
EXTENDS Keystream, TLC

CONSTANTS alice, bob

MCLane == (alice :> 0) @@ (bob :> 1)
=============================================================================
