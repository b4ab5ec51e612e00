----------------------------- MODULE MCEncodings -----------------------------
(* The instance of Encodings that TLC checks: crumbs of one bit, bytes of  *)
(* four.                                                                   *)
EXTENDS Encodings

\* Digits, both forms of the last one, padding, and a character of no alphabet.
MCChars   == {Char(0, FALSE), Char(1, FALSE), Char(3, TRUE), Char(7, FALSE), Char(7, TRUE),
              Equals, Other}
MCForeign == UNION {[1..n -> MCChars] : n \in 0..4}
=============================================================================
