------------------------------ MODULE Encodings ------------------------------
(***************************************************************************)
(* Bytes on their way out of the program and back: `padding`, `hex`,       *)
(* `base64`, the serde implementations and `from_slice` of the newtypes,   *)
(* and the comparisons of newtypes and digests.  A program pads messages   *)
(* in one buffer, again and again, turns bytes into text, and reads texts  *)
(* that anyone may have written.                                           *)
(*                                                                         *)
(* A byte is four crumbs, a hexadecimal digit two and a Base64 digit three *)
(* (a crumb is two bits in the program), and usize ends before USIZE.      *)
(* libsodium's loops are external; they are given by what they compute.    *)
(* LengthsFit, about all lengths, has no states and is proved in           *)
(* EncodingsProofs.                                                        *)
(***************************************************************************)
EXTENDS Integers, Sequences, FiniteSets

CONSTANTS
  CRUMB,        \* number of values of a crumb
  USIZE,
  CAP,          \* length of the program's buffer
  BlockSizes,
  Sample,       \* bytes that messages and keys are made of
  MaxMsg,       \* bound on the length of messages and keys
  Foreign,      \* texts that the program is given
  MaxPads       \* bound on nested paddings

\* The number of values of w crumbs.
Values(w) == CASE w = 0 -> 1
               [] w = 1 -> CRUMB
               [] w = 2 -> CRUMB * CRUMB
               [] w = 3 -> CRUMB * CRUMB * CRUMB
               [] w = 4 -> CRUMB * CRUMB * CRUMB * CRUMB

HEXIT  == Values(2)
SEXTET == Values(3)
BYTE   == Values(4)
MARK   == BYTE \div 2       \* 0x80

\* A character: the digit it stands for, and which of its two forms it has.
Chars == [d : Int, alt : BOOLEAN]

\* Rust's slices, and so messages and texts, have less than USIZE \div 2 bytes.
ASSUME EncodingAssumption ==
  /\ CRUMB \in Nat /\ CRUMB > 1
  /\ USIZE \in Nat /\ USIZE % 4 = 0 /\ USIZE > 4
  /\ CAP \in 1..(USIZE - 1)
  /\ BlockSizes \subseteq Nat
  /\ Sample \subseteq 0..(BYTE - 1)
  /\ MaxMsg \in Nat /\ MaxMsg < USIZE \div 2 /\ MaxPads \in Nat
  /\ \A s \in Foreign : s \in Seq(Chars) /\ Len(s) < USIZE \div 2

VARIABLES
  job,        \* what the program does: "pad", "text" or "compare"
  buf, len,   \* the buffer, and the length of what it holds
  pads,       \* history: the paddings of the message, the last one at the end
  text,       \* a text the program has, with its format
  source,     \* history: the bytes it was made from, if the program made it
  out

vars == <<job, buf, len, pads, text, source, out>>

-----------------------------------------------------------------------------
Err   == [ok |-> FALSE, val |-> << >>]
Ok(v) == [ok |-> TRUE, val |-> v]

Messages == UNION {[1..n -> Sample] : n \in 0..MaxMsg}
Zeros(n) == [i \in 1..n |-> 0]

-----------------------------------------------------------------------------
(* padding                                                                 *)

\* How many bytes sodium_pad adds (external): at least one.
PadBytes(n, bs) == bs - (n % bs)

\* sodium_pad (external): a mark, and zeros over whatever was there before.
Padded(b, n, bs) ==
  [i \in 1..Len(b) |-> IF i = n + 1 THEN MARK
                       ELSE IF i \in (n + 2)..(n + PadBytes(n, bs)) THEN 0 ELSE b[i]]

\* `pad` is refused for blocks of no bytes, and if the buffer is too short.
PadFits(n, bs) == bs > 0 /\ n + PadBytes(n, bs) <= CAP

\* Fault: the return code is not looked at.
Pad_IgnoresRc(bs) ==
  /\ Len(pads) < MaxPads
  /\ buf'  = IF PadFits(len, bs) THEN Padded(buf, len, bs) ELSE buf
  /\ len'  = IF PadFits(len, bs) THEN len + PadBytes(len, bs) ELSE 0
  /\ pads' = Append(pads, [bs |-> bs, msg |-> SubSeq(buf, 1, len)])
  /\ out' = [op |-> "pad", bs |-> bs, ok |-> TRUE]
  /\ UNCHANGED <<job, text, source>>

Pad(bs) ==
  /\ Len(pads) < MaxPads
  /\ IF PadFits(len, bs)
     THEN /\ buf'  = Padded(buf, len, bs)
          /\ len'  = len + PadBytes(len, bs)
          /\ pads' = Append(pads, [bs |-> bs, msg |-> SubSeq(buf, 1, len)])
     ELSE UNCHANGED <<buf, len, pads>>
  /\ out' = [op |-> "pad", bs |-> bs, ok |-> PadFits(len, bs)]
  /\ UNCHANGED <<job, text, source>>

\* The mark that sodium_unpad (external) finds in the last block of b.
IsMark(b, bs, j) ==
  /\ j \in (Len(b) - bs + 1)..Len(b)
  /\ b[j] = MARK
  /\ \A i \in (j + 1)..Len(b) : b[i] = 0

\* `unpad` of all of b.
Unpadded(b, bs) ==
  IF bs = 0 \/ Len(b) < bs \/ ~\E j \in 1..Len(b) : IsMark(b, bs, j) THEN Err
  ELSE Ok(SubSeq(b, 1, (CHOOSE j \in 1..Len(b) : IsMark(b, bs, j)) - 1))

Unpad(bs) ==
  LET r == Unpadded(SubSeq(buf, 1, len), bs)
  IN  /\ len'  = IF r.ok THEN Len(r.val) ELSE len
      /\ pads' = IF ~r.ok THEN pads
                 ELSE IF pads # << >> /\ pads[Len(pads)].bs = bs
                      THEN SubSeq(pads, 1, Len(pads) - 1) ELSE << >>
      /\ out'  = [op |-> "unpad", ok |-> r.ok]
      /\ UNCHANGED <<job, buf, text, source>>

\* The program writes a message over the one before; what is behind it stays.
Write(m) ==
  /\ Len(m) <= CAP
  /\ buf'  = [i \in 1..CAP |-> IF i <= Len(m) THEN m[i] ELSE buf[i]]
  /\ len'  = Len(m)
  /\ pads' = << >>
  /\ out'  = [op |-> "none"]
  /\ UNCHANGED <<job, text, source>>

-----------------------------------------------------------------------------
(* hex and base64.  A character is a digit, `alt` if it is an upper case   *)
(* letter or one of the two that UrlSafe writes differently, or is none.   *)

Char(d, alt) == [d |-> d, alt |-> alt]
Equals == Char(-1, FALSE)
Other  == Char(-2, FALSE)
Nul    == Char(-3, FALSE)

Variants == [url : BOOLEAN, padded : BOOLEAN]

\* Crumbs of a sequence of digits of w crumbs, the first one most significant;
\* its n digits of u crumbs, with zeros behind the end (external).
CrumbOf(v, w, t) == (v \div Values(w - 1 - t)) % CRUMB
Stream(s, w, i) == IF i < w * Len(s) THEN CrumbOf(s[i \div w + 1], w, i % w) ELSE 0
Regroup(s, w, u, n) ==
  [j \in 1..n |-> CHOOSE v \in 0..(Values(u) - 1) :
     \A t \in 0..(u - 1) : CrumbOf(v, u, t) = Stream(s, w, (j - 1) * u + t)]

\* checked_mul and checked_add: Overflow is None.
Overflow == -1
Checked(n) == IF n < USIZE THEN n ELSE Overflow

\* A buffer of n bytes that c was written to, after `pop`.
Popped(c, n) == [i \in 1..(n - 1) |-> IF i <= Len(c) THEN c[i] ELSE Nul]

\* hex::encoded_len and hex::encode
HexEncodedLen(n) == IF Checked(2 * n) = Overflow THEN Overflow ELSE Checked(2 * n + 1)

Bin2Hex(b) ==
  LET d == Regroup(b, 4, 2, 2 * Len(b)) IN [i \in DOMAIN d |-> Char(d[i], FALSE)]

HexEncode(b) == Popped(Bin2Hex(b), HexEncodedLen(Len(b)))

\* Ten digits of sixteen are not letters and have one form.
IsHexChar(c) == c.d \in 0..(HEXIT - 1) /\ (c.alt => 8 * c.d >= 5 * HEXIT)

Digits(s) == [i \in DOMAIN s |-> s[i].d]

\* hex::decoded_len and hex::decode
HexDecode(s) ==
  IF Len(s) % 2 # 0 \/ ~\A i \in DOMAIN s : IsHexChar(s[i]) THEN Err
  ELSE Ok(Regroup(Digits(s), 2, 4, Len(s) \div 2))

\* sodium_base64_encoded_len and sodium_bin2base64 (external)
SextetsOf(n)    == (4 * n + 2) \div 3
PaddingOf(n)    == (4 - (n % 4)) % 4
B64EncodedLen(n, v) == SextetsOf(n) + (IF v.padded THEN PaddingOf(SextetsOf(n)) ELSE 0) + 1
B64Char(d, v)   == Char(d, v.url /\ d >= SEXTET - 2)
Bin2Base64(b, v) ==
  LET d == Regroup(b, 4, 3, SextetsOf(Len(b)))
  IN  [i \in 1..(B64EncodedLen(Len(b), v) - 1) |->
         IF i <= Len(d) THEN B64Char(d[i], v) ELSE Equals]

\* base64::encode
B64Encode(b, v) == Popped(Bin2Base64(b, v), B64EncodedLen(Len(b), v))

\* Fault: an incomplete group is not counted.
DecodedLen_WholeGroups(n) == Checked((n \div 4) * 3)

\* base64::decoded_len
DecodedLen(n) ==
  IF n % 4 = 0 \/ Checked((n \div 4) * 3) = Overflow THEN Checked((n \div 4) * 3)
  ELSE Checked((n \div 4) * 3 + 3)

\* sodium_base642bin (external): n digits, then the padding and nothing else;
\* no group of one digit, no bits that are left over, and room for the bytes.
IsB64Char(c, v) == c.d \in 0..(SEXTET - 1) /\ c.alt = (v.url /\ c.d >= SEXTET - 2)
DigitCount(s, v) ==
  CHOOSE n \in 0..Len(s) : /\ \A i \in 1..n : IsB64Char(s[i], v)
                           /\ n < Len(s) => ~IsB64Char(s[n + 1], v)
Base642Bin(s, v, cap) ==
  LET n    == DigitCount(s, v)
      d    == Digits(SubSeq(s, 1, n))
      size == (3 * n) \div 4
      tail == IF v.padded THEN PaddingOf(n) ELSE 0
  IN  IF /\ n % 4 # 1 /\ size <= cap
         /\ \A i \in (4 * size)..(3 * n - 1) : Stream(d, 3, i) = 0
         /\ Len(s) = n + tail
         /\ \A i \in (n + 1)..Len(s) : s[i] = Equals
      THEN Ok(Regroup(d, 3, 4, size)) ELSE Err

\* base64::decode
B64Decode(s, v) ==
  IF DecodedLen(Len(s)) = Overflow THEN Err ELSE Base642Bin(s, v, DecodedLen(Len(s)))

-----------------------------------------------------------------------------
(* Newtypes of n bytes                                                     *)

FromSlice(bs, n) == IF Len(bs) # n THEN Err ELSE Ok(bs)

\* `visit_seq` takes what there is; the deserializer (external) complains of
\* elements that nobody took.
VisitSeq(bs, n) ==
  IF Len(bs) > n THEN Err
  ELSE Ok([i \in 1..n |-> IF i <= Len(bs) THEN bs[i] ELSE 0])

\* Fault: only the common part is compared.
Memcmp_Prefix(x, y) ==
  \A i \in DOMAIN x \cap DOMAIN y : x[i] = y[i]

\* utils::memcmp, the `eq` of newtypes and digests; verify_16, 32 and 64.
Memcmp(x, y) == Len(x) = Len(y) /\ \A i \in DOMAIN x : x[i] = y[i]

\* The order of slices: less, equal or greater as -1, 0 or 1.
Less(x, y) ==
  \E n \in 0..(Len(y) - 1) : /\ n <= Len(x) /\ \A i \in 1..n : x[i] = y[i]
                             /\ n < Len(x) => x[n + 1] < y[n + 1]
Cmp(x, y) == IF Less(x, y) THEN -1 ELSE IF Less(y, x) THEN 1 ELSE 0

\* generichash::Digest: an array with zeros behind the first `len` bytes.
Digest(m) == [len |-> Len(m), data |-> m \o Zeros(MaxMsg - Len(m))]
AsRef(x)  == SubSeq(x.data, 1, x.len)
DigestEq(x, y) == x.len = y.len /\ Memcmp(AsRef(x), AsRef(y))

-----------------------------------------------------------------------------
NoText == [fmt |-> "none", v |-> [url |-> FALSE, padded |-> FALSE], chars |-> << >>]

Init ==
  /\ job \in {"pad", "text", "compare"}
  /\ buf = Zeros(CAP) /\ len = 0 /\ pads = << >>
  /\ text = NoText /\ source = {}
  /\ out = [op |-> "none"]

\* The four ways from bytes to text, and back.
Encode(fmt, v, m) == CASE fmt = "hex"    -> HexEncode(m)
                       [] fmt = "base64" -> B64Encode(m, v)
                       [] OTHER          -> m
Decode(fmt, v, s) == CASE fmt = "hex"    -> HexDecode(s)
                       [] fmt = "base64" -> B64Decode(s, v)
                       [] OTHER          -> Ok(s)
Newtype(fmt, d, n) ==
  IF ~d.ok THEN Err ELSE IF fmt = "seq" THEN VisitSeq(d.val, n) ELSE FromSlice(d.val, n)

\* Only Base64 has variants.
VariantsOf(fmt) == IF fmt = "base64" THEN Variants ELSE {NoText.v}

Formats == {"hex", "base64", "bytes", "seq"}

Save(fmt, v, m) ==
  /\ v \in VariantsOf(fmt)
  /\ text'   = [fmt |-> fmt, v |-> v, chars |-> Encode(fmt, v, m)]
  /\ source' = {m}
  /\ out'    = [op |-> "none"]
  /\ UNCHANGED <<job, buf, len, pads>>

Receive(fmt, s) ==
  /\ text'   = [fmt |-> fmt, v |-> NoText.v, chars |-> s]
  /\ source' = {}
  /\ out'    = [op |-> "none"]
  /\ UNCHANGED <<job, buf, len, pads>>

\* The text is decoded, in any variant, and becomes a newtype of n bytes.
Load(v, n) ==
  LET d == Decode(text.fmt, v, text.chars)
  IN  /\ text.fmt # "none" /\ v \in VariantsOf(text.fmt)
      /\ out.op # "load"
      /\ out' = [op |-> "load", v |-> v, n |-> n, dec |-> d, key |-> Newtype(text.fmt, d, n)]
      /\ UNCHANGED <<job, buf, len, pads, text, source>>

\* The program goes on to its next text, or its next comparison.
Finish ==
  /\ out.op \in {"load", "compare"}
  /\ text' = NoText /\ source' = {}
  /\ out'  = [op |-> "none"]
  /\ UNCHANGED <<job, buf, len, pads>>

Compare(x, y) ==
  /\ out' = [op |-> "compare", x |-> x, y |-> y, eq |-> DigestEq(Digest(x), Digest(y)),
             cmp |-> Cmp(AsRef(Digest(x)), AsRef(Digest(y))),
             inverse |-> Cmp(AsRef(Digest(y)), AsRef(Digest(x))),
             same |-> Memcmp(x, y)]
  /\ UNCHANGED <<job, buf, len, pads, text, source>>

Padding ==
  /\ job = "pad"
  /\ \/ \E bs \in BlockSizes : Pad(bs) \/ Unpad(bs)
     \/ \E m \in Messages : Write(m)

Texts ==
  \/ /\ job = "text" /\ text = NoText
     /\ \/ \E fmt \in Formats, v \in Variants, m \in Messages : Save(fmt, v, m)
        \/ \E fmt \in {"hex", "base64"}, s \in Foreign : Receive(fmt, s)
  \/ \E v \in Variants, n \in 0..MaxMsg : Load(v, n)

Comparing ==
  /\ job = "compare" /\ out.op = "none"
  /\ \E x, y \in Messages : Compare(x, y)

Next == Padding \/ Texts \/ Comparing \/ Finish

Spec == Init /\ [][Next]_vars

-----------------------------------------------------------------------------
(* Properties                                                              *)

Bytes == 0..(BYTE - 1)

\* Types of the buffer and of what it holds.
TypeOK ==
  /\ buf \in [1..CAP -> Bytes]
  /\ len \in 0..CAP

\* What the k-th padding made.
After(k) == IF k = Len(pads) THEN SubSeq(buf, 1, len) ELSE pads[k + 1].msg

\* The paddings of a message come off in reverse order, each with its own
\* block size, and leave what they were given: whatever older messages and
\* paddings left behind in the buffer, for full blocks and empty messages, and
\* if a padding was refused in between.
Unpads ==
  \A k \in 1..Len(pads) :
    /\ Unpadded(After(k), pads[k].bs) = Ok(pads[k].msg)
    /\ Len(After(k)) % pads[k].bs = 0

\* `pad` is refused only if no multiple of the block size that is longer than
\* the message fits into the buffer, which may be filled to its last byte.
RefusedOnlyIfFull ==
  (out.op = "pad" /\ ~out.ok) =>
    ~\E n \in (len + 1)..CAP : out.bs > 0 /\ n % out.bs = 0

\* Upper case letters are as good as lower case ones.
Folded(fmt, s) == IF fmt # "hex" THEN s ELSE [i \in DOMAIN s |-> Char(s[i].d, FALSE)]

\* A text that `decode` accepts is the one that `encode` makes of the result:
\* nothing is ignored, and no two texts of a variant are the same bytes.  What
\* the program encoded it gets back, from the same variant always and from the
\* others never anything else; for every length of the last group.  A newtype
\* of as many bytes comes back whole, also as a sequence of serde.
TextIsExact ==
  out.op = "load" =>
    /\ out.dec.ok => Encode(text.fmt, out.v, out.dec.val) = Folded(text.fmt, text.chars)
    /\ \A m \in source : /\ out.dec.ok => out.dec.val = m
                         /\ out.v = text.v => out.dec.ok
                         /\ out.v = text.v /\ out.n = Len(m) => out.key = Ok(m)

\* Digests are equal exactly if neither is less than the other, and order is
\* antisymmetric: also for digests of different lengths with equal arrays.
\* `memcmp` agrees, for slices of different lengths too.
EqMatchesOrd ==
  out.op = "compare" =>
    /\ out.eq <=> out.cmp = 0
    /\ out.eq <=> out.x = out.y
    /\ out.same <=> out.x = out.y
    /\ out.inverse = -out.cmp

\* No length of a slice overflows: Rust's slices have less than USIZE \div 2
\* bytes.  So `hex::encode` does not panic, `base64::decode` does not fail for
\* its length, and its buffer has room for every text of that length.
LengthsFit ==
  \A n \in 0..(USIZE \div 2 - 1) :
    /\ HexEncodedLen(n) = 2 * n + 1
    /\ DecodedLen(n) # Overflow /\ DecodedLen(n) >= (3 * n) \div 4

\* The inductive invariant behind Unpads.
PadInv ==
  /\ TypeOK
  /\ pads \in Seq([bs : Nat \ {0}, msg : Seq(Bytes)])
  /\ Unpads
=============================================================================
