------------------------------ MODULE Keystream ------------------------------
(***************************************************************************)
(* `crypto::stream` and the nonces of all modules: peers that share a key  *)
(* number their messages by `increment_le` and `add_le`, starting from a   *)
(* random nonce, and encrypt them in one piece or block by block, in place *)
(* or into a new Vec.  As `crypto::box_` advises, every peer has numbers   *)
(* of its own: each counts in steps of Stride from its own Lane.           *)
(*                                                                         *)
(* libsodium is external: a key and a nonce determine a keystream, in      *)
(* blocks numbered by a counter that wraps around.  A nonce is the number  *)
(* that its little-endian bytes stand for (see Encodings); a byte is the   *)
(* set of the keystream bytes it is combined with, empty for a plaintext.  *)
(***************************************************************************)
EXTENDS Integers

CONSTANTS
  Peers,
  Stride, Lane,      \* Lane[p]: where peer p counts, below Stride
  PerPeer,           \* how many nonces each peer has
  BYTE, NONCEBYTES,  \* 256, and the length of a Nonce
  BLOCK,             \* the bytes of a keystream block
  COUNTERS,          \* 2^64, the values of the block counter
  SliceLens,         \* the lengths of the slices given to add_le
  Lens,              \* the lengths of messages
  MaxMsgs            \* bound on the messages of a peer

\* The nonces there are: 256^NONCEBYTES.
NONCES == Stride * PerPeer

ASSUME KeystreamAssumption ==
  /\ Stride \in Nat \ {0} /\ PerPeer \in Nat \ {0}
  /\ Lane \in [Peers -> 0..(Stride - 1)]
  /\ \A p, q \in Peers : Lane[p] = Lane[q] => p = q
  /\ BYTE \in Nat \ {0} /\ NONCEBYTES \in Nat /\ NONCES = BYTE^NONCEBYTES
  /\ BLOCK \in Nat \ {0} /\ COUNTERS \in Nat \ {0}
  /\ Lens \subseteq 1..(BLOCK * COUNTERS)
  /\ MaxMsgs \in Nat

VARIABLES
  base,    \* the nonce the peers started from
  nonce,   \* nonce[p]: the Nonce of p for the message it works on
  togo,    \* togo[p]: by how much p has still to raise it
  sent,    \* sent[p]: the number of messages p has sent
  buf,     \* buf[p]: the message p works on
  wire,    \* the messages sent
  want,    \* want[p]: the Nonce that p's receiver expects next
  rcvd,    \* rcvd[p]: the number of messages received from p, or lost
  got      \* what the last reception made of a message

vars == <<base, nonce, togo, sent, buf, wire, want, rcvd, got>>

-----------------------------------------------------------------------------
(* Nonces                                                                  *)

\* `gen_nonce`, `gen_random_nonce`: any nonce.
GenNonce == 0..(NONCES - 1)

\* Fault: the carry does not leave the lowest byte.
IncrementLe_LosesCarry(n) == ((n \div BYTE) * BYTE) + ((n + 1) % BYTE)

\* `increment_le`: the last nonce is followed by the first, without notice.
IncrementLe(n) == (n + 1) % NONCES

IncrementLeInplace(p) == nonce' = [nonce EXCEPT ![p] = IncrementLe(@)]

\* Fault: a nonce past the last one is not reduced but stays there.
AddLe_Saturates(n, y) ==
  IF y.len = NONCEBYTES
  THEN [ok |-> TRUE, n |-> IF n + y.val < NONCES THEN n + y.val ELSE NONCES - 1]
  ELSE [ok |-> FALSE, n |-> n]

\* `add_le(&mut n.0, y)`: slices of another length are refused.
AddLe(n, y) == IF y.len = NONCEBYTES
               THEN [ok |-> TRUE, n |-> (n + y.val) % NONCES]
               ELSE [ok |-> FALSE, n |-> n]

Number(v) == [len |-> NONCEBYTES, val |-> v]

-----------------------------------------------------------------------------
(* Keystream and messages                                                  *)

\* The i-th byte of the keystream that starts at block ic.
Pad(n, ic, i) == [n |-> n, block |-> (ic + (i \div BLOCK)) % COUNTERS, at |-> i % BLOCK]

XorByte(b, x) == IF x \in b THEN b \ {x} ELSE b \cup {x}

Plaintext(len) == [i \in 0..(len - 1) |-> {}]

\* `stream`: the keystream itself.
Stream(len, n) == [i \in 0..(len - 1) |-> Pad(n, 0, i)]

\* `stream_xor`, into a new Vec of the same length.
StreamXor(m, n) == [i \in DOMAIN m |-> XorByte(m[i], Pad(n, 0, i))]

\* `stream_xor_ic`, on the part of m that begins at byte f and has l bytes.
StreamXorIc(m, f, l, n, ic) ==
  [i \in f..(f + l - 1) |-> XorByte(m[i], Pad(n, ic, i - f))]

\* Fault: the in-place variant passes no counter on.
StreamXorIcInplace_NoCounter(m, f, l, n, ic) ==
  [i \in DOMAIN m |-> IF i \in f..(f + l - 1)
                      THEN XorByte(m[i], Pad(n, 0, i - f)) ELSE m[i]]

\* `stream_xor_ic_inplace(&mut m[f..f + l], n, ic, k)`
StreamXorIcInplace(m, f, l, n, ic) ==
  [i \in DOMAIN m |-> IF i \in f..(f + l - 1)
                      THEN XorByte(m[i], Pad(n, ic, i - f)) ELSE m[i]]

\* `stream_xor_inplace`
StreamXorInplace(m, n) == [i \in DOMAIN m |-> XorByte(m[i], Pad(n, 0, i))]

-----------------------------------------------------------------------------
\* left: the bytes of the message that are not encrypted yet.
NoMsg == [len |-> 0, bytes |-> Plaintext(0), left |-> {}]

Init ==
  /\ base \in GenNonce
  /\ nonce = [p \in Peers |-> AddLe(base, Number(Lane[p])).n]
  /\ togo  = [p \in Peers |-> 0]
  /\ sent  = [p \in Peers |-> 0]
  /\ buf   = [p \in Peers |-> NoMsg]
  /\ wire  = {}
  /\ want  = nonce
  /\ rcvd  = [p \in Peers |-> 0]
  /\ got   = NoMsg.bytes

\* The peer writes its next message.
Write(p, len) ==
  /\ buf[p] = NoMsg /\ togo[p] = 0 /\ sent[p] < MaxMsgs
  /\ buf' = [buf EXCEPT ![p] =
              [len |-> len, bytes |-> Plaintext(len), left |-> 0..(len - 1)]]
  /\ UNCHANGED <<base, nonce, togo, sent, wire, want, rcvd, got>>

\* A part of the message that begins with a block and ends with one, or with
\* the message, is encrypted in place; the parts come in any order.
EncryptPart(p, f, l) ==
  /\ f % BLOCK = 0 /\ l > 0
  /\ (f + l) % BLOCK = 0 \/ f + l = buf[p].len
  /\ f..(f + l - 1) \subseteq buf[p].left
  /\ buf' = [buf EXCEPT ![p] =
       [len   |-> @.len,
        bytes |-> StreamXorIcInplace(@.bytes, f, l, nonce[p], f \div BLOCK),
        left  |-> @.left \ (f..(f + l - 1))]]
  /\ UNCHANGED <<base, nonce, togo, sent, wire, want, rcvd, got>>

EncryptInplace(p) ==
  /\ buf[p] # NoMsg /\ buf[p].left = 0..(buf[p].len - 1)
  /\ buf' = [buf EXCEPT ![p] =
       [len |-> @.len, bytes |-> StreamXorInplace(@.bytes, nonce[p]), left |-> {}]]
  /\ UNCHANGED <<base, nonce, togo, sent, wire, want, rcvd, got>>

\* The message goes out, and the peer has to go on to its next nonce.
Emit(p, bytes) ==
  /\ wire' = wire \cup {[from |-> p, k |-> sent[p], len |-> buf[p].len,
                         n |-> nonce[p], bytes |-> bytes]}
  /\ buf'  = [buf EXCEPT ![p] = NoMsg]
  /\ sent' = [sent EXCEPT ![p] = @ + 1]
  /\ togo' = [togo EXCEPT ![p] = Stride]
  /\ UNCHANGED <<base, nonce, want, rcvd, got>>

SendBuffer(p) ==
  /\ buf[p] # NoMsg /\ buf[p].left = {}
  /\ Emit(p, buf[p].bytes)

\* What has not been encrypted in place is encrypted into a new Vec: by
\* stream_xor, by stream_xor_ic with one call per block, or by hand.
ByBlocks(m, len, n) ==
  [i \in 0..(len - 1) |->
     LET f == i - (i % BLOCK)
         l == IF f + BLOCK <= len THEN BLOCK ELSE len - f
     IN  StreamXorIc(m, f, l, n, f \div BLOCK)[i]]

ByHand(m, len, n) == [i \in 0..(len - 1) |-> XorByte(m[i], Stream(len, n)[i])]

Copies(m, len, n) == {StreamXor(m, n), ByBlocks(m, len, n), ByHand(m, len, n)}

SendCopy(p) ==
  /\ buf[p] # NoMsg /\ buf[p].left = 0..(buf[p].len - 1)
  /\ \E bytes \in Copies(buf[p].bytes, buf[p].len, nonce[p]) : Emit(p, bytes)

\* On to the next nonce: at once, if the slice has the right length...
Advance(p, l) ==
  /\ togo[p] = Stride
  /\ LET r == AddLe(nonce[p], [len |-> l, val |-> Stride])
     IN  /\ nonce' = [nonce EXCEPT ![p] = r.n]
         /\ togo'  = [togo EXCEPT ![p] = IF r.ok THEN 0 ELSE @]
  /\ UNCHANGED <<base, sent, buf, wire, want, rcvd, got>>

\* ...or one by one.
Increment(p) ==
  /\ togo[p] > 0
  /\ IncrementLeInplace(p)
  /\ togo' = [togo EXCEPT ![p] = @ - 1]
  /\ UNCHANGED <<base, sent, buf, wire, want, rcvd, got>>

\* The receiver decrypts with the nonce it has counted itself.
Receive(c) ==
  /\ c.k = rcvd[c.from]
  /\ got'  = StreamXor(c.bytes, want[c.from])
  /\ want' = [want EXCEPT ![c.from] = AddLe(@, Number(Stride)).n]
  /\ rcvd' = [rcvd EXCEPT ![c.from] = @ + 1]
  /\ UNCHANGED <<base, nonce, togo, sent, buf, wire>>

\* A message is lost, and the receiver is told so.
Skip(p) ==
  /\ rcvd[p] < sent[p]
  /\ want' = [want EXCEPT ![p] = AddLe(@, Number(Stride)).n]
  /\ rcvd' = [rcvd EXCEPT ![p] = @ + 1]
  /\ UNCHANGED <<base, nonce, togo, sent, buf, wire, got>>

Next ==
  \/ \E p \in Peers :
       \/ \E len \in Lens : Write(p, len)
       \/ \E f, l \in 0..buf[p].len : EncryptPart(p, f, l)
       \/ EncryptInplace(p)
       \/ SendBuffer(p)
       \/ SendCopy(p)
       \/ \E l \in SliceLens : Advance(p, l)
       \/ Increment(p)
       \/ Skip(p)
  \/ \E c \in wire : Receive(c)

Spec == Init /\ [][Next]_vars

-----------------------------------------------------------------------------
(* Properties                                                              *)

Pads == [n : GenNonce, block : 0..(COUNTERS - 1), at : 0..(BLOCK - 1)]

\* Types of all variables.
TypeOK ==
  /\ base \in GenNonce
  /\ nonce \in [Peers -> GenNonce] /\ want \in [Peers -> GenNonce]
  /\ togo \in [Peers -> 0..Stride]
  /\ sent \in [Peers -> Nat] /\ rcvd \in [Peers -> Nat]
  /\ DOMAIN buf = Peers
  /\ \A p \in Peers :
       /\ buf[p].len \in Lens \cup {0}
       /\ buf[p].bytes \in [0..(buf[p].len - 1) -> SUBSET Pads]
       /\ buf[p].left \subseteq 0..(buf[p].len - 1)

\* Two messages have a keystream byte in common only if the same peer sent
\* both and has used up all of its nonces in between.  In particular peers
\* never run into each other's nonces, not when the counter wraps around.
NoReuse ==
  \A c, d \in wire :
    (c # d /\ \E i \in 0..(c.len - 1), j \in 0..(d.len - 1) :
                c.bytes[i] \cap d.bytes[j] # {}) =>
      c.from = d.from /\ c.k # d.k /\ c.k % PerPeer = d.k % PerPeer

\* Within a message no keystream byte is used twice, also beyond a block.
NoReuseWithin ==
  \A c \in wire : \A i, j \in 0..(c.len - 1) :
    i # j => c.bytes[i] \cap c.bytes[j] = {}

\* However a message was cut, in whatever order its parts were encrypted, and by
\* whichever function, what is sent is what stream_xor makes of the whole.
PartsMakeTheWhole ==
  \A c \in wire : c.bytes = StreamXor(Plaintext(c.len), c.n)

\* A receiver that counts along by add_le gets the plaintext, though the sender
\* may count by increment_le and though messages are lost.
Restores == \A i \in DOMAIN got : got[i] = {}

\* Where p's k-th message is in the sequence of all nonces.
At(p, k) == base + Lane[p] + (Stride * k)

\* A message of which the bytes of left are not encrypted yet.
Partly(len, left, n) ==
  [len   |-> len,
   bytes |-> [i \in 0..(len - 1) |-> IF i \in left THEN {} ELSE {Pad(n, 0, i)}],
   left  |-> left]

\* The nonces of the peers, of their receivers and of every message sent are
\* where the numbers of messages say they are, by whichever of increment_le and
\* add_le they were reached; and what is encrypted is encrypted once.
CountInv ==
  /\ \A p \in Peers :
       /\ rcvd[p] <= sent[p]
       /\ want[p] = At(p, rcvd[p]) % NONCES
       /\ nonce[p] = (At(p, sent[p]) - togo[p]) % NONCES
       /\ togo[p] > 0 => buf[p] = NoMsg
       /\ buf[p] = Partly(buf[p].len, buf[p].left, nonce[p])
  /\ \A c \in wire :
       /\ c.from \in Peers /\ c.k \in Nat /\ c.k < sent[c.from] /\ c.len \in Lens
       /\ c.n = At(c.from, c.k) % NONCES
       /\ c.bytes = Partly(c.len, {}, c.n).bytes
  /\ \A c, d \in wire : c.from = d.from /\ c.k = d.k => c = d
=============================================================================
