--------------------------- MODULE KeystreamProofs ---------------------------
(* Proofs about Keystream, for any number of peers and any sizes.           *)
EXTENDS Keystream, TLAPS

-----------------------------------------------------------------------------
(* Division with remainder.                                                *)

LEMMA DivMod ==
  ASSUME NEW M \in Nat \ {0}, NEW x \in Int
  PROVE  x \div M \in Int /\ x % M \in 0..(M - 1) /\ x = (M * (x \div M)) + (x % M)
  OBVIOUS

LEMMA ModUnique ==
  ASSUME NEW M \in Nat \ {0}, NEW x \in Int, NEW q \in Int, NEW r \in 0..(M - 1),
         x = (M * q) + r
  PROVE  x \div M = q /\ x % M = r
<1> DEFINE a == x \div M
           b == x % M
<1>1. a \in Int /\ b \in 0..(M - 1) /\ x = (M * a) + b
  BY DivMod
<1>2. M * (a - q) = r - b
  BY <1>1
<1>3. a - q \in Int /\ (a - q >= 1 => M * (a - q) >= M)
                    /\ (a - q <= -1 => M * (a - q) <= -M)
  BY <1>1
<1>4. a = q
  BY <1>1, <1>2, <1>3
<1> QED
  BY <1>1, <1>4

\* A number may be reduced before something is added to it.
LEMMA ModAdd ==
  ASSUME NEW M \in Nat \ {0}, NEW x \in Int, NEW y \in Int
  PROVE  ((x % M) + y) % M = (x + y) % M
<1> DEFINE z == (x % M) + y
<1>1. x \div M \in Int /\ x % M \in 0..(M - 1) /\ x = (M * (x \div M)) + (x % M)
  BY DivMod
<1>2. z \in Int
  BY <1>1
<1>3. z \div M \in Int /\ z % M \in 0..(M - 1) /\ z = (M * (z \div M)) + (z % M)
  BY <1>2, DivMod
<1>4. PICK q \in Int, r \in 0..(M - 1) : x = (M * q) + r /\ r = x % M
  BY <1>1
<1>5. PICK u \in Int, v \in 0..(M - 1) : r + y = (M * u) + v /\ v = z % M
  BY <1>3, <1>4
<1>6. x + y \in Int /\ q + u \in Int /\ x + y = (M * (q + u)) + v
  <2>1. M * (q + u) = (M * q) + (M * u) /\ M * q \in Int /\ M * u \in Int
    OBVIOUS
  <2>2. ASSUME NEW a \in Int, NEW b \in Int, x = a + r, r + y = b + v
        PROVE  x + y = a + b + v
    BY <2>2
  <2>3. x + y = (M * q) + (M * u) + v
    BY <2>1, <2>2, <1>4, <1>5
  <2> QED
    BY <2>1, <2>3
<1>7. (x + y) % M = v
  BY <1>6, ModUnique
<1> QED
  BY <1>5, <1>7

LEMMA Congruent ==
  ASSUME NEW M \in Nat \ {0}, NEW x \in Int, NEW y \in Int, x % M = y % M
  PROVE  \E t \in Int : x - y = M * t
<1>1. PICK q \in Int : x = (M * q) + (x % M)
  BY DivMod
<1>2. PICK u \in Int : y = (M * u) + (y % M)
  BY DivMod
<1>3. x - y = M * (q - u)
  BY <1>1, <1>2, DivMod
<1> QED
  BY <1>3

\* Equal in a lane of the multiples of S only when equal.
LEMMA Lanes ==
  ASSUME NEW S \in Nat \ {0}, NEW a \in 0..(S - 1), NEW b \in 0..(S - 1),
         NEW z \in Int, a - b = S * z
  PROVE  a = b /\ z = 0
<1>1. z >= 1 => S * z >= S
  OBVIOUS
<1>2. z <= -1 => S * z <= -S
  OBVIOUS
<1> QED
  BY <1>1, <1>2

-----------------------------------------------------------------------------
(* The operators.                                                          *)

LEMMA ConstantFacts ==
  /\ NONCES \in Nat \ {0}
  /\ Stride \in Nat \ {0} /\ PerPeer \in Nat \ {0}
  /\ \A p \in Peers : Lane[p] \in 0..(Stride - 1)
  /\ BLOCK \in Nat \ {0} /\ COUNTERS \in Nat \ {0}
  /\ Lens \subseteq Nat \ {0}
<1>1. Stride \in Nat \ {0} /\ PerPeer \in Nat \ {0} /\ Lane \in [Peers -> 0..(Stride - 1)]
  BY KeystreamAssumption
<1>2. NONCES \in Nat \ {0}
  BY <1>1 DEF NONCES
<1>3. BLOCK \in Nat \ {0} /\ COUNTERS \in Nat \ {0} /\ Lens \subseteq Nat \ {0}
  BY KeystreamAssumption
<1> QED
  BY <1>1, <1>2, <1>3

LEMMA PadType ==
  ASSUME NEW n \in GenNonce, NEW ic \in Nat, NEW i \in Nat
  PROVE  Pad(n, ic, i) \in Pads
<1>1. i \div BLOCK \in Nat /\ i % BLOCK \in 0..(BLOCK - 1)
  BY ConstantFacts
<1>2. (ic + (i \div BLOCK)) % COUNTERS \in 0..(COUNTERS - 1)
  BY <1>1, ConstantFacts
<1> QED
  BY <1>1, <1>2 DEF Pad, Pads

\* A call of stream_xor_ic that begins at a block boundary continues the keystream.
LEMMA PadSplit ==
  ASSUME NEW n, NEW f \in Nat, NEW i \in Nat, f <= i, f % BLOCK = 0
  PROVE  Pad(n, f \div BLOCK, i - f) = Pad(n, 0, i)
<1> DEFINE B == BLOCK
<1>1. B \in Nat \ {0}
  BY ConstantFacts
<1>2. PICK q \in Int : q = f \div B /\ f = B * q
  BY <1>1, DivMod
<1>3. PICK u \in Int, r \in 0..(B - 1) :
        u = (i - f) \div B /\ r = (i - f) % B /\ i - f = (B * u) + r
  BY <1>1, DivMod
<1>4. i = (B * (q + u)) + r /\ q + u \in Int
  BY <1>1, <1>2, <1>3
<1>5. i \div B = q + u /\ i % B = r
  BY <1>1, <1>4, ModUnique
<1>6. (f \div B) + ((i - f) \div B) = 0 + (i \div B)
  BY <1>2, <1>3, <1>5
<1> QED
  BY <1>3, <1>5, <1>6 DEF Pad

\* Different bytes of a message that fits the counter use different keystream bytes.
LEMMA PadInjective ==
  ASSUME NEW n, NEW i \in 0..((BLOCK * COUNTERS) - 1),
         NEW j \in 0..((BLOCK * COUNTERS) - 1), Pad(n, 0, i) = Pad(n, 0, j)
  PROVE  i = j
<1> DEFINE B == BLOCK
           C == COUNTERS
<1>1. B \in Nat \ {0} /\ C \in Nat \ {0} /\ i \in Int /\ j \in Int
  BY ConstantFacts
<1>2. PICK q \in Int, r \in 0..(B - 1) : q = i \div B /\ r = i % B /\ i = (B * q) + r
  BY <1>1, DivMod
<1>3. PICK u \in Int, v \in 0..(B - 1) : u = j \div B /\ v = j % B /\ j = (B * u) + v
  BY <1>1, DivMod
<1>4. (0 + q) % C = (0 + u) % C /\ r = v
  BY <1>2, <1>3 DEF Pad
<1>5. ASSUME NEW x \in Int, NEW y \in 0..(B - 1), NEW k \in 0..((B * C) - 1), k = (B * x) + y
      PROVE  x \in 0..(C - 1)
  <2>1. x <= -1 => B * x <= -B
    BY <1>1
  <2>2. x >= C => B * x >= B * C
    BY <1>1
  <2> QED
    BY <2>1, <2>2, <1>1, <1>5
<1>6. q \in 0..(C - 1) /\ u \in 0..(C - 1)
  BY <1>2, <1>3, <1>5
<1>7. q = u
  <2>1. q = (C * 0) + q /\ u = (C * 0) + u
    BY <1>6, <1>1
  <2>2. q % C = q /\ u % C = u
    BY <2>1, <1>6, <1>1, ModUnique
  <2> QED
    BY <2>2, <1>4
<1> QED
  BY <1>2, <1>3, <1>4, <1>7

\* The receiver's and the sender's way to the next nonce.
LEMMA AddLeStep ==
  ASSUME NEW x \in Int, NEW n, n = x % NONCES
  PROVE  /\ AddLe(n, Number(Stride)).n = (x + Stride) % NONCES
         /\ IncrementLe(n) = (x + 1) % NONCES
<1>0. NONCES \in Nat \ {0} /\ Stride \in Int /\ 1 \in Int
  BY ConstantFacts
<1>1. ((x % NONCES) + Stride) % NONCES = (x + Stride) % NONCES
  BY <1>0, ModAdd, Zenon
<1>2. ((x % NONCES) + 1) % NONCES = (x + 1) % NONCES
  BY <1>0, ModAdd, Zenon
<1> QED
  BY <1>1, <1>2 DEF AddLe, Number, IncrementLe

\* A slice of another length changes nothing.
LEMMA AddLeRefuses ==
  ASSUME NEW n, NEW l, l # NONCEBYTES
  PROVE  /\ AddLe(n, [len |-> l, val |-> Stride]).n = n
         /\ ~ AddLe(n, [len |-> l, val |-> Stride]).ok
  BY DEF AddLe

LEMMA AddLeAccepts ==
  /\ \A n : AddLe(n, Number(Stride)).ok
  /\ Number(Stride) = [len |-> NONCEBYTES, val |-> Stride]
  BY DEF AddLe, Number

LEMMA LensNat == \A len \in Lens \cup {0} : len \in Nat
<1>1. Lens \subseteq Nat
  BY ConstantFacts
<1> QED
  BY <1>1

-----------------------------------------------------------------------------
(* The inductive invariant.                                                *)

IndInv == TypeOK /\ CountInv /\ Restores

LEMMA PartlyFields ==
  ASSUME NEW b, NEW n, b = Partly(b.len, b.left, n)
  PROVE  /\ DOMAIN b.bytes = 0..(b.len - 1)
         /\ \A i \in 0..(b.len - 1) : b.bytes[i] = IF i \in b.left THEN {} ELSE {Pad(n, 0, i)}
<1>1. PICK len, left : len = b.len /\ left = b.left
  OBVIOUS
<1>2. b.bytes = [i \in 0..(len - 1) |-> IF i \in left THEN {} ELSE {Pad(n, 0, i)}]
  BY <1>1 DEF Partly
<1> QED
  BY <1>1, <1>2

LEMMA NoMsgPartly == \A n : NoMsg = Partly(0, {}, n)
  BY DEF NoMsg, Plaintext, Partly

LEMMA NoMsgType ==
  /\ NoMsg.len = 0 /\ NoMsg.left = {} /\ NoMsg.left \subseteq 0..(NoMsg.len - 1)
  /\ NoMsg.bytes \in [0..(NoMsg.len - 1) -> SUBSET Pads]
<1>1. NoMsg.len = 0 /\ NoMsg.left = {} /\ NoMsg.bytes = [i \in 0..(0 - 1) |-> {}]
  BY DEF NoMsg, Plaintext
<1>2. [i \in 0..(0 - 1) |-> {}] \in [0..(0 - 1) -> SUBSET Pads]
  OBVIOUS
<1> QED
  BY <1>1, <1>2

LEMMA AtType ==
  ASSUME base \in GenNonce
  PROVE  \A p \in Peers, k \in Nat :
           /\ At(p, k) \in Int
           /\ At(p, k) + Stride = At(p, k + 1)
           /\ At(p, k) % NONCES \in GenNonce
<1> SUFFICES ASSUME NEW p \in Peers, NEW k \in Nat
             PROVE  At(p, k) \in Int /\ At(p, k) + Stride = At(p, k + 1)
                    /\ At(p, k) % NONCES \in GenNonce
  OBVIOUS
<1>1. base \in Int /\ Lane[p] \in Int /\ Stride \in Int /\ NONCES \in Nat \ {0}
  BY ConstantFacts DEF GenNonce
<1>2. Stride * k \in Int /\ Stride * (k + 1) = (Stride * k) + Stride
  BY <1>1
<1>3. At(p, k) \in Int /\ At(p, k) + Stride = At(p, k + 1)
  BY <1>1, <1>2 DEF At
<1> QED
  BY <1>1, <1>3, DivMod DEF GenNonce

LEMMA InitInv == Init => IndInv
<1> SUFFICES ASSUME Init PROVE IndInv
  OBVIOUS
<1> USE DEF Init
<1>0. base \in GenNonce /\ base \in Int /\ NONCES \in Nat \ {0}
  BY ConstantFacts DEF GenNonce
<1>1. ASSUME NEW p \in Peers
      PROVE  /\ nonce[p] = At(p, 0) % NONCES /\ nonce[p] \in GenNonce
             /\ nonce[p] = (At(p, 0) - 0) % NONCES
  <2>1. nonce[p] = (base + Lane[p]) % NONCES
    BY <1>1 DEF AddLe, Number
  <2>2. At(p, 0) = base + Lane[p]
    BY <1>0, <1>1, ConstantFacts DEF At
  <2>3. At(p, 0) \in Int /\ At(p, 0) % NONCES \in GenNonce
    BY <1>0, <1>1, AtType
  <2> QED
    BY <2>1, <2>2, <2>3
<1>2. TypeOK
  <2>1. nonce \in [Peers -> GenNonce] /\ want \in [Peers -> GenNonce]
    BY <1>1
  <2>2. togo \in [Peers -> 0..Stride] /\ sent \in [Peers -> Nat] /\ rcvd \in [Peers -> Nat]
    BY ConstantFacts
  <2>3. DOMAIN buf = Peers /\ \A p \in Peers : buf[p] = NoMsg
    OBVIOUS
  <2> QED
    BY <1>0, <2>1, <2>2, <2>3, NoMsgType DEF TypeOK
<1>3. CountInv
  <2>1. \A p \in Peers : buf[p] = NoMsg /\ buf[p] = Partly(buf[p].len, buf[p].left, nonce[p])
    BY NoMsgType, NoMsgPartly
  <2>2. \A p \in Peers : want[p] = nonce[p] /\ togo[p] = 0 /\ sent[p] = 0 /\ rcvd[p] = 0
    OBVIOUS
  <2>3. wire = {}
    OBVIOUS
  <2> QED
    BY <2>1, <2>2, <2>3, <1>1 DEF CountInv
<1>4. Restores
  BY DEF Restores, NoMsg, Plaintext
<1> QED
  BY <1>2, <1>3, <1>4 DEF IndInv

\* What the invariant says of the message a peer works on.
LEMMA Working ==
  ASSUME IndInv, NEW p \in Peers, buf[p] # NoMsg
  PROVE  /\ togo[p] = 0 /\ buf[p].len \in Lens
         /\ nonce[p] = At(p, sent[p]) % NONCES
<1>1. togo[p] = 0
  BY DEF IndInv, TypeOK, CountInv
<1>2. nonce[p] = At(p, sent[p]) % NONCES
  BY <1>1, AtType DEF IndInv, TypeOK, CountInv
<1>3. buf[p].len # 0
  <2> SUFFICES ASSUME buf[p].len = 0 PROVE FALSE
    OBVIOUS
  <2>1. buf[p].left = {}
    BY DEF IndInv, TypeOK
  <2>2. buf[p] = Partly(0, {}, nonce[p])
    BY <2>1 DEF IndInv, CountInv
  <2> QED
    BY <2>2, NoMsgPartly
<1> QED
  BY <1>1, <1>2, <1>3 DEF IndInv, TypeOK

\* The bytes of a message on which the bytes of left are not encrypted.
LEMMA PartlyType ==
  ASSUME NEW len \in Lens \cup {0}, NEW left, NEW n \in GenNonce
  PROVE  Partly(len, left, n).bytes \in [0..(len - 1) -> SUBSET Pads]
<1>1. \A i \in 0..(len - 1) : i \in Nat /\ Pad(n, 0, i) \in Pads
  BY ConstantFacts, PadType
<1> QED
  BY <1>1 DEF Partly

\* A step that only changes the message of one peer.
LEMMA BufStep ==
  ASSUME IndInv, NEW p \in Peers, NEW len \in Lens \cup {0}, NEW left \in SUBSET (0..(len - 1)),
         buf' = [buf EXCEPT ![p] = Partly(len, left, nonce[p])],
         togo[p] = 0,
         UNCHANGED <<base, nonce, togo, sent, wire, want, rcvd, got>>
  PROVE  IndInv'
<1>1. \A q \in Peers : buf'[q] = IF q = p THEN Partly(len, left, nonce[p]) ELSE buf[q]
  BY DEF IndInv, TypeOK
<1>2. Partly(len, left, nonce[p]).bytes \in [0..(len - 1) -> SUBSET Pads]
  BY PartlyType DEF IndInv, TypeOK
<1>3. Partly(len, left, nonce[p]).len = len /\ Partly(len, left, nonce[p]).left = left
  BY DEF Partly
<1>4. TypeOK'
  BY <1>1, <1>2, <1>3 DEF IndInv, TypeOK, GenNonce, Pads
<1>5. CountInv'
  <2>1. \A q \in Peers :
          /\ rcvd'[q] <= sent'[q]
          /\ want'[q] = At(q, rcvd[q])' % NONCES
          /\ nonce'[q] = (At(q, sent[q])' - togo'[q]) % NONCES
    BY DEF IndInv, CountInv, At
  <2>2. \A q \in Peers : togo'[q] > 0 => buf'[q] = NoMsg
    BY <1>1 DEF IndInv, CountInv
  <2>3. \A q \in Peers : buf'[q] = Partly(buf'[q].len, buf'[q].left, nonce'[q])
    BY <1>1, <1>3 DEF IndInv, CountInv
  <2> QED
    BY <2>1, <2>2, <2>3 DEF IndInv, CountInv, At
<1> QED
  BY <1>4, <1>5 DEF IndInv, Restores

\* A step that sends the message of one peer.
LEMMA EmitStep ==
  ASSUME IndInv, NEW p \in Peers, buf[p] # NoMsg,
         NEW bytes, bytes = Partly(buf[p].len, {}, nonce[p]).bytes, Emit(p, bytes)
  PROVE  IndInv'
<1> DEFINE c0 == [from |-> p, k |-> sent[p], len |-> buf[p].len, n |-> nonce[p],
                  bytes |-> bytes]
<1>1. /\ wire' = wire \cup {c0}
      /\ UNCHANGED <<base, nonce, want, rcvd, got>>
  BY DEF Emit
<1>2. \A q \in Peers : /\ buf'[q]  = IF q = p THEN NoMsg ELSE buf[q]
                       /\ sent'[q] = IF q = p THEN sent[p] + 1 ELSE sent[q]
                       /\ togo'[q] = IF q = p THEN Stride ELSE togo[q]
  BY DEF Emit, IndInv, TypeOK
<1>3. /\ togo[p] = 0 /\ buf[p].len \in Lens
      /\ nonce[p] = At(p, sent[p]) % NONCES
      /\ sent[p] \in Nat /\ base \in GenNonce
  BY Working DEF IndInv, TypeOK
<1>4. TypeOK'
  <2>2. \A q \in Peers :
          /\ buf'[q].len \in Lens \cup {0}
          /\ buf'[q].bytes \in [0..(buf'[q].len - 1) -> SUBSET Pads]
          /\ buf'[q].left \subseteq 0..(buf'[q].len - 1)
    <3> SUFFICES ASSUME NEW q \in Peers
                 PROVE  /\ buf'[q].len \in Lens \cup {0}
                        /\ buf'[q].bytes \in [0..(buf'[q].len - 1) -> SUBSET Pads]
                        /\ buf'[q].left \subseteq 0..(buf'[q].len - 1)
      OBVIOUS
    <3>1. CASE q = p
      BY <3>1, <1>2, NoMsgType
    <3>2. CASE q # p
      BY <3>2, <1>2 DEF IndInv, TypeOK
    <3> QED
      BY <3>1, <3>2
  <2>3. sent' \in [Peers -> Nat] /\ togo' \in [Peers -> 0..Stride] /\ DOMAIN buf' = Peers
    BY ConstantFacts DEF Emit, IndInv, TypeOK
  <2> QED
    BY <1>1, <2>2, <2>3 DEF IndInv, TypeOK, GenNonce, Pads
<1>5. /\ \A q \in Peers : At(q, sent[q])' = At(q, sent'[q]) /\ At(q, rcvd[q])' = At(q, rcvd'[q])
      /\ \A c : At(c.from, c.k)' = At(c.from, c.k)
  BY <1>1 DEF At
<1>6. \A q \in Peers :
        /\ rcvd'[q] <= sent'[q]
        /\ want'[q] = At(q, rcvd[q])' % NONCES
        /\ nonce'[q] = (At(q, sent[q])' - togo'[q]) % NONCES
        /\ togo'[q] > 0 => buf'[q] = NoMsg
        /\ buf'[q] = Partly(buf'[q].len, buf'[q].left, nonce'[q])
  <2> SUFFICES ASSUME NEW q \in Peers
               PROVE  /\ rcvd'[q] <= sent'[q]
                      /\ want'[q] = At(q, rcvd[q])' % NONCES
                      /\ nonce'[q] = (At(q, sent[q])' - togo'[q]) % NONCES
                      /\ togo'[q] > 0 => buf'[q] = NoMsg
                      /\ buf'[q] = Partly(buf'[q].len, buf'[q].left, nonce'[q])
    OBVIOUS
  <2>1. sent[q] \in Nat /\ rcvd[q] \in Nat /\ sent'[q] \in Nat /\ rcvd[q] <= sent[q]
    BY <1>2 DEF IndInv, TypeOK, CountInv
  <2>2. rcvd'[q] <= sent'[q] /\ want'[q] = At(q, rcvd[q])' % NONCES
    BY <1>1, <1>2, <1>5, <2>1 DEF IndInv, CountInv
  <2>3. CASE q = p
    <3>1. At(p, sent[p] + 1) - Stride = At(p, sent[p])
      BY <1>3, AtType, ConstantFacts
    <3>2. NoMsg.len = 0 /\ NoMsg.left = {}
      BY DEF NoMsg
    <3> QED
      BY <2>2, <2>3, <3>1, <3>2, <1>1, <1>2, <1>3, <1>5, <2>1, NoMsgPartly
  <2>4. CASE q # p
    BY <2>2, <2>4, <1>1, <1>2, <1>5, <2>1 DEF IndInv, CountInv
  <2> QED
    BY <2>3, <2>4
<1>7. \A c \in wire' :
        /\ c.from \in Peers /\ c.k \in Nat /\ c.k < sent'[c.from] /\ c.len \in Lens
        /\ c.n = At(c.from, c.k)' % NONCES
        /\ c.bytes = Partly(c.len, {}, c.n).bytes
  <2> SUFFICES ASSUME NEW c \in wire'
               PROVE  /\ c.from \in Peers /\ c.k \in Nat /\ c.k < sent'[c.from]
                      /\ c.len \in Lens
                      /\ c.n = At(c.from, c.k)' % NONCES
                      /\ c.bytes = Partly(c.len, {}, c.n).bytes
    OBVIOUS
  <2>1. CASE c \in wire
    <3>1. /\ c.from \in Peers /\ c.k \in Nat /\ c.k < sent[c.from] /\ c.len \in Lens
          /\ c.n = At(c.from, c.k) % NONCES
          /\ c.bytes = Partly(c.len, {}, c.n).bytes
      BY <2>1 DEF IndInv, CountInv
    <3> QED
      BY <3>1, <1>2, <1>3, <1>5
  <2>2. CASE c = c0
    BY <2>2, <1>2, <1>3, <1>5
  <2> QED
    BY <2>1, <2>2, <1>1
<1>8. \A c, d \in wire' : c.from = d.from /\ c.k = d.k => c = d
  <2>1. \A c \in wire : c.from \in Peers /\ c.k \in Nat /\ c.k < sent[c.from]
    BY DEF IndInv, CountInv
  <2>2. c0.from = p /\ c0.k = sent[p]
    OBVIOUS
  <2> HIDE DEF c0
  <2> QED
    BY <1>1, <1>3, <2>1, <2>2 DEF IndInv, CountInv
<1>9. CountInv'
  BY <1>6, <1>7, <1>8 DEF CountInv
<1> QED
  BY <1>1, <1>4, <1>9 DEF IndInv, Restores

\* A step by which a peer or its receiver goes on.
LEMMA CountStep ==
  ASSUME IndInv, UNCHANGED <<base, sent, buf, wire>>,
         nonce' \in [Peers -> GenNonce], want' \in [Peers -> GenNonce],
         togo' \in [Peers -> 0..Stride], rcvd' \in [Peers -> Nat], Restores',
         \A q \in Peers :
           /\ rcvd'[q] <= sent[q]
           /\ want'[q] = At(q, rcvd'[q]) % NONCES
           /\ nonce'[q] = (At(q, sent[q]) - togo'[q]) % NONCES
           /\ togo'[q] > 0 => togo[q] > 0
           /\ nonce'[q] # nonce[q] => togo[q] > 0
  PROVE  IndInv'
<1>1. TypeOK'
  BY DEF IndInv, TypeOK, GenNonce, Pads
<1>2. /\ \A q \in Peers : At(q, sent[q])' = At(q, sent'[q]) /\ At(q, rcvd[q])' = At(q, rcvd'[q])
      /\ \A c : At(c.from, c.k)' = At(c.from, c.k)
  BY DEF At
<1>3. \A q \in Peers : buf'[q] = Partly(buf'[q].len, buf'[q].left, nonce'[q])
  <2> SUFFICES ASSUME NEW q \in Peers
               PROVE  buf[q] = Partly(buf[q].len, buf[q].left, nonce'[q])
    OBVIOUS
  <2>1. CASE nonce'[q] = nonce[q]
    BY <2>1 DEF IndInv, CountInv
  <2>2. CASE nonce'[q] # nonce[q]
    <3>1. buf[q] = NoMsg
      BY <2>2 DEF IndInv, CountInv
    <3>2. NoMsg.len = 0 /\ NoMsg.left = {}
      BY DEF NoMsg
    <3> QED
      BY <3>1, <3>2, NoMsgPartly
  <2> QED
    BY <2>1, <2>2
<1>4. \A q \in Peers : rcvd'[q] \in Nat /\ sent'[q] \in Nat
  BY DEF IndInv, TypeOK
<1>5. \A q \in Peers :
        /\ rcvd'[q] <= sent'[q]
        /\ want'[q] = At(q, rcvd[q])' % NONCES
        /\ nonce'[q] = (At(q, sent[q])' - togo'[q]) % NONCES
        /\ togo'[q] > 0 => buf'[q] = NoMsg
  BY <1>2, <1>4 DEF IndInv, CountInv
<1>6. \A c \in wire' :
        /\ c.from \in Peers /\ c.k \in Nat /\ c.k < sent'[c.from] /\ c.len \in Lens
        /\ c.n = At(c.from, c.k)' % NONCES
        /\ c.bytes = Partly(c.len, {}, c.n).bytes
  BY <1>2 DEF IndInv, CountInv
<1>7. CountInv'
  BY <1>3, <1>5, <1>6 DEF IndInv, CountInv
<1> QED
  BY <1>1, <1>7 DEF IndInv

LEMMA WritePreserves ==
  ASSUME IndInv, NEW p \in Peers, NEW len \in Lens, Write(p, len)
  PROVE  IndInv'
<1>1. [len |-> len, bytes |-> Plaintext(len), left |-> 0..(len - 1)]
        = Partly(len, 0..(len - 1), nonce[p])
  BY DEF Partly, Plaintext
<1>2. 0..(len - 1) \in SUBSET (0..(len - 1)) /\ len \in Lens \cup {0}
  OBVIOUS
<1> QED
  BY <1>1, <1>2, BufStep DEF Write

LEMMA EncryptPartPreserves ==
  ASSUME IndInv, NEW p \in Peers, NEW f \in 0..buf[p].len, NEW l \in 0..buf[p].len,
         EncryptPart(p, f, l)
  PROVE  IndInv'
<1> DEFINE b    == buf[p]
           n    == nonce[p]
           part == f..(f + l - 1)
           new  == [i \in 0..(b.len - 1) |-> IF i \in b.left \ part THEN {} ELSE {Pad(n, 0, i)}]
<1>0. b.len \in Nat /\ f \in Nat /\ l \in Nat
  <2>1. buf[p].len \in Lens \cup {0}
    BY DEF IndInv, TypeOK
  <2>2. buf[p].len \in Nat
    BY <2>1, LensNat
  <2> QED
    BY <2>2
<1>1. b = Partly(b.len, b.left, n)
  BY DEF IndInv, CountInv
<1>2. DOMAIN b.bytes = 0..(b.len - 1)
      /\ \A i \in 0..(b.len - 1) : b.bytes[i] = IF i \in b.left THEN {} ELSE {Pad(n, 0, i)}
  BY <1>1, PartlyFields
<1>3. f % BLOCK = 0 /\ part \subseteq b.left /\ f \in part
  BY <1>0 DEF EncryptPart
<1>4. \A i \in part : i \in Nat /\ f <= i /\ Pad(n, f \div BLOCK, i - f) = Pad(n, 0, i)
  BY <1>0, <1>3, PadSplit
<1>5. StreamXorIcInplace(b.bytes, f, l, n, f \div BLOCK) = new
  <2>1. \A i \in 0..(b.len - 1) :
          (IF i \in part THEN XorByte(b.bytes[i], Pad(n, f \div BLOCK, i - f)) ELSE b.bytes[i])
            = (IF i \in b.left \ part THEN {} ELSE {Pad(n, 0, i)})
    BY <1>2, <1>3, <1>4 DEF XorByte
  <2> QED
    BY <2>1, <1>2 DEF StreamXorIcInplace
<1>6. [len |-> b.len, bytes |-> new, left |-> b.left \ part] = Partly(b.len, b.left \ part, n)
  BY DEF Partly
<1>7. buf' = [buf EXCEPT ![p] = Partly(b.len, b.left \ part, n)]
  <2>1. buf' = [buf EXCEPT ![p] =
          [len |-> b.len, bytes |-> StreamXorIcInplace(b.bytes, f, l, n, f \div BLOCK),
           left |-> b.left \ part]]
    BY DEF EncryptPart
  <2> QED
    BY <2>1, <1>5, <1>6
<1>8. b # NoMsg
  BY <1>3, NoMsgType
<1>9. togo[p] = 0
  BY <1>8, Working
<1>10. b.len \in Lens \cup {0} /\ b.left \ part \in SUBSET (0..(b.len - 1))
  BY DEF IndInv, TypeOK
<1>11. UNCHANGED <<base, nonce, togo, sent, wire, want, rcvd, got>>
  BY DEF EncryptPart
<1> HIDE DEF b, n, part, new
<1> QED
  BY <1>7, <1>9, <1>10, <1>11, BufStep DEF n

\* stream_xor and its in-place variant, of a message not encrypted yet.
LEMMA WholeXor ==
  ASSUME IndInv, NEW p \in Peers, buf[p].left = 0..(buf[p].len - 1)
  PROVE  /\ buf[p].len \in Nat
         /\ DOMAIN buf[p].bytes = 0..(buf[p].len - 1)
         /\ \A i \in 0..(buf[p].len - 1) : buf[p].bytes[i] = {}
         /\ StreamXor(buf[p].bytes, nonce[p]) = Partly(buf[p].len, {}, nonce[p]).bytes
<1>1. buf[p] = Partly(buf[p].len, buf[p].left, nonce[p])
  BY DEF IndInv, CountInv
<1>2. DOMAIN buf[p].bytes = 0..(buf[p].len - 1)
      /\ \A i \in 0..(buf[p].len - 1) : buf[p].bytes[i] = {}
  BY <1>1, PartlyFields
<1>3. StreamXor(buf[p].bytes, nonce[p]) = Partly(buf[p].len, {}, nonce[p]).bytes
  <2>1. Partly(buf[p].len, {}, nonce[p]).bytes = [i \in 0..(buf[p].len - 1) |-> {Pad(nonce[p], 0, i)}]
    BY DEF Partly
  <2>2. StreamXor(buf[p].bytes, nonce[p]) = [i \in 0..(buf[p].len - 1) |-> {Pad(nonce[p], 0, i)}]
    BY <1>2 DEF StreamXor, XorByte
  <2> QED
    BY <2>1, <2>2
<1>4. buf[p].len \in Lens \cup {0}
  BY DEF IndInv, TypeOK
<1> QED
  BY <1>2, <1>3, <1>4, LensNat

LEMMA EncryptInplacePreserves ==
  ASSUME IndInv, NEW p \in Peers, EncryptInplace(p)
  PROVE  IndInv'
<1>1. buf[p] # NoMsg /\ buf[p].left = 0..(buf[p].len - 1)
  BY DEF EncryptInplace
<1>2. togo[p] = 0 /\ buf[p].len \in Lens
  BY <1>1, Working
<1>3. buf[p] = Partly(buf[p].len, buf[p].left, nonce[p])
  BY DEF IndInv, CountInv
<1>4. StreamXorInplace(buf[p].bytes, nonce[p]) = Partly(buf[p].len, {}, nonce[p]).bytes
  BY <1>1, WholeXor DEF StreamXorInplace, StreamXor
<1>5. [len |-> buf[p].len, bytes |-> StreamXorInplace(buf[p].bytes, nonce[p]), left |-> {}]
        = Partly(buf[p].len, {}, nonce[p])
  <2>1. Partly(buf[p].len, {}, nonce[p])
          = [len |-> buf[p].len, bytes |-> Partly(buf[p].len, {}, nonce[p]).bytes, left |-> {}]
    BY DEF Partly
  <2> QED
    BY <2>1, <1>4
<1>6. buf' = [buf EXCEPT ![p] = Partly(buf[p].len, {}, nonce[p])]
  BY <1>5 DEF EncryptInplace
<1>7. UNCHANGED <<base, nonce, togo, sent, wire, want, rcvd, got>>
  BY DEF EncryptInplace
<1> QED
  BY <1>2, <1>6, <1>7, BufStep

LEMMA SendBufferPreserves ==
  ASSUME IndInv, NEW p \in Peers, SendBuffer(p)
  PROVE  IndInv'
<1>1. buf[p] # NoMsg /\ buf[p].left = {} /\ Emit(p, buf[p].bytes)
  BY DEF SendBuffer
<1>2. buf[p] = Partly(buf[p].len, buf[p].left, nonce[p])
  BY DEF IndInv, CountInv
<1>3. buf[p].bytes = Partly(buf[p].len, {}, nonce[p]).bytes
  BY <1>1, <1>2
<1> QED
  BY <1>1, <1>3, EmitStep

LEMMA SendCopyPreserves ==
  ASSUME IndInv, NEW p \in Peers, SendCopy(p)
  PROVE  IndInv'
<1> DEFINE m   == buf[p].bytes
           len == buf[p].len
           n   == nonce[p]
           all == Partly(len, {}, n).bytes
<1>1. PICK bytes \in Copies(m, len, n) : Emit(p, bytes)
  BY DEF SendCopy
<1>2. buf[p] # NoMsg /\ buf[p].left = 0..(len - 1)
  BY DEF SendCopy
<1>3. len \in Nat /\ DOMAIN m = 0..(len - 1) /\ (\A i \in 0..(len - 1) : m[i] = {})
      /\ StreamXor(m, n) = all
  BY <1>2, WholeXor
<1>4. all = [i \in 0..(len - 1) |-> {Pad(n, 0, i)}]
  BY DEF Partly
<1>5. ByHand(m, len, n) = all
  BY <1>3, <1>4 DEF ByHand, Stream, XorByte
<1>6. ByBlocks(m, len, n) = all
  <2>1. ASSUME NEW i \in 0..(len - 1),
               NEW f, f = i - (i % BLOCK),
               NEW l, l = IF f + BLOCK <= len THEN BLOCK ELSE len - f
        PROVE  StreamXorIc(m, f, l, n, f \div BLOCK)[i] = {Pad(n, 0, i)}
    <3>1. i \in Nat /\ BLOCK \in Nat \ {0} /\ i \in Int
      <4>1. len \in Nat
        BY <1>3
      <4> HIDE DEF len
      <4> QED
        BY <4>1, <2>1, ConstantFacts
    <3>2. PICK q \in Int, r \in 0..(BLOCK - 1) : r = i % BLOCK /\ i = (BLOCK * q) + r
      BY <3>1, DivMod
    <3>3. f = (BLOCK * q) + 0 /\ f \in Int /\ f <= i /\ i < f + BLOCK
      BY <3>1, <3>2, <2>1
    <3>4. f \in Nat
      <4>1. q <= -1 => BLOCK * q <= -BLOCK
        BY <3>1
      <4> QED
        BY <4>1, <3>1, <3>2, <3>3
    <3>5. f % BLOCK = 0
      BY <3>1, <3>3, ModUnique
    <3>6. i \in f..(f + l - 1)
      BY <1>3, <2>1, <3>1, <3>3
    <3>7. StreamXorIc(m, f, l, n, f \div BLOCK)[i] = XorByte(m[i], Pad(n, f \div BLOCK, i - f))
      BY <3>6 DEF StreamXorIc
    <3>8. Pad(n, f \div BLOCK, i - f) = Pad(n, 0, i)
      BY <3>1, <3>3, <3>4, <3>5, PadSplit
    <3> QED
      BY <3>7, <3>8, <2>1, <1>3 DEF XorByte
  <2> QED
    BY <2>1, <1>4 DEF ByBlocks
<1>7. bytes = all
  BY <1>1, <1>3, <1>5, <1>6 DEF Copies
<1> QED
  BY <1>1, <1>2, <1>7, EmitStep

\* By which amount t, if any, the peer has to go on after the step.
LEMMA SenderCounts ==
  ASSUME IndInv, NEW p \in Peers,
         (\E l \in SliceLens : Advance(p, l)) \/ Increment(p)
  PROVE  \E n \in GenNonce, t \in 0..Stride :
           /\ nonce' = [nonce EXCEPT ![p] = n] /\ togo' = [togo EXCEPT ![p] = t]
           /\ n = (At(p, sent[p]) - t) % NONCES /\ togo[p] > 0
<1>1. /\ base \in GenNonce /\ sent[p] \in Nat /\ togo[p] \in 0..Stride
      /\ nonce[p] = (At(p, sent[p]) - togo[p]) % NONCES /\ nonce[p] \in GenNonce
  BY DEF IndInv, TypeOK, CountInv
<1>2. PICK a \in Int : a = At(p, sent[p]) /\ a % NONCES \in GenNonce
  BY <1>1, AtType
<1>3. Stride \in Nat \ {0} /\ NONCES \in Nat \ {0}
  BY ConstantFacts
<1>4. PICK x \in Int : x = a - togo[p] /\ nonce[p] = x % NONCES
  BY <1>1, <1>2, <1>3
<1>5. ASSUME NEW l \in SliceLens, Advance(p, l)
      PROVE  \E n \in GenNonce, t \in 0..Stride :
               /\ nonce' = [nonce EXCEPT ![p] = n] /\ togo' = [togo EXCEPT ![p] = t]
               /\ n = (At(p, sent[p]) - t) % NONCES /\ togo[p] > 0
  <2>1. PICK r : r = AddLe(nonce[p], [len |-> l, val |-> Stride])
    OBVIOUS
  <2>2. /\ togo[p] = Stride /\ nonce' = [nonce EXCEPT ![p] = r.n]
        /\ togo' = [togo EXCEPT ![p] = IF r.ok THEN 0 ELSE togo[p]]
    BY <1>5, <2>1 DEF Advance
  <2>3. CASE l # NONCEBYTES
    <3>1. ~ r.ok /\ r.n = nonce[p]
      BY <2>3, <2>1, AddLeRefuses
    <3>2. togo' = [togo EXCEPT ![p] = togo[p]] /\ nonce' = [nonce EXCEPT ![p] = nonce[p]]
      BY <3>1, <2>2
    <3>3. togo[p] > 0
      BY <2>2, <1>3
    <3> QED
      BY <3>2, <3>3, <1>1
  <2>4. CASE l = NONCEBYTES
    <3>0. r = AddLe(nonce[p], Number(Stride))
      BY <2>1, <2>4, AddLeAccepts
    <3>1. r.ok /\ r.n = (x + Stride) % NONCES
      BY <3>0, <1>4, AddLeStep, AddLeAccepts
    <3>2. x + Stride = a /\ a - 0 = a
      BY <2>2, <1>1, <1>3, <1>4
    <3>3. 0 \in 0..Stride /\ r.n \in GenNonce /\ r.n = (At(p, sent[p]) - 0) % NONCES
      BY <3>1, <3>2, <1>2, <1>3
    <3>4. togo' = [togo EXCEPT ![p] = 0] /\ togo[p] > 0
      BY <3>1, <2>2, <1>3
    <3> QED
      BY <3>3, <3>4, <2>2
  <2> QED
    BY <2>3, <2>4
<1>6. ASSUME Increment(p)
      PROVE  \E n \in GenNonce, t \in 0..Stride :
               /\ nonce' = [nonce EXCEPT ![p] = n] /\ togo' = [togo EXCEPT ![p] = t]
               /\ n = (At(p, sent[p]) - t) % NONCES /\ togo[p] > 0
  <2>1. /\ togo[p] > 0 /\ nonce' = [nonce EXCEPT ![p] = IncrementLe(nonce[p])]
        /\ togo' = [togo EXCEPT ![p] = togo[p] - 1]
    BY <1>6 DEF Increment, IncrementLeInplace
  <2>2. IncrementLe(nonce[p]) = (x + 1) % NONCES
    BY <1>4, AddLeStep
  <2>3. x + 1 = a - (togo[p] - 1) /\ x + 1 \in Int
    BY <1>1, <1>3, <1>4
  <2>4. (x + 1) % NONCES \in GenNonce
    BY <2>3, <1>3, DivMod DEF GenNonce
  <2>5. togo[p] - 1 \in 0..Stride
    BY <2>1, <1>1, <1>3
  <2>6. (x + 1) % NONCES = (At(p, sent[p]) - (togo[p] - 1)) % NONCES
    BY <2>3, <1>2
  <2> QED
    BY <2>1, <2>2, <2>4, <2>5, <2>6
<1> QED
  BY <1>5, <1>6

LEMMA SenderCountPreserves ==
  ASSUME IndInv, NEW p \in Peers,
         (\E l \in SliceLens : Advance(p, l)) \/ Increment(p)
  PROVE  IndInv'
<1>1. UNCHANGED <<base, sent, buf, wire, want, rcvd, got>>
  BY DEF Advance, Increment
<1>2. PICK n \in GenNonce, t \in 0..Stride :
         /\ nonce' = [nonce EXCEPT ![p] = n] /\ togo' = [togo EXCEPT ![p] = t]
         /\ n = (At(p, sent[p]) - t) % NONCES /\ togo[p] > 0
  BY SenderCounts
<1>3. /\ nonce' \in [Peers -> GenNonce] /\ want' \in [Peers -> GenNonce]
      /\ togo' \in [Peers -> 0..Stride] /\ rcvd' \in [Peers -> Nat]
  BY <1>1, <1>2 DEF IndInv, TypeOK
<1>4. Restores'
  BY <1>1 DEF IndInv, Restores
<1>5. \A q \in Peers : /\ nonce'[q] = IF q = p THEN n ELSE nonce[q]
                       /\ togo'[q]  = IF q = p THEN t ELSE togo[q]
  BY <1>2 DEF IndInv, TypeOK
<1>6. \A q \in Peers :
           /\ rcvd'[q] <= sent[q]
           /\ want'[q] = At(q, rcvd'[q]) % NONCES
           /\ nonce'[q] = (At(q, sent[q]) - togo'[q]) % NONCES
           /\ togo'[q] > 0 => togo[q] > 0
           /\ nonce'[q] # nonce[q] => togo[q] > 0
  BY <1>1, <1>2, <1>5 DEF IndInv, CountInv
<1> QED
  BY <1>1, <1>3, <1>4, <1>6, CountStep

\* A message is received, or given up.
LEMMA ReceiverCountPreserves ==
  ASSUME IndInv, NEW p \in Peers, rcvd[p] < sent[p], Restores',
         want' = [want EXCEPT ![p] = AddLe(want[p], Number(Stride)).n],
         rcvd' = [rcvd EXCEPT ![p] = rcvd[p] + 1],
         UNCHANGED <<base, nonce, togo, sent, buf, wire>>
  PROVE  IndInv'
<1>1. /\ rcvd[p] \in Nat /\ sent[p] \in Nat /\ base \in GenNonce
      /\ want[p] = At(p, rcvd[p]) % NONCES /\ At(p, rcvd[p]) \in Int
  BY AtType DEF IndInv, TypeOK, CountInv
<1>2. /\ AddLe(want[p], Number(Stride)).n = At(p, rcvd[p] + 1) % NONCES
      /\ At(p, rcvd[p] + 1) % NONCES \in GenNonce
  <2>1. AddLe(want[p], Number(Stride)).n = (At(p, rcvd[p]) + Stride) % NONCES
    BY <1>1, AddLeStep
  <2>2. At(p, rcvd[p]) + Stride = At(p, rcvd[p] + 1) /\ rcvd[p] + 1 \in Nat
    BY <1>1, AtType
  <2> QED
    BY <2>1, <2>2, <1>1, AtType
<1>3. \A q \in Peers :
        /\ want'[q] = IF q = p THEN At(p, rcvd[p] + 1) % NONCES ELSE want[q]
        /\ rcvd'[q] = IF q = p THEN rcvd[p] + 1 ELSE rcvd[q]
  BY <1>2 DEF IndInv, TypeOK
<1>4. want' \in [Peers -> GenNonce] /\ rcvd' \in [Peers -> Nat]
  BY <1>1, <1>2 DEF IndInv, TypeOK
<1>5. nonce' \in [Peers -> GenNonce] /\ togo' \in [Peers -> 0..Stride]
  BY DEF IndInv, TypeOK
<1>6. \A q \in Peers :
           /\ rcvd'[q] <= sent[q]
           /\ want'[q] = At(q, rcvd'[q]) % NONCES
           /\ nonce'[q] = (At(q, sent[q]) - togo'[q]) % NONCES
           /\ togo'[q] > 0 => togo[q] > 0
           /\ nonce'[q] # nonce[q] => togo[q] > 0
  BY <1>1, <1>3 DEF IndInv, CountInv
<1> QED
  BY <1>4, <1>5, <1>6, CountStep

LEMMA ReceivePreserves ==
  ASSUME IndInv, NEW c \in wire, Receive(c)
  PROVE  IndInv'
<1>1. /\ c.from \in Peers /\ c.k < sent[c.from] /\ c.k = rcvd[c.from]
      /\ c.n = At(c.from, c.k) % NONCES /\ c.len \in Lens
      /\ c.bytes = Partly(c.len, {}, c.n).bytes
  BY DEF IndInv, CountInv, Receive
<1>2. want[c.from] = c.n
  BY <1>1 DEF IndInv, CountInv
<1>3. c.bytes = [i \in 0..(c.len - 1) |-> {Pad(c.n, 0, i)}]
  BY <1>1 DEF Partly
<1>4. got' = StreamXor(c.bytes, c.n)
  BY <1>2 DEF Receive
<1>5. Restores'
  BY <1>3, <1>4 DEF Restores, StreamXor, XorByte
<1>6. /\ want' = [want EXCEPT ![c.from] = AddLe(want[c.from], Number(Stride)).n]
      /\ rcvd' = [rcvd EXCEPT ![c.from] = rcvd[c.from] + 1]
      /\ UNCHANGED <<base, nonce, togo, sent, buf, wire>>
  BY DEF Receive
<1> QED
  BY <1>1, <1>5, <1>6, ReceiverCountPreserves

LEMMA NextPreserves == IndInv /\ [Next]_vars => IndInv'
<1> SUFFICES ASSUME IndInv, [Next]_vars PROVE IndInv'
  OBVIOUS
<1>1. CASE UNCHANGED vars
  BY <1>1 DEF vars, IndInv, TypeOK, CountInv, Restores, At, GenNonce, Pads
<1>2. ASSUME NEW p \in Peers, NEW len \in Lens, Write(p, len) PROVE IndInv'
  BY <1>2, WritePreserves
<1>3. ASSUME NEW p \in Peers, NEW f \in 0..buf[p].len, NEW l \in 0..buf[p].len,
             EncryptPart(p, f, l) PROVE IndInv'
  BY <1>3, EncryptPartPreserves
<1>4. ASSUME NEW p \in Peers, EncryptInplace(p) PROVE IndInv'
  BY <1>4, EncryptInplacePreserves
<1>5. ASSUME NEW p \in Peers, SendBuffer(p) PROVE IndInv'
  BY <1>5, SendBufferPreserves
<1>6. ASSUME NEW p \in Peers, SendCopy(p) PROVE IndInv'
  BY <1>6, SendCopyPreserves
<1>7. ASSUME NEW p \in Peers, (\E l \in SliceLens : Advance(p, l)) \/ Increment(p)
      PROVE  IndInv'
  BY <1>7, SenderCountPreserves
<1>8. ASSUME NEW p \in Peers, Skip(p) PROVE IndInv'
  <2>1. Restores'
    BY <1>8 DEF Skip, IndInv, Restores
  <2> QED
    BY <1>8, <2>1, ReceiverCountPreserves DEF Skip
<1>9. ASSUME NEW c \in wire, Receive(c) PROVE IndInv'
  BY <1>9, ReceivePreserves
<1> QED
  BY <1>1, <1>2, <1>3, <1>4, <1>5, <1>6, <1>7, <1>8, <1>9 DEF Next

\* The invariant holds of every behaviour.
THEOREM IndInvHolds == Spec => []IndInv
  BY InitInv, NextPreserves, PTL DEF Spec

-----------------------------------------------------------------------------
(* The theorems.                                                           *)

\* Types, for any number of peers, any nonce length and any block size.
THEOREM TypeCorrect == Spec => []TypeOK
<1>1. IndInv => TypeOK
  BY DEF IndInv
<1> QED
  BY <1>1, IndInvHolds, PTL

\* Counting by increment_le or by add_le, with wrap-around, leads senders and
\* receivers to the same nonces.
THEOREM Counting == Spec => []CountInv
<1>1. IndInv => CountInv
  BY DEF IndInv
<1> QED
  BY <1>1, IndInvHolds, PTL

\* stream_xor decrypts what any of the encrypting functions produced.
THEOREM Decrypts == Spec => []Restores
<1>1. IndInv => Restores
  BY DEF IndInv
<1> QED
  BY <1>1, IndInvHolds, PTL

\* The parts given to stream_xor_ic_inplace make the message stream_xor makes.
THEOREM Parts == Spec => []PartsMakeTheWhole
<1>1. ASSUME IndInv, NEW c \in wire
      PROVE  c.bytes = StreamXor(Plaintext(c.len), c.n)
  <2>1. c.bytes = [i \in 0..(c.len - 1) |-> {Pad(c.n, 0, i)}]
    BY <1>1 DEF IndInv, CountInv, Partly
  <2>2. StreamXor(Plaintext(c.len), c.n) = [i \in 0..(c.len - 1) |-> {Pad(c.n, 0, i)}]
    BY DEF StreamXor, Plaintext, XorByte
  <2> QED
    BY <2>1, <2>2
<1>2. IndInv => PartsMakeTheWhole
  BY <1>1 DEF PartsMakeTheWhole
<1> QED
  BY <1>2, IndInvHolds, PTL

LEMMA SentBytes ==
  ASSUME IndInv, NEW c \in wire
  PROVE  /\ c.from \in Peers /\ c.k \in Nat /\ c.len \in Lens
         /\ c.n = At(c.from, c.k) % NONCES
         /\ \A i \in 0..(c.len - 1) : c.bytes[i] = {Pad(c.n, 0, i)}
<1>1. /\ c.from \in Peers /\ c.k \in Nat /\ c.len \in Lens
      /\ c.n = At(c.from, c.k) % NONCES
      /\ c.bytes = Partly(c.len, {}, c.n).bytes
  BY DEF IndInv, CountInv
<1>2. Partly(c.len, {}, c.n).bytes = [i \in 0..(c.len - 1) |-> {Pad(c.n, 0, i)}]
  BY DEF Partly
<1> QED
  BY <1>1, <1>2

\* A keystream block is used once within a message that fits the block counter.
THEOREM OncePerMessage == Spec => []NoReuseWithin
<1>1. ASSUME IndInv, NEW c \in wire, NEW i \in 0..(c.len - 1), NEW j \in 0..(c.len - 1), i # j
      PROVE  c.bytes[i] \cap c.bytes[j] = {}
  <2>1. c.len \in 1..(BLOCK * COUNTERS) /\ BLOCK * COUNTERS \in Nat
    <3>1. c.len \in Lens /\ Lens \subseteq 1..(BLOCK * COUNTERS)
      BY <1>1, SentBytes, KeystreamAssumption
    <3>2. BLOCK * COUNTERS \in Nat
      BY ConstantFacts
    <3> QED
      BY <3>1, <3>2
  <2>2. i \in 0..((BLOCK * COUNTERS) - 1) /\ j \in 0..((BLOCK * COUNTERS) - 1)
    BY <2>1
  <2>3. Pad(c.n, 0, i) # Pad(c.n, 0, j)
    BY <1>1, <2>2, PadInjective
  <2>4. c.bytes[i] = {Pad(c.n, 0, i)} /\ c.bytes[j] = {Pad(c.n, 0, j)}
    BY <1>1, SentBytes
  <2> QED
    BY <2>3, <2>4
<1>2. IndInv => NoReuseWithin
  BY <1>1 DEF NoReuseWithin
<1> QED
  BY <1>2, IndInvHolds, PTL

\* Messages that share a nonce are of the same peer, a whole round apart.
LEMMA SameNonce ==
  ASSUME base \in GenNonce, NEW p \in Peers, NEW q \in Peers, NEW j \in Nat, NEW k \in Nat,
         At(p, j) % NONCES = At(q, k) % NONCES
  PROVE  p = q /\ j % PerPeer = k % PerPeer
<1> DEFINE S == Stride
           R == PerPeer
<1>1. /\ S \in Nat \ {0} /\ R \in Nat \ {0} /\ NONCES \in Nat \ {0} /\ base \in Int
      /\ Lane[p] \in 0..(S - 1) /\ Lane[q] \in 0..(S - 1)
  BY ConstantFacts DEF GenNonce
<1>2. At(p, j) \in Int /\ At(q, k) \in Int
  BY AtType
<1>3. PICK t \in Int : At(p, j) - At(q, k) = NONCES * t
  BY <1>1, <1>2, Congruent
<1>4. NONCES * t = S * (R * t) /\ R * t \in Int
  BY <1>1 DEF NONCES
<1>5. At(p, j) - At(q, k) = (Lane[p] - Lane[q]) + (S * (j - k))
  <2>1. S * j \in Int /\ S * k \in Int /\ S * (j - k) = (S * j) - (S * k)
    BY <1>1
  <2>2. PICK sj \in Int, sk \in Int : sj = S * j /\ sk = S * k
    BY <2>1
  <2>3. At(p, j) = base + Lane[p] + sj /\ At(q, k) = base + Lane[q] + sk
    BY <2>2 DEF At
  <2>4. ASSUME NEW b \in Int, NEW x \in Int, NEW y \in Int
        PROVE  (b + x + sj) - (b + y + sk) = (x - y) + (sj - sk)
    OBVIOUS
  <2>5. S * (j - k) = sj - sk
    BY <2>1, <2>2
  <2>6. Lane[p] \in Int /\ Lane[q] \in Int /\ base \in Int
    BY <1>1
  <2>7. (base + Lane[p] + sj) - (base + Lane[q] + sk) = (Lane[p] - Lane[q]) + (sj - sk)
    BY <2>4, <2>6
  <2> QED
    BY <2>3, <2>5, <2>7
<1>6. PICK w \in Int : w = R * t
  BY <1>4
<1>7. Lane[p] - Lane[q] = S * (w - (j - k)) /\ w - (j - k) \in Int
  <2>1. S * (w - (j - k)) = (S * w) - (S * (j - k)) /\ S * w \in Int /\ S * (j - k) \in Int
    BY <1>1
  <2>2. (Lane[p] - Lane[q]) + (S * (j - k)) = S * w
    BY <1>3, <1>4, <1>5, <1>6
  <2> QED
    BY <2>1, <2>2, <1>1
<1>8. Lane[p] = Lane[q] /\ w - (j - k) = 0
  BY <1>1, <1>7, Lanes
<1>9. p = q
  BY <1>8, KeystreamAssumption
<1>10. j = k + w
  BY <1>8
<1>11. j % R = k % R
  <2>1. k \in Int /\ R \in Nat \ {0}
    BY <1>1
  <2>2. PICK u \in Int, v \in 0..(R - 1) : k = (R * u) + v /\ v = k % R
    BY <2>1, DivMod
  <2>3. R * u \in Int /\ R * (u + t) = (R * u) + (R * t) /\ u + t \in Int
    BY <2>1
  <2>4. PICK a \in Int : a = R * u
    BY <2>3
  <2>5. j = (a + v) + w
    BY <2>2, <2>4, <1>10
  <2>6. j = (a + w) + v
    BY <2>5
  <2>7. a + w = R * (u + t)
    BY <2>3, <2>4, <1>6
  <2>8. PICK z \in Int : z = u + t
    BY <2>3
  <2>9. j = (R * z) + v /\ j \in Int
    BY <2>6, <2>7, <2>8
  <2>10. j % R = v
    BY <2>1, <2>9, ModUnique
  <2> QED
    BY <2>2, <2>10
<1> QED
  BY <1>9, <1>11

\* No keystream byte is used for two messages before a peer's nonces are used
\* up, and none is ever used by two peers.
THEOREM Unique == Spec => []NoReuse
<1>1. ASSUME IndInv, NEW c \in wire, NEW d \in wire, c # d,
             NEW i \in 0..(c.len - 1), NEW j \in 0..(d.len - 1),
             c.bytes[i] \cap d.bytes[j] # {}
      PROVE  c.from = d.from /\ c.k # d.k /\ c.k % PerPeer = d.k % PerPeer
  <2>1. c.bytes[i] = {Pad(c.n, 0, i)} /\ d.bytes[j] = {Pad(d.n, 0, j)}
    BY <1>1, SentBytes
  <2>2. Pad(c.n, 0, i) = Pad(d.n, 0, j)
    BY <1>1, <2>1
  <2>3. c.n = d.n
    BY <2>2 DEF Pad
  <2>4. /\ c.from \in Peers /\ c.k \in Nat /\ c.n = At(c.from, c.k) % NONCES
        /\ d.from \in Peers /\ d.k \in Nat /\ d.n = At(d.from, d.k) % NONCES
        /\ base \in GenNonce
    BY <1>1, SentBytes DEF IndInv, TypeOK
  <2>5. c.from = d.from /\ c.k % PerPeer = d.k % PerPeer
    <3>1. PICK p \in Peers, q \in Peers, j1 \in Nat, k1 \in Nat :
            p = c.from /\ q = d.from /\ j1 = c.k /\ k1 = d.k
      BY <2>4
    <3>2. At(p, j1) % NONCES = At(q, k1) % NONCES
      BY <3>1, <2>3, <2>4
    <3>3. p = q /\ j1 % PerPeer = k1 % PerPeer
      BY <3>2, <2>4, SameNonce
    <3> QED
      BY <3>1, <3>3
  <2>6. c.k # d.k
    BY <2>5, <1>1 DEF IndInv, CountInv
  <2> QED
    BY <2>5, <2>6
<1>2. IndInv => NoReuse
  BY <1>1 DEF NoReuse
<1> QED
  BY <1>2, IndInvHolds, PTL
=============================================================================
