--------------------------- MODULE EncodingsProofs ---------------------------
(* Proofs about Encodings, for buffers, blocks and bytes of any size.       *)
EXTENDS Encodings, SequenceTheorems, WellFoundedInduction, TLAPS

-----------------------------------------------------------------------------
(* Arithmetic of blocks                                                    *)

LEMMA Division ==
  ASSUME NEW M \in Nat \ {0}, NEW x \in Nat
  PROVE  x \div M \in Nat /\ x % M \in 0..(M - 1) /\ x = (M * (x \div M)) + (x % M)
  OBVIOUS

LEMMA Multiple ==
  ASSUME NEW M \in Nat \ {0}, NEW q \in Nat
  PROVE  M * q \in Nat /\ (M * q) % M = 0
<1> DEFINE x == M * q
           a == x \div M
           b == x % M
<1>1. x \in Nat /\ a \in Nat /\ b \in 0..(M - 1) /\ x = (M * a) + b
  <2>1. x \in Nat
    OBVIOUS
  <2> HIDE DEF x
  <2> QED
    BY <2>1, Division
<1>2. M * (q - a) = b
  BY <1>1
<1>3. q - a \in Int /\ (q - a >= 1 => M * (q - a) >= M) /\ (q - a <= -1 => M * (q - a) <= -M)
  BY <1>1
<1>4. q = a
  BY <1>1, <1>2, <1>3
<1> QED
  BY <1>1, <1>2, <1>4

\* sodium_pad fills up to the next multiple of the block size.
LEMMA NextMultiple ==
  ASSUME NEW n \in Nat, NEW bs \in Nat \ {0}
  PROVE  /\ PadBytes(n, bs) \in 1..bs
         /\ (n + PadBytes(n, bs)) % bs = 0
         /\ n + PadBytes(n, bs) >= bs
         /\ \A m \in Nat : m > n /\ m % bs = 0 => m >= n + PadBytes(n, bs)
<1> DEFINE q == n \div bs
           r == n % bs
<1>1. q \in Nat /\ r \in 0..(bs - 1) /\ n = (bs * q) + r
  BY Division
<1>2. PadBytes(n, bs) = bs - r /\ n + PadBytes(n, bs) = bs * (q + 1)
  BY <1>1 DEF PadBytes
<1>3. (bs * (q + 1)) % bs = 0
  BY <1>1, Multiple
<1>4. ASSUME NEW m \in Nat, m > n, m % bs = 0
      PROVE  m >= n + PadBytes(n, bs)
  <2> DEFINE p == m \div bs
  <2>1. p \in Nat /\ m = bs * p
    BY <1>4, Division
  <2>2. bs * (p - q) > r - r /\ bs * (p - q) = m - n + r
    BY <1>1, <1>4, <2>1
  <2>3. p - q >= 1
    <3>1. p - q \in Int /\ (p - q <= 0 => bs * (p - q) <= 0)
      BY <1>1, <2>1
    <3> QED
      BY <1>1, <2>1, <2>2, <3>1
  <2>4. bs * (p - q) >= bs
    BY <1>1, <2>1, <2>3
  <2> QED
    BY <1>1, <1>2, <2>2, <2>4
<1>5. bs * (q + 1) >= bs
  BY <1>1
<1> QED
  BY <1>1, <1>2, <1>3, <1>4, <1>5

-----------------------------------------------------------------------------
(* Digits and their crumbs                                                 *)

\* A quotient and a remainder are the only ones.
LEMMA DivisionUnique ==
  ASSUME NEW M \in Nat \ {0}, NEW q \in Nat, NEW r \in 0..(M - 1)
  PROVE  (M * q) + r \in Nat /\ ((M * q) + r) \div M = q /\ ((M * q) + r) % M = r
<1> DEFINE x == (M * q) + r
           a == x \div M
           b == x % M
<1>1. x \in Nat /\ M * q \in Nat
  OBVIOUS
<1>2. a \in Nat /\ b \in 0..(M - 1) /\ x = (M * a) + b
  <2> HIDE DEF x
  <2> QED
    BY <1>1, Division
<1>3. M * (q - a) = b - r
  BY <1>1, <1>2
<1>4. q - a \in Int /\ (q - a >= 1 => M * (q - a) >= M) /\ (q - a <= -1 => M * (q - a) <= -M)
  BY <1>2
<1>5. q = a
  BY <1>2, <1>3, <1>4
<1> QED
  BY <1>1, <1>2, <1>3, <1>5

\* Dividing twice is dividing by the product.
LEMMA NestedDivision ==
  ASSUME NEW a \in Nat \ {0}, NEW b \in Nat \ {0}, NEW v \in Nat
  PROVE  v \div (a * b) = (v \div a) \div b
<1> DEFINE p == v \div a
           r == v % a
           q == p \div b
           s == p % b
           m == a * b
           t == (a * s) + r
<1>1. p \in Nat /\ r \in 0..(a - 1) /\ v = (a * p) + r
  BY Division
<1>2. q \in Nat /\ s \in 0..(b - 1) /\ p = (b * q) + s
  <2> HIDE DEF p
  <2> QED
    BY <1>1, Division
<1>3. m \in Nat \ {0}
  OBVIOUS
<1> HIDE DEF p, r, q, s
<1>4. v = (m * q) + t
  <2>1. a * p = (a * (b * q)) + (a * s)
    BY <1>2
  <2>2. a * (b * q) = (a * b) * q
    BY <1>2
  <2> QED
    BY <1>1, <1>2, <2>1, <2>2
<1>5. t \in 0..(m - 1)
  <2>1. a * s <= a * (b - 1) /\ a * s >= 0
    BY <1>2
  <2>2. a * (b - 1) = m - a
    OBVIOUS
  <2> QED
    BY <1>1, <1>2, <1>3, <2>1, <2>2
<1> HIDE DEF m, t
<1>6. v \div m = q
  BY <1>2, <1>3, <1>4, <1>5, DivisionUnique
<1> QED
  BY <1>6 DEF m, q, p

LEMMA ValuesStep ==
  /\ CRUMB \in Nat \ {0} /\ CRUMB > 1
  /\ Values(0) = 1
  /\ \A w \in 0..3 : Values(w) \in Nat \ {0} /\ Values(w + 1) = CRUMB * Values(w)
  /\ \A w \in 0..4 : Values(w) \in Nat \ {0}
<1> DEFINE C == CRUMB
<1>1. C \in Nat \ {0} /\ C > 1
  BY EncodingAssumption
<1>2. /\ Values(0) = 1 /\ Values(1) = C /\ Values(2) = C * C
      /\ Values(3) = C * C * C /\ Values(4) = C * C * C * C
  BY DEF Values
<1>3. C * C \in Nat \ {0}
  BY <1>1
<1>4. C * C * C = C * (C * C) /\ C * C * C \in Nat \ {0}
  BY <1>1, <1>3
<1>5. C * C * C * C = C * (C * C * C) /\ C * C * C * C \in Nat \ {0}
  BY <1>1, <1>4
<1>6. Values(1) = C * Values(0) /\ Values(2) = C * Values(1)
  BY <1>1, <1>2
<1>7. Values(3) = C * Values(2) /\ Values(4) = C * Values(3)
  BY <1>2, <1>4, <1>5
<1>8. /\ Values(0) \in Nat \ {0} /\ Values(1) \in Nat \ {0} /\ Values(2) \in Nat \ {0}
      /\ Values(3) \in Nat \ {0} /\ Values(4) \in Nat \ {0}
  BY <1>1, <1>2, <1>3, <1>4, <1>5
<1> HIDE DEF C
<1>9. ASSUME NEW w \in 0..3
      PROVE  Values(w) \in Nat \ {0} /\ Values(w + 1) = C * Values(w)
  <2>1. CASE w = 0
    BY <1>6, <1>8, <2>1
  <2>2. CASE w = 1
    BY <1>6, <1>8, <2>2
  <2>3. CASE w = 2
    BY <1>7, <1>8, <2>3
  <2>4. CASE w = 3
    BY <1>7, <1>8, <2>4
  <2> QED
    BY <2>1, <2>2, <2>3, <2>4
<1>10. ASSUME NEW w \in 0..4
       PROVE  Values(w) \in Nat \ {0}
  <2>1. w = 0 \/ w = 1 \/ w = 2 \/ w = 3 \/ w = 4
    OBVIOUS
  <2> QED
    BY <1>8, <2>1
<1> QED
  BY <1>1, <1>2, <1>9, <1>10 DEF C

\* The last crumb of a digit, and the digit without it.
LEMMA LastCrumb ==
  ASSUME NEW w \in 0..3, NEW v \in Nat
  PROVE  /\ CrumbOf(v, w + 1, w) = v % CRUMB
         /\ v \div CRUMB \in Nat
         /\ \A t \in 0..(w - 1) : CrumbOf(v, w + 1, t) = CrumbOf(v \div CRUMB, w, t)
<1>1. CRUMB \in Nat \ {0}
  BY ValuesStep
<1>2. CrumbOf(v, w + 1, w) = v % CRUMB
  <2>1. (w + 1) - 1 - w = 0 /\ Values(0) = 1 /\ v \div 1 = v
    BY ValuesStep
  <2> QED
    BY <2>1 DEF CrumbOf
<1>3. ASSUME NEW t \in 0..(w - 1)
      PROVE  CrumbOf(v, w + 1, t) = CrumbOf(v \div CRUMB, w, t)
  <2> DEFINE k == w - 1 - t
  <2>1. k \in 0..3 /\ (w + 1) - 1 - t = k + 1
    OBVIOUS
  <2>2. Values(k) \in Nat \ {0} /\ Values(k + 1) = CRUMB * Values(k)
    BY <2>1, ValuesStep
  <2>3. v \div Values(k + 1) = (v \div CRUMB) \div Values(k)
    BY <1>1, <2>2, NestedDivision
  <2> QED
    BY <2>1, <2>3 DEF CrumbOf
<1>4. v \div CRUMB \in Nat
  BY <1>1, Division
<1> QED
  BY <1>2, <1>3, <1>4

LEMMA CrumbRange ==
  ASSUME NEW w \in 1..4, NEW v \in Nat, NEW t \in 0..(w - 1)
  PROVE  CrumbOf(v, w, t) \in 0..(CRUMB - 1)
<1> DEFINE k == w - 1 - t
           q == v \div Values(k)
<1>1. k \in 0..4
  OBVIOUS
<1>2. CRUMB \in Nat \ {0} /\ Values(k) \in Nat \ {0}
  BY <1>1, ValuesStep
<1> HIDE DEF k
<1>3. q \in Nat
  BY <1>2, Division
<1> HIDE DEF q
<1>4. q % CRUMB \in 0..(CRUMB - 1)
  BY <1>2, <1>3, Division
<1> QED
  BY <1>4 DEF CrumbOf, q, k

\* No two digits have the same crumbs, and all crumbs make a digit.
Distinct(w) ==
  \A x, y \in 0..(Values(w) - 1) :
    (\A t \in 0..(w - 1) : CrumbOf(x, w, t) = CrumbOf(y, w, t)) => x = y
Complete(w) ==
  \A f \in [0..(w - 1) -> 0..(CRUMB - 1)] :
    \E v \in 0..(Values(w) - 1) : \A t \in 0..(w - 1) : CrumbOf(v, w, t) = f[t]

LEMMA DistinctStep ==
  ASSUME NEW w \in 0..3, Distinct(w)
  PROVE  Distinct(w + 1)
<1> DEFINE C == CRUMB
           W == Values(w)
<1>1. C \in Nat \ {0} /\ W \in Nat \ {0} /\ Values(w + 1) = C * W
  BY ValuesStep
<1> SUFFICES ASSUME NEW x \in 0..((C * W) - 1), NEW y \in 0..((C * W) - 1),
                    \A t \in 0..w : CrumbOf(x, w + 1, t) = CrumbOf(y, w + 1, t)
             PROVE  x = y
  <2>1. (w + 1) - 1 = w
    OBVIOUS
  <2> QED
    BY <1>1, <2>1 DEF Distinct
<1>2. x \in Nat /\ y \in Nat
  BY <1>1
<1>3. x % C = y % C
  <2>1. w \in 0..w
    OBVIOUS
  <2>2. CrumbOf(x, w + 1, w) = x % C /\ CrumbOf(y, w + 1, w) = y % C
    BY <1>2, LastCrumb
  <2> QED
    BY <2>1, <2>2
<1>4. /\ x \div C \in Nat /\ y \div C \in Nat
      /\ x = (C * (x \div C)) + (x % C) /\ x % C \in 0..(C - 1)
      /\ y = (C * (y \div C)) + (y % C) /\ y % C \in 0..(C - 1)
  <2> HIDE DEF C
  <2> QED
    BY <1>1, <1>2, Division
<1>5. ASSUME NEW z \in Nat, z < C * W, NEW q \in Nat, NEW r \in 0..(C - 1), z = (C * q) + r
      PROVE  q \in 0..(W - 1)
  <2> HIDE DEF C, W
  <2>1. C * (q - W) < 0
    BY <1>1, <1>5
  <2>2. q - W \in Int /\ (q - W >= 0 => C * (q - W) >= 0)
    BY <1>1
  <2> QED
    BY <1>1, <2>1, <2>2
<1>6. x \div C \in 0..(W - 1) /\ y \div C \in 0..(W - 1)
  <2> HIDE DEF C, W
  <2>1. x < C * W /\ y < C * W
    BY <1>1
  <2> QED
    BY <1>2, <1>4, <1>5, <2>1
<1>7. \A t \in 0..(w - 1) : CrumbOf(x \div C, w, t) = CrumbOf(y \div C, w, t)
  <2> SUFFICES ASSUME NEW t \in 0..(w - 1)
               PROVE  CrumbOf(x \div C, w, t) = CrumbOf(y \div C, w, t)
    OBVIOUS
  <2>1. t \in 0..w
    OBVIOUS
  <2>2. CrumbOf(x, w + 1, t) = CrumbOf(x \div C, w, t) /\ CrumbOf(y, w + 1, t) = CrumbOf(y \div C, w, t)
    BY <1>2, LastCrumb
  <2> QED
    BY <2>1, <2>2
<1>8. x \div C = y \div C
  BY <1>6, <1>7 DEF Distinct
<1> QED
  BY <1>3, <1>4, <1>8

LEMMA CompleteStep ==
  ASSUME NEW w \in 0..3, Complete(w)
  PROVE  Complete(w + 1)
<1> DEFINE C == CRUMB
           W == Values(w)
<1>1. C \in Nat \ {0} /\ W \in Nat \ {0} /\ Values(w + 1) = C * W
  BY ValuesStep
<1> SUFFICES ASSUME NEW f \in [0..w -> 0..(C - 1)]
             PROVE  \E v \in 0..((C * W) - 1) : \A t \in 0..w : CrumbOf(v, w + 1, t) = f[t]
  <2>1. (w + 1) - 1 = w
    OBVIOUS
  <2> QED
    BY <1>1, <2>1 DEF Complete
<1> DEFINE g == [t \in 0..(w - 1) |-> f[t]]
<1>2. g \in [0..(w - 1) -> 0..(C - 1)]
  OBVIOUS
<1>3. PICK q \in 0..(W - 1) : \A t \in 0..(w - 1) : CrumbOf(q, w, t) = g[t]
  BY <1>2 DEF Complete
<1> DEFINE r == f[w]
           v == (C * q) + r
<1>4. r \in 0..(C - 1) /\ q \in Nat
  BY <1>1
<1> HIDE DEF C, W, r
<1>5. v \in Nat /\ v \div C = q /\ v % C = r
  BY <1>1, <1>4, DivisionUnique
<1>6. v \in 0..((C * W) - 1)
  <2>1. C * q <= C * (W - 1)
    BY <1>1, <1>4
  <2>2. C * (W - 1) = (C * W) - C
    BY <1>1
  <2> QED
    BY <1>1, <1>4, <1>5, <2>1, <2>2
<1> HIDE DEF v
<1>7. ASSUME NEW t \in 0..w
      PROVE  CrumbOf(v, w + 1, t) = f[t]
  <2>1. CASE t = w
    BY <1>5, <2>1, LastCrumb DEF C, r
  <2>2. CASE t # w
    <3>1. t \in 0..(w - 1)
      BY <2>2
    <3>2. CrumbOf(v, w + 1, t) = CrumbOf(v \div C, w, t)
      BY <1>5, <3>1, LastCrumb DEF C
    <3> QED
      BY <1>3, <1>5, <3>1, <3>2
  <2> QED
    BY <2>1, <2>2
<1> QED
  BY <1>6, <1>7

\* A digit is given by its crumbs.
LEMMA DigitsAreCrumbs ==
  ASSUME NEW w \in 1..4
  PROVE  Distinct(w) /\ Complete(w)
<1>1. Distinct(0) /\ Complete(0)
  <2>1. 0..(Values(0) - 1) = {0}
    BY ValuesStep
  <2> QED
    BY <2>1 DEF Distinct, Complete
<1>2. Distinct(1) /\ Complete(1)
  <2>1. Distinct(0 + 1) /\ Complete(0 + 1)
    BY <1>1, DistinctStep, CompleteStep
  <2> QED
    BY <2>1
<1>3. Distinct(2) /\ Complete(2)
  <2>1. Distinct(1 + 1) /\ Complete(1 + 1)
    BY <1>2, DistinctStep, CompleteStep
  <2> QED
    BY <2>1
<1>4. Distinct(3) /\ Complete(3)
  <2>1. Distinct(2 + 1) /\ Complete(2 + 1)
    BY <1>3, DistinctStep, CompleteStep
  <2> QED
    BY <2>1
<1>5. Distinct(4) /\ Complete(4)
  <2>1. Distinct(3 + 1) /\ Complete(3 + 1)
    BY <1>4, DistinctStep, CompleteStep
  <2> QED
    BY <2>1
<1>6. w = 1 \/ w = 2 \/ w = 3 \/ w = 4
  OBVIOUS
<1> QED
  BY <1>2, <1>3, <1>4, <1>5, <1>6

-----------------------------------------------------------------------------
(* Streams of crumbs in digits of another size                             *)

DigitsOf(w) == 0..(Values(w) - 1)

LEMMA DigitIsNat ==
  ASSUME NEW w \in 1..4
  PROVE  Values(w) \in Nat \ {0} /\ DigitsOf(w) \subseteq Nat
<1>1. w \in 0..4
  OBVIOUS
<1> QED
  BY <1>1, ValuesStep DEF DigitsOf

\* Where the t-th crumb of the j-th digit is.
LEMMA CrumbIndex ==
  ASSUME NEW w \in 1..4, NEW n \in Nat, NEW j \in 1..n, NEW t \in 0..(w - 1)
  PROVE  /\ (j - 1) * w + t \in 0..(w * n - 1)
         /\ ((j - 1) * w + t) \div w = j - 1
         /\ ((j - 1) * w + t) % w = t
<1>1. w \in Nat \ {0} /\ j - 1 \in Nat
  OBVIOUS
<1>2. (w * (j - 1)) + t \in Nat /\ ((w * (j - 1)) + t) \div w = j - 1 /\ ((w * (j - 1)) + t) % w = t
  BY <1>1, DivisionUnique
<1>3. (j - 1) * w + t = (w * (j - 1)) + t
  OBVIOUS
<1>4. w * (n - j) >= 0 /\ (w * (j - 1)) + w = (w * n) - (w * (n - j))
  OBVIOUS
<1> QED
  BY <1>1, <1>2, <1>3, <1>4

\* Every place in the stream is a crumb of a digit.
LEMMA IndexCrumb ==
  ASSUME NEW w \in 1..4, NEW n \in Nat, NEW i \in Nat, i < w * n
  PROVE  i \div w + 1 \in 1..n /\ i % w \in 0..(w - 1) /\ i = (i \div w) * w + (i % w)
<1> DEFINE q == i \div w
           r == i % w
<1>1. w \in Nat \ {0} /\ q \in Nat /\ r \in 0..(w - 1) /\ i = (w * q) + r
  BY Division
<1> HIDE DEF q, r
<1>2. w * (q - n) < 0 /\ (q - n >= 0 => w * (q - n) >= 0)
  BY <1>1
<1>3. q \in 0..(n - 1)
  BY <1>1, <1>2
<1>4. w * q = q * w
  BY <1>1
<1> QED
  BY <1>1, <1>3, <1>4 DEF q, r

LEMMA StreamAt ==
  ASSUME NEW w \in 1..4, NEW s \in Seq(Nat), NEW j \in 1..Len(s), NEW t \in 0..(w - 1)
  PROVE  Stream(s, w, (j - 1) * w + t) = CrumbOf(s[j], w, t)
<1> DEFINE i == (j - 1) * w + t
<1>1. Len(s) \in Nat
  BY LenProperties
<1>2. i \in 0..(w * Len(s) - 1) /\ i \div w = j - 1 /\ i % w = t
  BY <1>1, CrumbIndex
<1> HIDE DEF i
<1>3. i < w * Len(s) /\ i \div w + 1 = j
  BY <1>1, <1>2
<1> QED
  BY <1>2, <1>3 DEF Stream, i

LEMMA StreamRange ==
  ASSUME NEW w \in 1..4, NEW s \in Seq(Nat), NEW i \in Nat
  PROVE  Stream(s, w, i) \in 0..(CRUMB - 1)
<1>1. Len(s) \in Nat /\ 0 \in 0..(CRUMB - 1)
  BY LenProperties, ValuesStep
<1>2. CASE i < w * Len(s)
  <2>1. i \div w + 1 \in 1..Len(s) /\ i % w \in 0..(w - 1)
    BY <1>1, <1>2, IndexCrumb
  <2>2. s[i \div w + 1] \in Nat
    BY <2>1, ElementOfSeq
  <2>3. CrumbOf(s[i \div w + 1], w, i % w) \in 0..(CRUMB - 1)
    BY <2>1, <2>2, CrumbRange
  <2> QED
    BY <1>2, <2>3 DEF Stream
<1>3. CASE ~(i < w * Len(s))
  BY <1>1, <1>3 DEF Stream
<1> QED
  BY <1>2, <1>3

\* Digits with the same stream are the same.
LEMMA StreamEqual ==
  ASSUME NEW w \in 1..4, NEW x \in Seq(DigitsOf(w)), NEW y \in Seq(DigitsOf(w)), Len(x) = Len(y),
         \A i \in 0..(w * Len(x) - 1) : Stream(x, w, i) = Stream(y, w, i)
  PROVE  x = y
<1>1. Len(x) \in Nat /\ x \in Seq(Nat) /\ y \in Seq(Nat)
  BY LenProperties, DigitIsNat
<1>2. ASSUME NEW j \in 1..Len(x)
      PROVE  x[j] = y[j]
  <2>1. x[j] \in DigitsOf(w) /\ y[j] \in DigitsOf(w)
    BY ElementOfSeq
  <2>2. ASSUME NEW t \in 0..(w - 1)
        PROVE  CrumbOf(x[j], w, t) = CrumbOf(y[j], w, t)
    <3>1. (j - 1) * w + t \in 0..(w * Len(x) - 1)
      BY <1>1, CrumbIndex
    <3>2. Stream(x, w, (j - 1) * w + t) = CrumbOf(x[j], w, t)
      BY <1>1, StreamAt
    <3>3. Stream(y, w, (j - 1) * w + t) = CrumbOf(y[j], w, t)
      BY <1>1, StreamAt
    <3> QED
      BY <3>1, <3>2, <3>3
  <2> QED
    BY <2>1, <2>2, DigitsAreCrumbs DEF Distinct, DigitsOf
<1> QED
  BY <1>2, SeqEqual

\* Regrouping keeps the stream, as far as the new digits reach.
LEMMA RegroupStream ==
  ASSUME NEW w \in 1..4, NEW u \in 1..4, NEW s \in Seq(Nat), NEW n \in Nat
  PROVE  /\ Regroup(s, w, u, n) \in Seq(DigitsOf(u)) /\ Len(Regroup(s, w, u, n)) = n
         /\ \A i \in 0..(u * n - 1) : Stream(Regroup(s, w, u, n), u, i) = Stream(s, w, i)
<1> DEFINE Has(j, v) == \A t \in 0..(u - 1) : CrumbOf(v, u, t) = Stream(s, w, (j - 1) * u + t)
           g == Regroup(s, w, u, n)
<1>1. g = [j \in 1..n |-> CHOOSE v \in DigitsOf(u) : Has(j, v)]
  BY DEF Regroup, DigitsOf
<1>2. ASSUME NEW j \in 1..n
      PROVE  g[j] \in DigitsOf(u) /\ Has(j, g[j])
  <2> DEFINE f == [t \in 0..(u - 1) |-> Stream(s, w, (j - 1) * u + t)]
  <2>1. f \in [0..(u - 1) -> 0..(CRUMB - 1)]
    <3>1. ASSUME NEW t \in 0..(u - 1)
          PROVE  Stream(s, w, (j - 1) * u + t) \in 0..(CRUMB - 1)
      <4>1. (j - 1) * u + t \in Nat
        BY CrumbIndex
      <4> QED
        BY <4>1, StreamRange
    <3> QED
      BY <3>1
  <2>2. PICK v \in 0..(Values(u) - 1) : \A t \in 0..(u - 1) : CrumbOf(v, u, t) = f[t]
    <3> HIDE DEF f
    <3> QED
      BY <2>1, DigitsAreCrumbs DEF Complete
  <2>3. v \in DigitsOf(u) /\ Has(j, v)
    BY <2>2 DEF DigitsOf
  <2>4. g[j] = CHOOSE z \in DigitsOf(u) : Has(j, z)
    BY <1>1
  <2> HIDE DEF Has, g
  <2> QED
    BY <2>3, <2>4
<1>3. g \in [1..n -> DigitsOf(u)]
  <2>1. \A j \in 1..n : g[j] \in DigitsOf(u)
    BY <1>2
  <2>2. DOMAIN g = 1..n /\ g = [j \in 1..n |-> g[j]]
    BY <1>1
  <2> HIDE DEF g
  <2> QED
    BY <2>1, <2>2
<1>4. g \in Seq(DigitsOf(u)) /\ Len(g) = n
  <2> HIDE DEF g
  <2> QED
    BY <1>3
<1>5. ASSUME NEW i \in 0..(u * n - 1)
      PROVE  Stream(g, u, i) = Stream(s, w, i)
  <2> DEFINE j == i \div u + 1
             t == i % u
  <2>1. i \in Nat /\ i < u * n
    OBVIOUS
  <2>2. j \in 1..n /\ t \in 0..(u - 1) /\ i = (j - 1) * u + t
    <3>1. i \div u + 1 \in 1..n /\ i % u \in 0..(u - 1) /\ i = (i \div u) * u + (i % u)
      BY <2>1, IndexCrumb
    <3>2. i \div u = (i \div u + 1) - 1
      BY <3>1
    <3> QED
      BY <3>1, <3>2
  <2>3. g \in Seq(Nat)
    BY <1>4, DigitIsNat
  <2> HIDE DEF g, j, t
  <2>4. Stream(g, u, (j - 1) * u + t) = CrumbOf(g[j], u, t)
    BY <1>4, <2>2, <2>3, StreamAt
  <2>5. CrumbOf(g[j], u, t) = Stream(s, w, (j - 1) * u + t)
    BY <1>2, <2>2
  <2> QED
    BY <2>2, <2>4, <2>5
<1> QED
  BY <1>4, <1>5

\* Digits come back from other ones that hold all of them but zeros.
LEMMA RegroupBack ==
  ASSUME NEW w \in 1..4, NEW u \in 1..4, NEW s \in Seq(DigitsOf(w)), NEW n \in Nat,
         \A i \in (u * n)..(w * Len(s) - 1) : Stream(s, w, i) = 0
  PROVE  Regroup(Regroup(s, w, u, n), u, w, Len(s)) = s
<1> DEFINE g == Regroup(s, w, u, n)
           h == Regroup(g, u, w, Len(s))
<1>1. s \in Seq(Nat) /\ Len(s) \in Nat
  BY DigitIsNat, LenProperties
<1>2. /\ g \in Seq(DigitsOf(u)) /\ Len(g) = n
      /\ \A i \in 0..(u * n - 1) : Stream(g, u, i) = Stream(s, w, i)
  BY <1>1, RegroupStream
<1>3. g \in Seq(Nat)
  BY <1>2, DigitIsNat
<1> HIDE DEF g
<1>4. /\ h \in Seq(DigitsOf(w)) /\ Len(h) = Len(s)
      /\ \A i \in 0..(w * Len(s) - 1) : Stream(h, w, i) = Stream(g, u, i)
  BY <1>1, <1>3, RegroupStream
<1> HIDE DEF h
<1>5. ASSUME NEW i \in 0..(w * Len(s) - 1)
      PROVE  Stream(h, w, i) = Stream(s, w, i)
  <2>1. CASE i < u * n
    <3>1. i \in 0..(u * n - 1)
      BY <1>1, <2>1
    <3> QED
      BY <1>2, <1>4, <3>1
  <2>2. CASE ~(i < u * n)
    <3>1. i \in (u * n)..(w * Len(s) - 1)
      BY <1>1, <2>2
    <3>2. Stream(g, u, i) = 0
      BY <1>2, <2>2 DEF Stream
    <3> QED
      BY <1>4, <3>1, <3>2
  <2> QED
    BY <2>1, <2>2
<1>6. h = s
  BY <1>4, <1>5, StreamEqual
<1> QED
  BY <1>6 DEF g, h

-----------------------------------------------------------------------------
(* One padding comes off                                                   *)

LEMMA MarkIsByte == BYTE \in Nat /\ BYTE > 1 /\ MARK \in Bytes /\ 0 \in Bytes /\ MARK # 0
<1>1. CRUMB \in Nat /\ CRUMB > 1 /\ Values(3) \in Nat \ {0} /\ Values(4) = CRUMB * Values(3)
  <2>1. 3 \in 0..3 /\ 3 + 1 = 4
    OBVIOUS
  <2> QED
    BY <2>1, ValuesStep
<1>2. BYTE \in Nat /\ BYTE > 1
  BY <1>1 DEF BYTE
<1> QED
  BY <1>2 DEF MARK, Bytes

LEMMA PrefixOf ==
  ASSUME NEW S, NEW N \in Nat, NEW b \in [1..N -> S], NEW e \in 0..N
  PROVE  /\ b \in Seq(S) /\ Len(b) = N
         /\ SubSeq(b, 1, e) \in Seq(S) /\ Len(SubSeq(b, 1, e)) = e
         /\ \A i \in 1..e : SubSeq(b, 1, e)[i] = b[i]
<1>1. b \in Seq(S) /\ Len(b) = N
  OBVIOUS
<1> QED
  BY <1>1, SubSeqProperties

\* A prefix of a prefix is a prefix.
LEMMA PrefixOfPrefix ==
  ASSUME NEW S, NEW N \in Nat, NEW b \in [1..N -> S], NEW e \in 0..N, NEW d \in 0..e
  PROVE  SubSeq(SubSeq(b, 1, e), 1, d) = SubSeq(b, 1, d)
<1> DEFINE a == SubSeq(b, 1, e)
<1>1. a \in [1..e -> S] /\ \A i \in 1..e : a[i] = b[i]
  <2>1. a \in Seq(S) /\ Len(a) = e /\ \A i \in 1..e : a[i] = b[i]
    BY PrefixOf
  <2> HIDE DEF a
  <2>2. a \in [1..Len(a) -> S]
    BY <2>1, LenProperties
  <2> QED
    BY <2>1, <2>2
<1>2. /\ SubSeq(a, 1, d) \in Seq(S) /\ Len(SubSeq(a, 1, d)) = d
      /\ \A i \in 1..d : SubSeq(a, 1, d)[i] = b[i]
  <2> HIDE DEF a
  <2> QED
    BY <1>1, PrefixOf
<1>3. /\ SubSeq(b, 1, d) \in Seq(S) /\ Len(SubSeq(b, 1, d)) = d
      /\ \A i \in 1..d : SubSeq(b, 1, d)[i] = b[i]
  BY PrefixOf
<1> QED
  BY <1>2, <1>3, SeqEqual

LEMMA PaddedBuffer ==
  ASSUME NEW b \in [1..CAP -> Bytes], NEW n \in 0..CAP, NEW bs \in Nat
  PROVE  Padded(b, n, bs) \in [1..CAP -> Bytes]
<1>1. CAP \in Nat /\ b \in Seq(Bytes) /\ Len(b) = CAP
  BY EncodingAssumption
<1> QED
  BY <1>1, MarkIsByte DEF Padded

\* Whatever was behind the message, sodium_unpad finds the mark of sodium_pad
\* and no other.
LEMMA PaddingComesOff ==
  ASSUME NEW b \in [1..CAP -> Bytes], NEW n \in 0..CAP, NEW bs \in Nat, PadFits(n, bs)
  PROVE  Unpadded(SubSeq(Padded(b, n, bs), 1, n + PadBytes(n, bs)), bs) = Ok(SubSeq(b, 1, n))
<1> DEFINE c == Padded(b, n, bs)
           e == n + PadBytes(n, bs)
           a == SubSeq(c, 1, e)
<1>1. CAP \in Nat /\ bs \in Nat \ {0} /\ n \in Nat
  BY EncodingAssumption DEF PadFits
<1>2. PadBytes(n, bs) \in 1..bs /\ e \in (n + 1)..CAP /\ e >= bs
  <2>1. PadBytes(n, bs) \in 1..bs /\ n + PadBytes(n, bs) >= bs
    BY <1>1, NextMultiple
  <2> QED
    BY <1>1, <2>1 DEF PadFits
<1>3. c \in [1..CAP -> Bytes] /\ Len(b) = CAP
  BY <1>1, PaddedBuffer, PrefixOf
<1>4. a \in Seq(Bytes) /\ Len(a) = e /\ \A i \in 1..e : a[i] = c[i]
  <2> HIDE DEF c, e
  <2> QED
    BY <1>1, <1>2, <1>3, PrefixOf
<1>5. /\ c[n + 1] = MARK
      /\ \A i \in (n + 2)..e : c[i] = 0
      /\ \A i \in 1..n : c[i] = b[i]
  <2>1. \A i \in 1..CAP : c[i] = IF i = n + 1 THEN MARK
                                 ELSE IF i \in (n + 2)..e THEN 0 ELSE b[i]
    BY <1>3 DEF Padded
  <2> HIDE DEF c, e
  <2> QED
    BY <1>1, <1>2, <2>1
<1>6. IsMark(a, bs, n + 1)
  <2> HIDE DEF c, a
  <2>1. n + 1 \in (Len(a) - bs + 1)..Len(a)
    BY <1>1, <1>2, <1>4
  <2> HIDE DEF e
  <2>2. a[n + 1] = MARK /\ \A i \in (n + 2)..e : a[i] = 0
    BY <1>1, <1>2, <1>4, <1>5
  <2> QED
    BY <1>1, <1>2, <1>4, <2>1, <2>2 DEF IsMark
<1>7. ASSUME NEW j \in 1..Len(a), IsMark(a, bs, j)
      PROVE  j = n + 1
  <2> HIDE DEF c, a, e
  <2>1. a[j] = MARK /\ \A i \in (j + 1)..e : a[i] = 0
    BY <1>4, <1>7 DEF IsMark
  <2>2. a[n + 1] = MARK /\ \A i \in (n + 2)..e : a[i] = 0
    BY <1>1, <1>2, <1>4, <1>5
  <2> QED
    BY <1>1, <1>2, <1>4, <2>1, <2>2, MarkIsByte
<1>8. (CHOOSE j \in 1..Len(a) : IsMark(a, bs, j)) = n + 1 /\ n + 1 \in 1..Len(a)
  <2> HIDE DEF c, a, e
  <2>1. n + 1 \in 1..Len(a)
    BY <1>1, <1>2, <1>4
  <2> QED
    BY <1>6, <1>7, <2>1
<1>9. SubSeq(a, 1, n) = SubSeq(b, 1, n)
  <2>1. a \in [1..e -> Bytes] /\ n \in 0..e
    <3> HIDE DEF a, c
    <3>1. a \in [1..Len(a) -> Bytes]
      BY <1>4, LenProperties
    <3> QED
      BY <1>1, <1>2, <1>4, <3>1
  <2>2. e \in Nat
    BY <1>2
  <2> HIDE DEF c, a, e
  <2>3. /\ SubSeq(a, 1, n) \in Seq(Bytes) /\ Len(SubSeq(a, 1, n)) = n
        /\ \A i \in 1..n : SubSeq(a, 1, n)[i] = a[i]
    BY <2>1, <2>2, PrefixOf
  <2>4. /\ SubSeq(b, 1, n) \in Seq(Bytes) /\ Len(SubSeq(b, 1, n)) = n
        /\ \A i \in 1..n : SubSeq(b, 1, n)[i] = b[i]
    BY <1>1, PrefixOf
  <2>5. \A i \in 1..n : a[i] = b[i]
    BY <1>1, <1>2, <1>4, <1>5
  <2> QED
    BY <2>3, <2>4, <2>5, SeqEqual
<1> HIDE DEF c, a, e
<1>10. ~(bs = 0 \/ Len(a) < bs \/ ~\E j \in 1..Len(a) : IsMark(a, bs, j))
  BY <1>1, <1>2, <1>4, <1>6, <1>8
<1>11. Unpadded(a, bs) = Ok(SubSeq(a, 1, (n + 1) - 1))
  BY <1>8, <1>10 DEF Unpadded
<1>12. (n + 1) - 1 = n
  BY <1>1
<1> QED
  BY <1>9, <1>11, <1>12 DEF a, c, e

\* `unpad` returns a shorter prefix of what it is given, or an error.
LEMMA UnpaddedPrefix ==
  ASSUME NEW a \in Seq(Bytes), NEW bs \in Nat, Unpadded(a, bs).ok
  PROVE  \E d \in 0..Len(a) : Unpadded(a, bs) = Ok(SubSeq(a, 1, d))
<1> DEFINE j == CHOOSE i \in 1..Len(a) : IsMark(a, bs, i)
<1>1. ~(bs = 0 \/ Len(a) < bs \/ ~\E i \in 1..Len(a) : IsMark(a, bs, i))
  BY DEF Unpadded, Err
<1>2. j \in 1..Len(a)
  BY <1>1
<1>3. Unpadded(a, bs) = Ok(SubSeq(a, 1, j - 1))
  BY <1>1 DEF Unpadded
<1>4. j - 1 \in 0..Len(a)
  BY <1>2, LenProperties
<1> QED
  BY <1>3, <1>4

-----------------------------------------------------------------------------
(* Any number of paddings                                                  *)

LEMMA PadInvInit ==
  ASSUME Init
  PROVE  PadInv
<1>1. TypeOK
  BY EncodingAssumption, MarkIsByte DEF Init, TypeOK, Zeros
<1>2. Len(pads) = 0
  BY DEF Init
<1> QED
  BY <1>1, <1>2 DEF PadInv, Unpads

LEMMA PadKeeps ==
  ASSUME PadInv, NEW bs \in BlockSizes, Pad(bs)
  PROVE  PadInv'
<1>1. bs \in Nat /\ CAP \in Nat /\ buf \in [1..CAP -> Bytes] /\ len \in 0..CAP
  BY EncodingAssumption DEF PadInv, TypeOK
<1>2. CASE ~PadFits(len, bs)
  <2>1. UNCHANGED <<buf, len, pads>>
    BY <1>2 DEF Pad
  <2> QED
    BY <2>1 DEF PadInv, TypeOK, Unpads, After
<1>3. CASE PadFits(len, bs)
  <2> DEFINE m == SubSeq(buf, 1, len)
             c == Padded(buf, len, bs)
             e == len + PadBytes(len, bs)
  <2>1. buf' = c /\ len' = e /\ pads' = Append(pads, [bs |-> bs, msg |-> m])
    BY <1>3 DEF Pad
  <2>2. bs \in Nat \ {0} /\ e \in 0..CAP /\ e % bs = 0
    <3>1. bs \in Nat \ {0} /\ len \in Nat
      BY <1>1, <1>3 DEF PadFits
    <3>2. PadBytes(len, bs) \in 1..bs /\ e % bs = 0
      BY <3>1, NextMultiple
    <3> QED
      BY <1>1, <1>3, <3>1, <3>2 DEF PadFits
  <2>3. c \in [1..CAP -> Bytes] /\ m \in Seq(Bytes)
    BY <1>1, PaddedBuffer, PrefixOf
  <2>4. Unpadded(SubSeq(c, 1, e), bs) = Ok(m) /\ Len(SubSeq(c, 1, e)) = e
    <3>1. Unpadded(SubSeq(c, 1, e), bs) = Ok(m)
      BY <1>1, <1>3, PaddingComesOff
    <3> HIDE DEF c, e
    <3> QED
      BY <1>1, <2>2, <2>3, <3>1, PrefixOf
  <2> HIDE DEF m, c, e
  <2>5. pads \in Seq([bs : Nat \ {0}, msg : Seq(Bytes)])
    BY DEF PadInv
  <2> DEFINE p == [bs |-> bs, msg |-> m]
  <2>6. p \in [bs : Nat \ {0}, msg : Seq(Bytes)] /\ p.bs = bs /\ p.msg = m
    BY <2>2, <2>3
  <2> HIDE DEF p
  <2>7. /\ pads' \in Seq([bs : Nat \ {0}, msg : Seq(Bytes)])
        /\ Len(pads') = Len(pads) + 1 /\ Len(pads) \in Nat
        /\ pads'[Len(pads) + 1] = p
        /\ \A k \in 1..Len(pads) : pads'[k] = pads[k]
    BY <2>1, <2>5, <2>6, AppendProperties, LenProperties DEF p
  <2>8. ASSUME NEW k \in 1..Len(pads')
        PROVE  Unpadded(After(k)', pads'[k].bs) = Ok(pads'[k].msg) /\ Len(After(k)') % pads'[k].bs = 0
    <3>1. CASE k = Len(pads')
      <4>1. After(k)' = SubSeq(c, 1, e)
        BY <2>1, <3>1 DEF After
      <4>2. pads'[k] = p
        BY <2>7, <3>1
      <4> QED
        BY <2>2, <2>4, <2>6, <4>1, <4>2
    <3>2. CASE k # Len(pads')
      <4>1. k \in 1..Len(pads) /\ pads'[k] = pads[k] /\ After(k)' = pads'[k + 1].msg
        BY <2>7, <2>8, <3>2 DEF After
      <4>2. After(k)' = After(k)
        <5>1. CASE k = Len(pads)
          BY <2>6, <2>7, <4>1, <5>1 DEF After, m
        <5>2. CASE k # Len(pads)
          <6>1. k + 1 \in 1..Len(pads) /\ After(k) = pads[k + 1].msg
            BY <2>7, <4>1, <5>2 DEF After
          <6>2. pads'[k + 1] = pads[k + 1]
            BY <2>7, <6>1
          <6> QED
            BY <4>1, <6>1, <6>2
        <5> QED
          BY <5>1, <5>2
      <4> QED
        BY <4>1, <4>2 DEF PadInv, Unpads
    <3> QED
      BY <3>1, <3>2
  <2> QED
    BY <2>1, <2>2, <2>3, <2>7, <2>8 DEF PadInv, TypeOK, Unpads
<1> QED
  BY <1>2, <1>3

LEMMA UnpadKeeps ==
  ASSUME PadInv, NEW bs \in BlockSizes, Unpad(bs)
  PROVE  PadInv'
<1> DEFINE a == SubSeq(buf, 1, len)
           r == Unpadded(a, bs)
<1>1. /\ bs \in Nat /\ CAP \in Nat /\ buf \in [1..CAP -> Bytes] /\ len \in 0..CAP
      /\ pads \in Seq([bs : Nat \ {0}, msg : Seq(Bytes)]) /\ Len(pads) \in Nat
  BY EncodingAssumption, LenProperties DEF PadInv, TypeOK
<1>2. a \in Seq(Bytes) /\ Len(a) = len
  BY <1>1, PrefixOf
<1>3. /\ buf' = buf
      /\ len' = IF r.ok THEN Len(r.val) ELSE len
      /\ pads' = IF ~r.ok THEN pads
                 ELSE IF pads # << >> /\ pads[Len(pads)].bs = bs
                      THEN SubSeq(pads, 1, Len(pads) - 1) ELSE << >>
  BY DEF Unpad
<1> HIDE DEF r
<1>4. CASE ~r.ok
  <2>1. UNCHANGED <<buf, len, pads>>
    BY <1>3, <1>4
  <2> QED
    BY <2>1 DEF PadInv, TypeOK, Unpads, After
<1>5. CASE r.ok
  <2>1. PICK d \in 0..Len(a) : r = Ok(SubSeq(a, 1, d))
    BY <1>1, <1>2, <1>5, UnpaddedPrefix DEF r
  <2>2. d \in 0..len /\ d \in 0..CAP /\ r.val = SubSeq(buf, 1, d)
    BY <1>1, <1>2, <2>1, PrefixOfPrefix DEF Ok
  <2>3. len' = d
    BY <1>1, <1>3, <1>5, <2>2, PrefixOf
  <2>4. CASE pads # << >> /\ pads[Len(pads)].bs = bs
    <3> DEFINE last == Len(pads)
    <3>1. last \in Nat \ {0} /\ pads' = SubSeq(pads, 1, last - 1)
      BY <1>1, <1>3, <1>5, <2>4, EmptySeq
    <3>2. /\ pads' \in Seq([bs : Nat \ {0}, msg : Seq(Bytes)]) /\ Len(pads') = last - 1
          /\ \A k \in 1..(last - 1) : pads'[k] = pads[k]
      <4> DEFINE R == [bs : Nat \ {0}, msg : Seq(Bytes)]
      <4>1. pads \in [1..last -> R]
        <5> HIDE DEF R
        <5>1. pads \in Seq(R)
          BY <1>1 DEF R
        <5> QED
          BY <5>1, LenProperties
      <4>2. last - 1 \in 0..last
        BY <3>1
      <4> HIDE DEF R, last
      <4>3. SubSeq(pads, 1, last - 1) \in Seq(R)
        BY <3>1, <4>1, <4>2, PrefixOf
      <4>4. /\ Len(SubSeq(pads, 1, last - 1)) = last - 1
            /\ \A k \in 1..(last - 1) : SubSeq(pads, 1, last - 1)[k] = pads[k]
        BY <3>1, <4>1, <4>2, PrefixOf
      <4> QED
        BY <3>1, <4>3, <4>4 DEF R
    <3>3. pads[last].msg = SubSeq(buf, 1, d)
      <4>1. Unpadded(After(last), pads[last].bs) = Ok(pads[last].msg)
        BY <3>1 DEF PadInv, Unpads
      <4>2. After(last) = a
        BY DEF After
      <4> QED
        BY <2>2, <2>4, <4>1, <4>2 DEF r, Ok
    <3>4. ASSUME NEW k \in 1..Len(pads')
          PROVE  k \in 1..Len(pads) /\ pads'[k] = pads[k] /\ After(k)' = After(k)
      <4>1. k \in 1..(last - 1) /\ pads'[k] = pads[k] /\ After(k) = pads[k + 1].msg
        BY <3>1, <3>2, <3>4 DEF After
      <4>2. CASE k = last - 1
        <5>1. After(k)' = SubSeq(buf, 1, d)
          BY <1>3, <2>3, <3>2, <4>2 DEF After
        <5>2. k + 1 = last
          BY <3>1, <4>2
        <5> QED
          BY <3>3, <4>1, <5>1, <5>2
      <4>3. CASE k # last - 1
        BY <3>1, <3>2, <4>1, <4>3 DEF After
      <4> QED
        BY <3>1, <4>1, <4>2, <4>3
    <3> QED
      BY <1>1, <1>3, <2>2, <2>3, <3>2, <3>4 DEF PadInv, TypeOK, Unpads
  <2>5. CASE ~(pads # << >> /\ pads[Len(pads)].bs = bs)
    <3>1. pads' = << >>
      BY <1>3, <1>5, <2>5
    <3>2. pads' \in Seq([bs : Nat \ {0}, msg : Seq(Bytes)]) /\ Len(pads') = 0
      BY <3>1
    <3>3. TypeOK'
      BY <1>1, <1>3, <2>2, <2>3 DEF TypeOK
    <3>4. Unpads'
      BY <3>2 DEF Unpads
    <3> QED
      BY <3>2, <3>3, <3>4 DEF PadInv
  <2> QED
    BY <2>4, <2>5
<1> QED
  BY <1>4, <1>5

LEMMA WriteKeeps ==
  ASSUME PadInv, NEW m \in Messages, Write(m)
  PROVE  PadInv'
<1>1. CAP \in Nat /\ buf \in [1..CAP -> Bytes] /\ m \in Seq(Bytes)
  <2>1. PICK n \in 0..MaxMsg : m \in [1..n -> Sample]
    BY DEF Messages
  <2>2. n \in Nat /\ Sample \subseteq Bytes /\ CAP \in Nat
    BY EncodingAssumption DEF Bytes
  <2>3. m \in Seq(Sample)
    BY <2>1, <2>2
  <2> QED
    BY <2>2, <2>3 DEF PadInv, TypeOK
<1>2. /\ Len(m) \in 0..CAP /\ len' = Len(m) /\ pads' = << >>
      /\ buf' = [i \in 1..CAP |-> IF i <= Len(m) THEN m[i] ELSE buf[i]]
  BY <1>1, LenProperties DEF Write
<1>3. buf' \in [1..CAP -> Bytes]
  <2>1. \A i \in 1..Len(m) : m[i] \in Bytes
    BY <1>1, ElementOfSeq
  <2> QED
    BY <1>1, <1>2, <2>1
<1>4. pads' \in Seq([bs : Nat \ {0}, msg : Seq(Bytes)]) /\ Len(pads') = 0
  BY <1>2
<1> QED
  BY <1>2, <1>3, <1>4 DEF PadInv, TypeOK, Unpads

LEMMA PadInvNext ==
  ASSUME PadInv, [Next]_vars
  PROVE  PadInv'
<1>1. CASE Padding
  BY <1>1, PadKeeps, UnpadKeeps, WriteKeeps DEF Padding
<1>2. CASE UNCHANGED <<buf, len, pads>>
  BY <1>2 DEF PadInv, TypeOK, Unpads, After
<1>3. CASE Texts
  <2>1. UNCHANGED <<buf, len, pads>>
    BY <1>3 DEF Texts, Save, Receive, Load
  <2> QED
    BY <1>2, <2>1
<1>4. CASE Comparing \/ Finish \/ UNCHANGED vars
  <2>1. UNCHANGED <<buf, len, pads>>
    BY <1>4 DEF Comparing, Compare, Finish, vars
  <2> QED
    BY <1>2, <2>1
<1> QED
  BY <1>1, <1>3, <1>4 DEF Next

\* The paddings of the message in the buffer come off one after the other, in
\* every state: PadInv is inductive.
THEOREM PadInvHolds == Spec => []PadInv
  BY PadInvInit, PadInvNext, PTL DEF Spec

\* What `pad` made `unpad` takes off, for buffers and blocks of any size.
THEOREM PaddingsComeOff == Spec => []Unpads
<1>1. PadInv => Unpads
  BY DEF PadInv
<1> QED
  BY <1>1, PadInvHolds, PTL

-----------------------------------------------------------------------------
(* Refusals, newtypes and lengths                                          *)

LEMMA RefusedNext ==
  ASSUME PadInv, RefusedOnlyIfFull, [Next]_vars
  PROVE  RefusedOnlyIfFull'
<1>1. CASE Padding
  <2>1. ASSUME NEW bs \in BlockSizes, Pad(bs)
        PROVE  RefusedOnlyIfFull'
    <3>1. out' = [op |-> "pad", bs |-> bs, ok |-> PadFits(len, bs)]
      BY <2>1 DEF Pad
    <3>2. CASE PadFits(len, bs)
      <4>1. out'.ok
        BY <3>1, <3>2
      <4> QED
        BY <4>1 DEF RefusedOnlyIfFull
    <3>3. CASE ~PadFits(len, bs)
      <4>1. len' = len /\ out'.bs = bs /\ bs \in Nat /\ len \in Nat /\ CAP \in Nat
        BY <2>1, <3>1, <3>3, EncodingAssumption DEF Pad, PadInv, TypeOK
      <4>2. ASSUME NEW n \in (len + 1)..CAP, bs > 0, n % bs = 0
            PROVE  FALSE
        <5>1. n \in Nat /\ n > len /\ bs \in Nat \ {0}
          BY <4>1, <4>2
        <5>2. n >= len + PadBytes(len, bs) /\ PadBytes(len, bs) \in Int
          <6>1. PadBytes(len, bs) \in 1..bs
            BY <4>1, <5>1, NextMultiple
          <6>2. \A m \in Nat : m > len /\ m % bs = 0 => m >= len + PadBytes(len, bs)
            BY <4>1, <5>1, NextMultiple
          <6> QED
            BY <4>2, <5>1, <6>1, <6>2
        <5>3. ~(len + PadBytes(len, bs) <= CAP)
          BY <3>3, <4>2 DEF PadFits
        <5> QED
          BY <4>1, <5>1, <5>2, <5>3
      <4> QED
        BY <4>1, <4>2 DEF RefusedOnlyIfFull
    <3> QED
      BY <3>2, <3>3
  <2>2. ASSUME NEW bs \in BlockSizes, Unpad(bs)
        PROVE  out'.op = "unpad"
    BY <2>2 DEF Unpad
  <2>3. ASSUME NEW m \in Messages, Write(m)
        PROVE  out'.op = "none"
    BY <2>3 DEF Write
  <2> QED
    BY <1>1, <2>1, <2>2, <2>3 DEF Padding, RefusedOnlyIfFull
<1>2. CASE Texts
  <2>1. out'.op \in {"none", "load"}
    BY <1>2 DEF Texts, Save, Receive, Load
  <2> QED
    BY <2>1 DEF RefusedOnlyIfFull
<1>3. CASE Comparing \/ Finish
  <2>1. out'.op \in {"none", "compare"}
    BY <1>3 DEF Comparing, Compare, Finish
  <2> QED
    BY <2>1 DEF RefusedOnlyIfFull
<1>4. CASE UNCHANGED vars
  BY <1>4 DEF vars, RefusedOnlyIfFull
<1> QED
  BY <1>1, <1>2, <1>3, <1>4 DEF Next

\* `pad` refuses nothing that has room, up to the last byte of the buffer.
THEOREM Refusals == Spec => []RefusedOnlyIfFull
<1>1. Init => RefusedOnlyIfFull
  BY DEF Init, RefusedOnlyIfFull
<1> QED
  BY <1>1, RefusedNext, PadInvHolds, PTL DEF Spec

\* `encoded_len` and `decoded_len` do not overflow for any slice, and the
\* buffer of `base64::decode` has room for all bytes that a text can hold.
THEOREM LengthsAreSafe == LengthsFit
<1> SUFFICES ASSUME NEW n \in 0..(USIZE \div 2 - 1)
             PROVE  /\ HexEncodedLen(n) = 2 * n + 1
                    /\ DecodedLen(n) # Overflow /\ DecodedLen(n) >= (3 * n) \div 4
  BY DEF LengthsFit
<1>1. PICK w \in Nat : USIZE = 4 * w /\ w > 1
  BY EncodingAssumption
<1>2. n \in Nat /\ n <= 2 * w - 1
  BY <1>1
<1>3. HexEncodedLen(n) = 2 * n + 1
  BY <1>1, <1>2 DEF HexEncodedLen, Checked, Overflow
<1>4. PICK a \in Nat, b \in 0..3 : n = 4 * a + b /\ n \div 4 = a /\ n % 4 = b
  BY <1>2
<1>5. a * 3 + 3 < USIZE
  BY <1>1, <1>2, <1>4
<1>6. DecodedLen(n) = IF b = 0 THEN a * 3 ELSE a * 3 + 3
  BY <1>1, <1>4, <1>5 DEF DecodedLen, Checked, Overflow
<1>7. (3 * n) \div 4 <= a * 3 + b
  BY <1>4
<1>8. b = 0 \/ (3 * n) \div 4 <= a * 3 + 3
  BY <1>4, <1>7
<1> QED
  BY <1>3, <1>4, <1>6, <1>7, <1>8 DEF Overflow
-----------------------------------------------------------------------------
(* Least elements                                                          *)

\* A set of naturals that is not empty has a least element.
LEMMA LeastElement ==
  ASSUME NEW T \in SUBSET Nat, T # {}
  PROVE  \E x \in T : \A y \in T : x <= y
<1> DEFINE R == OpToRel(<, Nat)
<1>1. IsWellFoundedOn(R, Nat)
  BY NatLessThanWellFounded
<1>2. \A x, y \in Nat : <<y, x>> \in R <=> y < x
  BY DEF OpToRel
<1> HIDE DEF R
<1>3. PICK x \in T : \A y \in T : ~(<<y, x>> \in R)
  BY <1>1, WFMin
<1>4. ASSUME NEW y \in T
      PROVE  x <= y
  <2>1. x \in Nat /\ y \in Nat
    OBVIOUS
  <2>2. ~(y < x)
    BY <1>2, <1>3, <2>1
  <2> QED
    BY <2>1, <2>2
<1> QED
  BY <1>4

-----------------------------------------------------------------------------
(* Hexadecimal texts                                                       *)

LEMMA DigitSets ==
  /\ DigitsOf(4) = Bytes /\ DigitsOf(3) = 0..(SEXTET - 1) /\ DigitsOf(2) = 0..(HEXIT - 1)
  /\ Bytes \subseteq Nat /\ SEXTET \in Nat \ {0} /\ HEXIT \in Nat \ {0}
<1>1. 2 \in 1..4 /\ 3 \in 1..4 /\ 4 \in 1..4
  OBVIOUS
<1>2. DigitsOf(4) \subseteq Nat /\ Values(3) \in Nat \ {0} /\ Values(2) \in Nat \ {0}
  BY <1>1, DigitIsNat
<1> QED
  BY <1>2 DEF DigitsOf, Bytes, BYTE, SEXTET, HEXIT

LEMMA BytesAreNats ==
  ASSUME NEW m \in Seq(Bytes)
  PROVE  Len(m) \in Nat /\ m \in Seq(Nat) /\ m \in Seq(DigitsOf(4))
<1>1. Bytes \subseteq Nat /\ Bytes = DigitsOf(4)
  BY DigitSets
<1> HIDE DEF Bytes
<1> QED
  BY <1>1, LenProperties

LEMMA DigitsOfText ==
  ASSUME NEW s \in Seq(Chars)
  PROVE  /\ Digits(s) \in Seq(Int) /\ Len(Digits(s)) = Len(s)
         /\ \A i \in 1..Len(s) : Digits(s)[i] = s[i].d
<1>1. Len(s) \in Nat /\ DOMAIN s = 1..Len(s)
  BY LenProperties
<1>2. \A i \in 1..Len(s) : s[i].d \in Int
  <2>1. \A i \in 1..Len(s) : s[i] \in Chars
    BY ElementOfSeq
  <2> QED
    BY <2>1 DEF Chars
<1>3. Digits(s) = [i \in 1..Len(s) |-> s[i].d]
  BY <1>1 DEF Digits
<1>4. Digits(s) \in [1..Len(s) -> Int]
  BY <1>2, <1>3
<1> QED
  BY <1>1, <1>3, <1>4

\* What hex::encode makes: the digits, two for each byte, in lower case.
LEMMA HexChars ==
  ASSUME NEW m \in Seq(Bytes), Len(m) < USIZE \div 2
  PROVE  LET d == Regroup(m, 4, 2, 2 * Len(m))
         IN  /\ d \in Seq(DigitsOf(2)) /\ Len(d) = 2 * Len(m)
             /\ HexEncode(m) = [i \in 1..(2 * Len(m)) |-> Char(d[i], FALSE)]
<1> DEFINE d == Regroup(m, 4, 2, 2 * Len(m))
           n == Len(m)
           c == [i \in 1..(2 * n) |-> Char(d[i], FALSE)]
<1>1. n \in Nat /\ m \in Seq(Nat) /\ 2 * n \in Nat /\ 2 \in 1..4 /\ 4 \in 1..4
  BY BytesAreNats
<1>2. d \in Seq(DigitsOf(2)) /\ Len(d) = 2 * n
  BY <1>1, RegroupStream
<1> HIDE DEF d
<1>3. DOMAIN d = 1..(2 * n)
  BY <1>2, LenProperties
<1>4. Bin2Hex(m) = c
  BY <1>3 DEF Bin2Hex, d
<1>5. Len(c) = 2 * n
  BY <1>1
<1>6. n \in 0..(USIZE \div 2 - 1)
  BY <1>1, EncodingAssumption
<1>7. HexEncodedLen(n) = 2 * n + 1
  BY <1>6, LengthsAreSafe DEF LengthsFit
<1>8. HexEncode(m) = Popped(c, 2 * n + 1)
  BY <1>4, <1>7 DEF HexEncode
<1>9. Popped(c, 2 * n + 1) = c
  <2>1. (2 * n + 1) - 1 = 2 * n
    BY <1>1
  <2>2. \A i \in 1..(2 * n) : i <= Len(c)
    BY <1>1, <1>5
  <2>3. Popped(c, 2 * n + 1) = [i \in 1..(2 * n) |-> c[i]]
    BY <2>1, <2>2 DEF Popped
  <2> QED
    BY <2>3
<1> QED
  BY <1>2, <1>8, <1>9 DEF d

\* hex::decode undoes hex::encode.
LEMMA HexBack ==
  ASSUME NEW m \in Seq(Bytes), Len(m) < USIZE \div 2
  PROVE  /\ HexEncode(m) \in Seq(Chars) /\ Len(HexEncode(m)) = 2 * Len(m)
         /\ HexDecode(HexEncode(m)) = Ok(m)
<1> DEFINE d == Regroup(m, 4, 2, 2 * Len(m))
           n == Len(m)
           s == HexEncode(m)
<1>1. n \in Nat /\ m \in Seq(Nat) /\ 2 * n \in Nat /\ 2 \in 1..4 /\ 4 \in 1..4
  BY BytesAreNats
<1>2. d \in Seq(DigitsOf(2)) /\ Len(d) = 2 * n /\ s = [i \in 1..(2 * n) |-> Char(d[i], FALSE)]
  BY HexChars
<1>3. Regroup(d, 2, 4, n) = m
  <2>1. m \in Seq(DigitsOf(4)) /\ (2 * (2 * n))..(4 * Len(m) - 1) = {}
    BY <1>1, DigitSets
  <2> QED
    BY <1>1, <2>1, RegroupBack
<1> HIDE DEF d, s
<1>4. \A i \in 1..(2 * n) : d[i] \in 0..(HEXIT - 1)
  BY <1>2, ElementOfSeq, DigitSets
<1>5. \A i \in 1..(2 * n) : s[i] = Char(d[i], FALSE) /\ s[i] \in Chars /\ s[i].d = d[i] /\ ~s[i].alt
  <2>1. \A i \in 1..(2 * n) : d[i] \in Int
    BY <1>4, DigitSets
  <2> QED
    BY <1>2, <2>1 DEF Char, Chars
<1>6. s \in [1..(2 * n) -> Chars]
  BY <1>2, <1>5
<1>7. s \in Seq(Chars) /\ Len(s) = 2 * n /\ DOMAIN s = 1..(2 * n)
  BY <1>1, <1>6
<1>8. Digits(s) = d
  <2>1. Digits(s) = [i \in 1..(2 * n) |-> d[i]]
    BY <1>5, <1>7 DEF Digits
  <2>2. d = [i \in 1..(2 * n) |-> d[i]]
    <3>1. d \in [1..(2 * n) -> DigitsOf(2)]
      BY <1>2, LenProperties
    <3> QED
      BY <3>1
  <2> QED
    BY <2>1, <2>2
<1>9. \A i \in DOMAIN s : IsHexChar(s[i])
  BY <1>4, <1>5, <1>7 DEF IsHexChar
<1>10. Len(s) % 2 = 0 /\ Len(s) \div 2 = n
  BY <1>1, <1>7
<1>11. HexDecode(s) = Ok(m)
  BY <1>3, <1>8, <1>9, <1>10 DEF HexDecode
<1> QED
  BY <1>7, <1>11 DEF s

\* A text that hex::decode accepts is what hex::encode makes of the result, but
\* for the case of its letters.
LEMMA HexExact ==
  ASSUME NEW s \in Seq(Chars), Len(s) < USIZE, HexDecode(s).ok
  PROVE  HexEncode(HexDecode(s).val) = Folded("hex", s)
<1> DEFINE d == Digits(s)
           n == Len(s) \div 2
           b == Regroup(d, 2, 4, n)
<1>1. Len(s) \in Nat /\ DOMAIN s = 1..Len(s)
  BY LenProperties
<1>2. Len(s) % 2 = 0 /\ (\A i \in DOMAIN s : IsHexChar(s[i])) /\ HexDecode(s) = Ok(b)
  BY DEF HexDecode, Err
<1>3. n \in Nat /\ Len(s) = 2 * n /\ n < USIZE \div 2
  <2>1. PICK w \in Nat : USIZE = 4 * w
    BY EncodingAssumption
  <2>2. Len(s) % 2 = 0 /\ Len(s) < 4 * w
    BY <1>2, <2>1
  <2>3. n \in Nat /\ Len(s) = 2 * n
    <3>1. \A k \in Nat : k % 2 = 0 => k \div 2 \in Nat /\ k = 2 * (k \div 2)
      OBVIOUS
    <3> QED
      BY <1>1, <2>2, <3>1
  <2> HIDE DEF n
  <2> QED
    BY <2>1, <2>2, <2>3
<1>4. d \in Seq(DigitsOf(2)) /\ Len(d) = 2 * n /\ \A i \in 1..(2 * n) : d[i] = s[i].d
  <2>1. d \in Seq(Int) /\ Len(d) = Len(s) /\ \A i \in 1..Len(s) : d[i] = s[i].d
    BY DigitsOfText
  <2>2. \A i \in 1..Len(s) : s[i].d \in DigitsOf(2)
    BY <1>1, <1>2, DigitSets DEF IsHexChar
  <2> HIDE DEF d, n
  <2>3. d \in [1..Len(s) -> DigitsOf(2)]
    <3>1. d \in [1..Len(s) -> Int]
      BY <2>1, LenProperties
    <3> QED
      BY <2>1, <2>2, <3>1
  <2> QED
    BY <1>1, <1>3, <2>1, <2>3
<1> HIDE DEF d, n
<1>5. d \in Seq(Nat) /\ 2 \in 1..4 /\ 4 \in 1..4
  BY <1>4, DigitIsNat
<1>6. b \in Seq(Bytes) /\ Len(b) = n
  BY <1>3, <1>5, RegroupStream, DigitSets
<1>7. Regroup(b, 4, 2, 2 * n) = d
  <2>1. (4 * n)..(2 * Len(d) - 1) = {}
    BY <1>3, <1>4
  <2>2. Regroup(Regroup(d, 2, 4, n), 4, 2, Len(d)) = d
    BY <1>3, <1>4, <1>5, <2>1, RegroupBack
  <2> QED
    BY <1>4, <2>2
<1> HIDE DEF b
<1>8. HexEncode(b) = [i \in 1..(2 * n) |-> Char(d[i], FALSE)]
  BY <1>3, <1>6, <1>7, HexChars
<1>9. Folded("hex", s) = [i \in 1..(2 * n) |-> Char(s[i].d, FALSE)]
  BY <1>1, <1>3 DEF Folded
<1>10. [i \in 1..(2 * n) |-> Char(d[i], FALSE)] = [i \in 1..(2 * n) |-> Char(s[i].d, FALSE)]
  BY <1>4
<1>11. HexDecode(s).val = b
  BY <1>2 DEF Ok
<1> QED
  BY <1>8, <1>9, <1>10, <1>11

-----------------------------------------------------------------------------
(* Base64 texts                                                            *)

\* Lengths: digits of bytes, bytes of digits, padding and decode's buffer.
LEMMA SextetsOfBytes ==
  ASSUME NEW k \in Nat
  PROVE  /\ SextetsOf(k) \in Nat /\ SextetsOf(k) % 4 # 1
         /\ (3 * SextetsOf(k)) \div 4 = k /\ 4 * k <= 3 * SextetsOf(k)
<1>1. PICK a \in Nat, b \in 0..2 : k = 3 * a + b
  <2>1. k = 3 * (k \div 3) + (k % 3) /\ k \div 3 \in Nat /\ k % 3 \in 0..2
    OBVIOUS
  <2> QED
    BY <2>1
<1>2. CASE b = 0
  <2>1. SextetsOf(k) = 4 * a
    BY <1>1, <1>2 DEF SextetsOf
  <2> QED
    BY <1>1, <1>2, <2>1
<1>3. CASE b = 1
  <2>1. SextetsOf(k) = 4 * a + 2
    BY <1>1, <1>3 DEF SextetsOf
  <2> QED
    BY <1>1, <1>3, <2>1
<1>4. CASE b = 2
  <2>1. SextetsOf(k) = 4 * a + 3
    BY <1>1, <1>4 DEF SextetsOf
  <2> QED
    BY <1>1, <1>4, <2>1
<1> QED
  BY <1>2, <1>3, <1>4

LEMMA BytesOfSextets ==
  ASSUME NEW n \in Nat, n % 4 # 1
  PROVE  (3 * n) \div 4 \in Nat /\ SextetsOf((3 * n) \div 4) = n
<1>1. PICK a \in Nat, b \in {0, 2, 3} : n = 4 * a + b
  <2>1. n = 4 * (n \div 4) + (n % 4) /\ n \div 4 \in Nat /\ n % 4 \in {0, 2, 3}
    OBVIOUS
  <2> QED
    BY <2>1
<1>2. CASE b = 0
  <2>1. (3 * n) \div 4 = 3 * a
    BY <1>1, <1>2
  <2> QED
    BY <1>1, <1>2, <2>1 DEF SextetsOf
<1>3. CASE b = 2
  <2>1. (3 * n) \div 4 = 3 * a + 1
    BY <1>1, <1>3
  <2> QED
    BY <1>1, <1>3, <2>1 DEF SextetsOf
<1>4. CASE b = 3
  <2>1. (3 * n) \div 4 = 3 * a + 2
    BY <1>1, <1>4
  <2> QED
    BY <1>1, <1>4, <2>1 DEF SextetsOf
<1> QED
  BY <1>2, <1>3, <1>4

\* The padding behind n digits.
PaddingFor(n, v) == IF v.padded THEN PaddingOf(n) ELSE 0

LEMMA PaddingRange ==
  ASSUME NEW n \in Nat, NEW v \in Variants
  PROVE  PaddingFor(n, v) \in 0..3 /\ (PaddingFor(n, v) = 0 \/ (n + PaddingFor(n, v)) % 4 = 0)
<1>1. PaddingOf(n) \in 0..3 /\ (n + PaddingOf(n)) % 4 = 0
  BY DEF PaddingOf
<1> QED
  BY <1>1 DEF PaddingFor

\* The buffer of base64::decode has room for what base64::encode was given.
LEMMA RoomForBytes ==
  ASSUME NEW k \in Nat, k < USIZE \div 2, NEW v \in Variants
  PROVE  LET len64 == SextetsOf(k) + PaddingFor(SextetsOf(k), v)
         IN  DecodedLen(len64) # Overflow /\ DecodedLen(len64) >= k
<1> DEFINE n == SextetsOf(k)
           e == n + PaddingFor(n, v)
<1>1. PICK w \in Nat : USIZE = 4 * w /\ w > 1
  BY EncodingAssumption
<1>2. k <= 2 * w - 1
  BY <1>1
<1>3. n \in Nat /\ (3 * n) \div 4 = k /\ n % 4 # 1
  BY SextetsOfBytes
<1> HIDE DEF n
<1>4. PaddingFor(n, v) \in 0..3 /\ (PaddingFor(n, v) = 0 \/ e % 4 = 0)
  BY <1>3, PaddingRange
<1> HIDE DEF e
<1>5. e \in n..(n + 3) /\ (e = n \/ e % 4 = 0)
  BY <1>3, <1>4 DEF e
<1>6. PICK a \in Nat, b \in 0..3 : e = 4 * a + b /\ e \div 4 = a /\ e % 4 = b
  <2>1. e \in Nat
    BY <1>3, <1>5
  <2> QED
    BY <2>1
<1>7. b = 0 => k <= 3 * a /\ 3 * a <= k + 2
  <2>1. ASSUME b = 0
        PROVE  3 * n <= 12 * a /\ 12 * a <= 3 * n + 9
    BY <1>3, <1>5, <1>6, <2>1
  <2>2. 4 * k <= 3 * n /\ 3 * n <= 4 * k + 3
    BY <1>3
  <2> QED
    BY <1>6, <1>3, <2>1, <2>2
<1>8. b # 0 => k <= 3 * a + 3 /\ 3 * a <= k
  <2>1. ASSUME b # 0
        PROVE  n = 4 * a + b
    BY <1>5, <1>6, <2>1
  <2>2. 4 * k <= 3 * n /\ 3 * n <= 4 * k + 3
    BY <1>3
  <2> QED
    BY <1>6, <1>3, <2>1, <2>2
<1>9. a * 3 = 3 * a /\ 3 * a < USIZE /\ (b # 0 => 3 * a + 3 < USIZE)
  BY <1>1, <1>2, <1>6, <1>7, <1>8
<1>10. DecodedLen(e) = IF b = 0 THEN 3 * a ELSE 3 * a + 3
  BY <1>1, <1>6, <1>9 DEF DecodedLen, Checked, Overflow
<1> QED
  BY <1>6, <1>7, <1>8, <1>10 DEF e, n, Overflow

\* What base64::encode makes: the digits, and the padding behind them.
LEMMA B64Chars ==
  ASSUME NEW m \in Seq(Bytes), NEW v \in Variants
  PROVE  LET n == SextetsOf(Len(m))
             d == Regroup(m, 4, 3, n)
         IN  /\ n \in Nat /\ d \in Seq(DigitsOf(3)) /\ Len(d) = n
             /\ B64Encode(m, v) = [i \in 1..(n + PaddingFor(n, v)) |->
                                     IF i <= n THEN B64Char(d[i], v) ELSE Equals]
<1> DEFINE n == SextetsOf(Len(m))
           d == Regroup(m, 4, 3, n)
           e == n + PaddingFor(n, v)
           c == [i \in 1..e |-> IF i <= n THEN B64Char(d[i], v) ELSE Equals]
<1>1. Len(m) \in Nat /\ m \in Seq(Nat) /\ 3 \in 1..4 /\ 4 \in 1..4
  BY BytesAreNats
<1>2. n \in Nat
  BY <1>1, SextetsOfBytes
<1>3. B64EncodedLen(Len(m), v) = e + 1
  BY DEF B64EncodedLen, PaddingFor
<1> HIDE DEF n
<1>4. PaddingFor(n, v) \in 0..3
  BY <1>2, PaddingRange
<1>5. d \in Seq(DigitsOf(3)) /\ Len(d) = n
  BY <1>1, <1>2, RegroupStream
<1>6. e \in Nat /\ (e + 1) - 1 = e
  BY <1>2, <1>4
<1> HIDE DEF e
<1>7. Bin2Base64(m, v) = c
  BY <1>3, <1>5, <1>6 DEF Bin2Base64, n
<1> HIDE DEF d
<1>8. Len(c) = e
  BY <1>6
<1>9. Popped(c, e + 1) = c
  <2>1. \A i \in 1..e : i <= Len(c)
    BY <1>6, <1>8
  <2>2. Popped(c, e + 1) = [i \in 1..e |-> c[i]]
    BY <1>6, <2>1 DEF Popped
  <2> QED
    BY <2>2
<1> HIDE DEF c
<1>10. B64Encode(m, v) = c
  BY <1>3, <1>7, <1>9 DEF B64Encode
<1> QED
  BY <1>2, <1>5, <1>10 DEF c, d, e, n

\* sodium_base642bin stops at the first character that is no digit.
LEMMA DigitCountStops ==
  ASSUME NEW s \in Seq(Chars), NEW v \in Variants
  PROVE  LET n == DigitCount(s, v)
         IN  /\ n \in 0..Len(s)
             /\ \A i \in 1..n : IsB64Char(s[i], v)
             /\ n < Len(s) => ~IsB64Char(s[n + 1], v)
<1> DEFINE Stops(k) == /\ \A i \in 1..k : IsB64Char(s[i], v)
                       /\ k < Len(s) => ~IsB64Char(s[k + 1], v)
           T == {k \in 0..Len(s) : k = Len(s) \/ ~IsB64Char(s[k + 1], v)}
<1>1. Len(s) \in Nat
  BY LenProperties
<1>2. T \in SUBSET Nat /\ T # {}
  <2>1. Len(s) \in T
    BY <1>1
  <2> QED
    BY <1>1, <2>1
<1>3. PICK x \in T : \A y \in T : x <= y
  <2> HIDE DEF T
  <2> QED
    BY <1>2, LeastElement
<1>4. x \in 0..Len(s) /\ (x = Len(s) \/ ~IsB64Char(s[x + 1], v))
  OBVIOUS
<1>5. ASSUME NEW i \in 1..x
      PROVE  IsB64Char(s[i], v)
  <2>1. i - 1 \in 0..Len(s) /\ i - 1 < x /\ i - 1 # Len(s) /\ (i - 1) + 1 = i
    BY <1>1, <1>4
  <2>2. ~(i - 1 \in T)
    <3> HIDE DEF T
    <3>1. i - 1 \in T => x <= i - 1
      BY <1>3
    <3> QED
      BY <1>1, <1>4, <2>1, <3>1
  <2> QED
    BY <2>1, <2>2
<1>6. Stops(x)
  BY <1>1, <1>4, <1>5
<1>7. DigitCount(s, v) = CHOOSE k \in 0..Len(s) : Stops(k)
  BY DEF DigitCount
<1> HIDE DEF Stops, T
<1>8. DigitCount(s, v) \in 0..Len(s) /\ Stops(DigitCount(s, v))
  BY <1>4, <1>6, <1>7
<1> QED
  BY <1>8 DEF Stops

\* What base64::decode has checked of a text that it accepts.
LEMMA B64Accepted ==
  ASSUME NEW s \in Seq(Chars), NEW v \in Variants, B64Decode(s, v).ok
  PROVE  LET n == DigitCount(s, v)
             d == Digits(SubSeq(s, 1, n))
             size == (3 * n) \div 4
         IN  /\ n \in 0..Len(s) /\ n % 4 # 1 /\ Len(s) = n + PaddingFor(n, v)
             /\ \A i \in 1..n : IsB64Char(s[i], v)
             /\ \A i \in (n + 1)..Len(s) : s[i] = Equals
             /\ d \in Seq(DigitsOf(3)) /\ Len(d) = n /\ \A i \in 1..n : d[i] = s[i].d
             /\ \A i \in (4 * size)..(3 * n - 1) : Stream(d, 3, i) = 0
             /\ B64Decode(s, v) = Ok(Regroup(d, 3, 4, size))
<1> DEFINE n == DigitCount(s, v)
           a == SubSeq(s, 1, n)
           d == Digits(a)
           size == (3 * n) \div 4
<1>1. n \in 0..Len(s) /\ (\A i \in 1..n : IsB64Char(s[i], v)) /\ Len(s) \in Nat
  BY DigitCountStops, LenProperties
<1>2. /\ n % 4 # 1 /\ Len(s) = n + PaddingFor(n, v)
      /\ \A i \in (n + 1)..Len(s) : s[i] = Equals
      /\ \A i \in (4 * size)..(3 * n - 1) : Stream(d, 3, i) = 0
      /\ B64Decode(s, v) = Ok(Regroup(d, 3, 4, size))
  <2>1. B64Decode(s, v) = Base642Bin(s, v, DecodedLen(Len(s)))
    BY DEF B64Decode, Err
  <2> DEFINE Accepts(cap) ==
               /\ n % 4 # 1 /\ size <= cap
               /\ \A i \in (4 * size)..(3 * n - 1) : Stream(d, 3, i) = 0
               /\ Len(s) = n + PaddingFor(n, v)
               /\ \A i \in (n + 1)..Len(s) : s[i] = Equals
  <2>2. \A cap : Base642Bin(s, v, cap) = IF Accepts(cap) THEN Ok(Regroup(d, 3, 4, size)) ELSE Err
    BY DEF Base642Bin, PaddingFor
  <2>3. ~Err.ok
    BY DEF Err
  <2>4. Accepts(DecodedLen(Len(s)))
    <3> HIDE DEF Accepts, d, size, n
    <3> QED
      BY <2>1, <2>2, <2>3
  <2>5. B64Decode(s, v) = Ok(Regroup(d, 3, 4, size))
    <3> HIDE DEF Accepts, d, size, n
    <3> QED
      BY <2>1, <2>2, <2>4
  <2> QED
    BY <2>4, <2>5
<1> HIDE DEF n
<1>3. a \in Seq(Chars) /\ Len(a) = n /\ \A i \in 1..n : a[i] = s[i]
  <2>1. s \in [1..Len(s) -> Chars]
    BY LenProperties
  <2> QED
    BY <1>1, <2>1, PrefixOf
<1> HIDE DEF a
<1>4. d \in Seq(Int) /\ Len(d) = n /\ \A i \in 1..n : d[i] = s[i].d
  BY <1>3, DigitsOfText
<1> HIDE DEF d
<1>5. d \in Seq(DigitsOf(3))
  <2>1. d \in [1..n -> Int] /\ n \in Nat
    BY <1>1, <1>4, LenProperties
  <2>2. \A i \in 1..n : d[i] \in DigitsOf(3)
    BY <1>1, <1>4, DigitSets DEF IsB64Char
  <2>3. d \in [1..n -> DigitsOf(3)]
    BY <2>1, <2>2
  <2> QED
    BY <2>1, <2>3
<1> QED
  BY <1>1, <1>2, <1>4, <1>5 DEF n, a, d

\* A text that base64::decode accepts is what base64::encode makes of the result.
LEMMA B64Exact ==
  ASSUME NEW s \in Seq(Chars), NEW v \in Variants, B64Decode(s, v).ok
  PROVE  B64Encode(B64Decode(s, v).val, v) = s
<1> DEFINE n == DigitCount(s, v)
           d == Digits(SubSeq(s, 1, n))
           size == (3 * n) \div 4
           b == Regroup(d, 3, 4, size)
           e == n + PaddingFor(n, v)
<1>1. /\ n \in 0..Len(s) /\ n % 4 # 1 /\ Len(s) = e
      /\ \A i \in 1..n : IsB64Char(s[i], v)
      /\ \A i \in (n + 1)..Len(s) : s[i] = Equals
      /\ d \in Seq(DigitsOf(3)) /\ Len(d) = n /\ \A i \in 1..n : d[i] = s[i].d
      /\ \A i \in (4 * size)..(3 * n - 1) : Stream(d, 3, i) = 0
      /\ B64Decode(s, v) = Ok(b)
  BY B64Accepted
<1>2. B64Decode(s, v).val = b
  BY <1>1 DEF Ok
<1>3. Len(s) \in Nat /\ n \in Nat /\ s \in [1..Len(s) -> Chars] /\ 3 \in 1..4 /\ 4 \in 1..4
  BY <1>1, LenProperties
<1> HIDE DEF n, d
<1>4. size \in Nat /\ SextetsOf(size) = n
  BY <1>1, <1>3, BytesOfSextets
<1> HIDE DEF size
<1>5. d \in Seq(Nat)
  BY <1>1, <1>3, DigitIsNat
<1>6. b \in Seq(Bytes) /\ Len(b) = size
  BY <1>3, <1>4, <1>5, RegroupStream, DigitSets
<1>7. Regroup(b, 4, 3, n) = d
  <2>1. Regroup(Regroup(d, 3, 4, size), 4, 3, Len(d)) = d
    BY <1>1, <1>3, <1>4, RegroupBack
  <2> QED
    BY <1>1, <2>1
<1> HIDE DEF b
<1>8. B64Encode(b, v) = [i \in 1..e |-> IF i <= n THEN B64Char(d[i], v) ELSE Equals]
  BY <1>4, <1>6, <1>7, B64Chars
<1>9. ASSUME NEW i \in 1..e
      PROVE  s[i] = IF i <= n THEN B64Char(d[i], v) ELSE Equals
  <2>1. CASE i <= n
    <3>1. i \in 1..n
      BY <1>3, <2>1
    <3>2. s[i] \in Chars /\ d[i] = s[i].d /\ s[i].alt = (v.url /\ s[i].d >= SEXTET - 2)
      BY <1>1, <1>3, <3>1 DEF IsB64Char
    <3>3. s[i] = [d |-> s[i].d, alt |-> s[i].alt]
      BY <3>2 DEF Chars
    <3> QED
      BY <2>1, <3>2, <3>3 DEF B64Char, Char
  <2>2. CASE ~(i <= n)
    <3>1. i \in (n + 1)..Len(s)
      BY <1>1, <1>3, <2>2
    <3> QED
      BY <1>1, <2>2, <3>1
  <2> QED
    BY <2>1, <2>2
<1>10. s = [i \in 1..e |-> s[i]]
  BY <1>1, <1>3
<1> HIDE DEF e
<1> QED
  BY <1>2, <1>8, <1>9, <1>10

\* The characters of a text of base64::encode.
LEMMA B64Text ==
  ASSUME NEW m \in Seq(Bytes), NEW v \in Variants
  PROVE  LET s == B64Encode(m, v)
             n == SextetsOf(Len(m))
             d == Regroup(m, 4, 3, n)
         IN  /\ n \in Nat /\ s \in Seq(Chars) /\ Len(s) = n + PaddingFor(n, v)
             /\ \A i \in 1..n : IsB64Char(s[i], v) /\ s[i].d = d[i] /\ d[i] \in DigitsOf(3)
             /\ \A i \in (n + 1)..Len(s) : s[i] = Equals
<1> DEFINE s == B64Encode(m, v)
           n == SextetsOf(Len(m))
           d == Regroup(m, 4, 3, n)
           e == n + PaddingFor(n, v)
<1>1. /\ n \in Nat /\ d \in Seq(DigitsOf(3)) /\ Len(d) = n
      /\ s = [i \in 1..e |-> IF i <= n THEN B64Char(d[i], v) ELSE Equals]
  BY B64Chars
<1> HIDE DEF n, d, s
<1>2. e \in Nat /\ n <= e
  <2>1. PaddingFor(n, v) \in 0..3
    BY <1>1, PaddingRange
  <2> QED
    BY <1>1, <2>1
<1> HIDE DEF e
<1>3. ASSUME NEW i \in 1..n
      PROVE  s[i] \in Chars /\ IsB64Char(s[i], v) /\ s[i].d = d[i] /\ d[i] \in DigitsOf(3)
  <2>1. i \in 1..e /\ i <= n
    BY <1>1, <1>2
  <2>2. d[i] \in DigitsOf(3)
    BY <1>1, ElementOfSeq
  <2>3. d[i] \in Int /\ d[i] \in 0..(SEXTET - 1)
    BY <2>2, DigitSets
  <2>4. s[i] = [d |-> d[i], alt |-> (v.url /\ d[i] >= SEXTET - 2)]
    BY <1>1, <2>1 DEF B64Char, Char
  <2>5. (v.url /\ d[i] >= SEXTET - 2) \in BOOLEAN
    OBVIOUS
  <2> QED
    BY <2>2, <2>3, <2>4, <2>5 DEF IsB64Char, Chars
<1>4. ASSUME NEW i \in (n + 1)..e
      PROVE  s[i] = Equals /\ s[i] \in Chars
  <2>1. i \in 1..e /\ ~(i <= n)
    BY <1>1, <1>2
  <2>2. Equals \in Chars
    BY DEF Equals, Char, Chars
  <2>3. s[i] = Equals
    BY <1>1, <2>1
  <2> QED
    BY <2>2, <2>3
<1>5. s \in [1..e -> Chars]
  <2>1. \A i \in 1..e : s[i] \in Chars
    <3> SUFFICES ASSUME NEW i \in 1..e
                 PROVE  s[i] \in Chars
      OBVIOUS
    <3>1. i \in 1..n \/ i \in (n + 1)..e
      BY <1>1, <1>2
    <3> QED
      BY <1>3, <1>4, <3>1
  <2> QED
    BY <1>1, <2>1
<1>6. s \in Seq(Chars) /\ Len(s) = e
  BY <1>2, <1>5
<1> QED
  BY <1>1, <1>3, <1>4, <1>6 DEF s, n, d, e

\* Whatever variant reads a text of base64::encode, it sees all its digits or
\* refuses it.
LEMMA B64DigitCount ==
  ASSUME NEW m \in Seq(Bytes), NEW v \in Variants, NEW r \in Variants,
         \/ r = v
         \/ B64Decode(B64Encode(m, v), r).ok
  PROVE  DigitCount(B64Encode(m, v), r) = SextetsOf(Len(m))
<1> DEFINE s == B64Encode(m, v)
           n == SextetsOf(Len(m))
           k == DigitCount(s, r)
           d == Regroup(m, 4, 3, n)
<1>1. /\ n \in Nat /\ s \in Seq(Chars) /\ Len(s) = n + PaddingFor(n, v)
      /\ \A i \in 1..n : IsB64Char(s[i], v) /\ s[i].d = d[i] /\ d[i] \in DigitsOf(3)
      /\ \A i \in (n + 1)..Len(s) : s[i] = Equals
  BY B64Text
<1> HIDE DEF s, n, d
<1>2. /\ k \in 0..Len(s)
      /\ \A i \in 1..k : IsB64Char(s[i], r)
      /\ k < Len(s) => ~IsB64Char(s[k + 1], r)
  BY <1>1, DigitCountStops
<1>3. Len(s) \in Nat /\ n <= Len(s)
  <2>1. PaddingFor(n, v) \in 0..3
    BY <1>1, PaddingRange
  <2> QED
    BY <1>1, <2>1
<1>4. r = v \/ \A i \in (k + 1)..Len(s) : s[i] = Equals
  <2>1. CASE r # v
    <3>1. B64Decode(s, r).ok
      BY <2>1 DEF s
    <3> QED
      BY <1>1, <3>1, B64Accepted
  <2> QED
    BY <2>1
<1> HIDE DEF k
<1>5. Equals.d = -1 /\ ~IsB64Char(Equals, r)
  BY DEF Equals, Char, IsB64Char
<1>6. ~(k < n)
  <2> SUFFICES ASSUME k < n
               PROVE  FALSE
    OBVIOUS
  <2>1. k + 1 \in 1..n /\ k + 1 \in (k + 1)..Len(s) /\ k < Len(s)
    BY <1>1, <1>2, <1>3
  <2>2. IsB64Char(s[k + 1], v) /\ s[k + 1].d \in DigitsOf(3)
    BY <1>1, <2>1
  <2>3. s[k + 1].d # -1
    BY <2>2, DigitSets
  <2> QED
    BY <1>2, <1>4, <1>5, <2>1, <2>2, <2>3
<1>7. ~(k > n)
  <2> SUFFICES ASSUME k > n
               PROVE  FALSE
    OBVIOUS
  <2>1. n + 1 \in 1..k /\ n + 1 \in (n + 1)..Len(s)
    BY <1>1, <1>2, <1>3
  <2> QED
    BY <1>1, <1>2, <1>5, <2>1
<1>8. k = n
  BY <1>1, <1>2, <1>3, <1>6, <1>7
<1> QED
  BY <1>8 DEF k, s, n

\* base64::decode of the same variant undoes base64::encode, and of another one
\* it never gives anything else.
LEMMA B64Back ==
  ASSUME NEW m \in Seq(Bytes), Len(m) < USIZE \div 2, NEW v \in Variants, NEW r \in Variants
  PROVE  /\ r = v => B64Decode(B64Encode(m, v), r) = Ok(m)
         /\ B64Decode(B64Encode(m, v), r).ok => B64Decode(B64Encode(m, v), r).val = m
<1> DEFINE s == B64Encode(m, v)
           n == SextetsOf(Len(m))
           d == Regroup(m, 4, 3, n)
           p == Digits(SubSeq(s, 1, n))
<1>1. /\ Len(m) \in Nat /\ m \in Seq(Nat) /\ m \in Seq(DigitsOf(4)) /\ 3 \in 1..4 /\ 4 \in 1..4
  BY BytesAreNats
<1>2. n \in Nat /\ n % 4 # 1 /\ (3 * n) \div 4 = Len(m) /\ 4 * Len(m) <= 3 * n
  BY <1>1, SextetsOfBytes
<1>3. /\ s \in Seq(Chars) /\ Len(s) = n + PaddingFor(n, v)
      /\ \A i \in 1..n : IsB64Char(s[i], v) /\ s[i].d = d[i] /\ d[i] \in DigitsOf(3)
      /\ \A i \in (n + 1)..Len(s) : s[i] = Equals
  BY B64Text
<1>4. n <= Len(s) /\ Len(s) \in Nat
  <2> HIDE DEF n, s, d
  <2>1. PaddingFor(n, v) \in 0..3
    BY <1>2, PaddingRange
  <2> QED
    BY <1>2, <1>3, <2>1
<1>5. /\ d \in Seq(DigitsOf(3)) /\ Len(d) = n
      /\ \A i \in 0..(3 * n - 1) : Stream(d, 3, i) = Stream(m, 4, i)
  <2> HIDE DEF n
  <2> QED
    BY <1>1, <1>2, RegroupStream
<1>6. Regroup(d, 3, 4, Len(m)) = m
  <2> HIDE DEF n
  <2>1. (3 * n)..(4 * Len(m) - 1) = {}
    BY <1>1, <1>2
  <2> QED
    BY <1>1, <1>2, <2>1, RegroupBack
<1>7. ASSUME NEW i \in (4 * Len(m))..(3 * n - 1)
      PROVE  Stream(d, 3, i) = 0
  <2> HIDE DEF n, d
  <2>1. i \in 0..(3 * n - 1) /\ ~(i < 4 * Len(m))
    BY <1>1, <1>2
  <2>2. Stream(m, 4, i) = 0
    BY <2>1 DEF Stream
  <2> QED
    BY <1>5, <2>1, <2>2
<1> HIDE DEF n, d, s
<1>8. p = d
  <2> DEFINE a == SubSeq(s, 1, n)
  <2>1. s \in [1..Len(s) -> Chars] /\ n \in 0..Len(s)
    BY <1>2, <1>3, <1>4, LenProperties
  <2>2. a \in Seq(Chars) /\ Len(a) = n /\ \A i \in 1..n : a[i] = s[i]
    BY <1>4, <2>1, PrefixOf
  <2> HIDE DEF a
  <2>3. Digits(a) \in Seq(Int) /\ Len(Digits(a)) = n /\ \A i \in 1..n : Digits(a)[i] = a[i].d
    BY <2>2, DigitsOfText
  <2>4. \A i \in 1..n : Digits(a)[i] = d[i]
    BY <1>3, <2>2, <2>3
  <2>5. d \in Seq(Int)
    <3>1. DigitsOf(3) \subseteq Int
      BY <1>1, DigitIsNat
    <3> QED
      BY <1>5, <3>1
  <2>6. Digits(a) = d
    BY <1>5, <2>3, <2>4, <2>5, SeqEqual
  <2> QED
    BY <2>6 DEF a
<1>9. ASSUME r = v
      PROVE  B64Decode(s, r) = Ok(m)
  <2>1. DigitCount(s, v) = n
    BY B64DigitCount DEF s, n
  <2>2. DecodedLen(Len(s)) # Overflow /\ DecodedLen(Len(s)) >= Len(m)
    BY <1>1, <1>3, RoomForBytes DEF n
  <2>3. B64Decode(s, v) = Base642Bin(s, v, DecodedLen(Len(s)))
    BY <2>2 DEF B64Decode
  <2>4. Len(m) <= DecodedLen(Len(s))
    BY <2>2
  <2>5. /\ n % 4 # 1 /\ (3 * n) \div 4 <= DecodedLen(Len(s))
        /\ \A i \in (4 * ((3 * n) \div 4))..(3 * n - 1) : Stream(p, 3, i) = 0
        /\ Len(s) = n + PaddingFor(n, v)
        /\ \A i \in (n + 1)..Len(s) : s[i] = Equals
    <3> HIDE DEF p
    <3> QED
      BY <1>2, <1>3, <1>7, <1>8, <2>4
  <2>6. Base642Bin(s, v, DecodedLen(Len(s))) = Ok(Regroup(p, 3, 4, (3 * n) \div 4))
    BY <2>1, <2>5 DEF Base642Bin, PaddingFor
  <2> HIDE DEF p
  <2> QED
    BY <1>2, <1>6, <1>8, <1>9, <2>3, <2>6
<1>10. ASSUME B64Decode(s, r).ok
       PROVE  B64Decode(s, r).val = m
  <2>1. DigitCount(s, r) = n
    BY <1>10, B64DigitCount DEF s, n
  <2>2. B64Decode(s, r) = Ok(Regroup(p, 3, 4, (3 * n) \div 4))
    BY <1>3, <1>10, <2>1, B64Accepted
  <2> HIDE DEF p
  <2>3. B64Decode(s, r) = Ok(m)
    BY <1>2, <1>6, <1>8, <2>2
  <2> QED
    BY <2>3 DEF Ok
<1> QED
  BY <1>9, <1>10 DEF s

-----------------------------------------------------------------------------
(* Texts are exact                                                         *)

\* A text is one of the program's own, with what it was made from, or foreign.
OwnText ==
  \E fmt \in Formats, v \in Variants, m \in Messages :
    /\ v \in VariantsOf(fmt) /\ source = {m}
    /\ text = [fmt |-> fmt, v |-> v, chars |-> Encode(fmt, v, m)]
ForeignText ==
  /\ source = {}
  /\ \E fmt \in {"hex", "base64"}, s \in Foreign :
       text = [fmt |-> fmt, v |-> NoText.v, chars |-> s]
TextInv == text = NoText \/ OwnText \/ ForeignText

LEMMA MessageIsBytes ==
  ASSUME NEW m \in Messages
  PROVE  m \in Seq(Bytes) /\ Len(m) \in Nat /\ Len(m) <= MaxMsg /\ Len(m) < USIZE \div 2
<1>1. PICK n \in 0..MaxMsg : m \in [1..n -> Sample]
  BY DEF Messages
<1>2. n \in Nat /\ Sample \subseteq Bytes /\ MaxMsg \in Nat /\ MaxMsg < USIZE \div 2 /\ USIZE \div 2 \in Int
  BY EncodingAssumption DEF Bytes
<1>3. m \in Seq(Sample) /\ Len(m) = n
  BY <1>1, <1>2
<1> QED
  BY <1>1, <1>2, <1>3

\* The four formats together, for a text of the program ...
LEMMA OwnTextIsExact ==
  ASSUME NEW fmt \in Formats, NEW v \in VariantsOf(fmt), NEW r \in VariantsOf(fmt), NEW m \in Messages
  PROVE  LET s == Encode(fmt, v, m)
             dec == Decode(fmt, r, s)
         IN  /\ dec.ok => Encode(fmt, r, dec.val) = Folded(fmt, s)
             /\ dec.ok => dec.val = m
             /\ r = v => dec.ok
<1>1. m \in Seq(Bytes) /\ Len(m) \in Nat /\ Len(m) < USIZE \div 2
  BY MessageIsBytes
<1>2. CASE fmt = "hex"
  <2> DEFINE s == HexEncode(m)
  <2>1. Encode(fmt, v, m) = s /\ Decode(fmt, r, s) = HexDecode(s)
    BY <1>2 DEF Encode, Decode
  <2>2. s \in Seq(Chars) /\ Len(s) = 2 * Len(m) /\ HexDecode(s) = Ok(m)
    BY <1>1, HexBack
  <2> HIDE DEF s
  <2>3. Len(s) < USIZE
    <3>1. PICK w \in Nat : USIZE = 4 * w
      BY EncodingAssumption
    <3> QED
      BY <1>1, <2>2, <3>1
  <2>4. HexDecode(s).ok /\ HexDecode(s).val = m
    BY <2>2 DEF Ok
  <2>5. HexEncode(m) = Folded("hex", s)
    BY <2>2, <2>3, <2>4, HexExact
  <2>6. Encode(fmt, r, m) = HexEncode(m)
    BY <1>2 DEF Encode
  <2> QED
    BY <1>2, <2>1, <2>4, <2>5, <2>6
<1>3. CASE fmt = "base64"
  <2> DEFINE s == B64Encode(m, v)
             dec == B64Decode(s, r)
  <2>1. Encode(fmt, v, m) = s /\ Decode(fmt, r, s) = dec
    BY <1>3 DEF Encode, Decode
  <2>2. v \in Variants /\ r \in Variants
    BY <1>3 DEF VariantsOf
  <2>3. s \in Seq(Chars)
    BY <1>1, <2>2, B64Text
  <2>4. (r = v => dec = Ok(m)) /\ (dec.ok => dec.val = m)
    BY <1>1, <2>2, B64Back
  <2> HIDE DEF s
  <2>5. dec.ok => B64Encode(dec.val, r) = s
    BY <2>2, <2>3, B64Exact
  <2>6. Folded(fmt, s) = s /\ Encode(fmt, r, dec.val) = B64Encode(dec.val, r)
    BY <1>3 DEF Folded, Encode
  <2> HIDE DEF dec
  <2> QED
    BY <2>1, <2>4, <2>5, <2>6 DEF Ok
<1>4. CASE fmt \notin {"hex", "base64"}
  <2>1. Encode(fmt, v, m) = m /\ Encode(fmt, r, m) = m /\ Decode(fmt, r, m) = Ok(m) /\ Folded(fmt, m) = m
    BY <1>4 DEF Encode, Decode, Folded
  <2>2. Ok(m).ok /\ Ok(m).val = m
    BY DEF Ok
  <2> QED
    BY <2>1, <2>2
<1> QED
  BY <1>2, <1>3, <1>4

\* ... and for one that it is given.
LEMMA ForeignTextIsExact ==
  ASSUME NEW fmt \in {"hex", "base64"}, NEW r \in Variants, NEW s \in Foreign,
         Decode(fmt, r, s).ok
  PROVE  Encode(fmt, r, Decode(fmt, r, s).val) = Folded(fmt, s)
<1>1. s \in Seq(Chars) /\ Len(s) \in Nat /\ Len(s) < USIZE
  <2>1. s \in Seq(Chars) /\ Len(s) < USIZE \div 2
    BY EncodingAssumption
  <2>2. PICK w \in Nat : USIZE = 4 * w
    BY EncodingAssumption
  <2>3. Len(s) \in Nat
    BY <2>1, LenProperties
  <2> QED
    BY <2>1, <2>2, <2>3
<1>2. CASE fmt = "hex"
  <2>1. Decode(fmt, r, s) = HexDecode(s) /\ Encode(fmt, r, HexDecode(s).val) = HexEncode(HexDecode(s).val)
    BY <1>2 DEF Decode, Encode
  <2> QED
    BY <1>1, <1>2, <2>1, HexExact
<1>3. CASE fmt = "base64"
  <2>1. /\ Decode(fmt, r, s) = B64Decode(s, r) /\ Folded(fmt, s) = s
        /\ Encode(fmt, r, B64Decode(s, r).val) = B64Encode(B64Decode(s, r).val, r)
    BY <1>3 DEF Decode, Encode, Folded
  <2> QED
    BY <1>1, <2>1, B64Exact
<1> QED
  BY <1>2, <1>3

LEMMA LoadIsExact ==
  ASSUME TextInv, NEW r \in Variants, NEW n \in 0..MaxMsg, Load(r, n)
  PROVE  TextIsExact'
<1> DEFINE dec == Decode(text.fmt, r, text.chars)
<1>1. /\ text.fmt # "none" /\ r \in VariantsOf(text.fmt)
      /\ out' = [op |-> "load", v |-> r, n |-> n, dec |-> dec, key |-> Newtype(text.fmt, dec, n)]
      /\ text' = text /\ source' = source
  BY DEF Load
<1>2. out'.dec = dec /\ out'.v = r
  BY <1>1
<1>3. CASE OwnText
  <2>1. PICK fmt \in Formats, v \in Variants, m \in Messages :
          /\ v \in VariantsOf(fmt) /\ source = {m}
          /\ text = [fmt |-> fmt, v |-> v, chars |-> Encode(fmt, v, m)]
    BY <1>3 DEF OwnText
  <2>2. text.fmt = fmt /\ text.v = v /\ text.chars = Encode(fmt, v, m)
    BY <2>1
  <2>3. /\ dec.ok => Encode(fmt, r, dec.val) = Folded(fmt, text.chars)
        /\ dec.ok => dec.val = m
        /\ r = v => dec.ok
    BY <1>1, <2>1, <2>2, OwnTextIsExact
  <2> HIDE DEF dec
  <2>4. ASSUME dec.ok, dec.val = m, n = Len(m) PROVE Newtype(fmt, dec, n) = Ok(m)
    <3>1. m \in Seq(Bytes) /\ Len(m) \in Nat
      BY MessageIsBytes
    <3>2. FromSlice(m, n) = Ok(m)
      BY <2>4 DEF FromSlice
    <3>3. VisitSeq(m, n) = Ok(m)
      <4>1. [i \in 1..n |-> IF i <= Len(m) THEN m[i] ELSE 0] = m
        BY <2>4, <3>1
      <4> QED
        BY <2>4, <3>1, <4>1 DEF VisitSeq
    <3> QED
      BY <2>4, <3>2, <3>3 DEF Newtype
  <2>5. out'.n = n /\ out'.key = Newtype(fmt, dec, n)
    BY <1>1, <2>2
  <2>6. \A x \in source' : x = m
    BY <1>1, <2>1
  <2> QED
    BY <1>1, <1>2, <2>2, <2>3, <2>4, <2>5, <2>6 DEF TextIsExact
<1>4. CASE ForeignText
  <2>1. PICK fmt \in {"hex", "base64"}, s \in Foreign :
          text = [fmt |-> fmt, v |-> NoText.v, chars |-> s]
    BY <1>4 DEF ForeignText
  <2>2. text.fmt = fmt /\ text.chars = s /\ source = {}
    BY <1>4, <2>1 DEF ForeignText
  <2>3. dec.ok => Encode(fmt, r, dec.val) = Folded(fmt, s)
    BY <2>2, ForeignTextIsExact
  <2> HIDE DEF dec
  <2> QED
    BY <1>1, <1>2, <2>2, <2>3 DEF TextIsExact
<1>5. text # NoText
  BY <1>1 DEF NoText
<1> QED
  BY <1>3, <1>4, <1>5 DEF TextInv

LEMMA TextNext ==
  ASSUME TextInv, TextIsExact, [Next]_vars
  PROVE  TextInv' /\ TextIsExact'
<1>1. ASSUME text' = text, source' = source
      PROVE  TextInv'
  BY <1>1 DEF TextInv, OwnText, ForeignText
<1>2. CASE Padding
  <2>1. text' = text /\ source' = source /\ out'.op \in {"pad", "unpad", "none"}
    <3>1. ASSUME NEW bs \in BlockSizes, Pad(bs)
          PROVE  text' = text /\ source' = source /\ out'.op = "pad"
      BY <3>1 DEF Pad
    <3>2. ASSUME NEW bs \in BlockSizes, Unpad(bs)
          PROVE  text' = text /\ source' = source /\ out'.op = "unpad"
      BY <3>2 DEF Unpad
    <3>3. ASSUME NEW m \in Messages, Write(m)
          PROVE  text' = text /\ source' = source /\ out'.op = "none"
      BY <3>3 DEF Write
    <3> QED
      BY <1>2, <3>1, <3>2, <3>3 DEF Padding
  <2> QED
    BY <1>1, <2>1 DEF TextIsExact
<1>3. CASE Texts
  <2>1. ASSUME NEW fmt \in Formats, NEW v \in Variants, NEW m \in Messages, Save(fmt, v, m)
        PROVE  TextInv' /\ TextIsExact'
    <3>1. /\ v \in VariantsOf(fmt) /\ source' = {m} /\ out'.op = "none"
          /\ text' = [fmt |-> fmt, v |-> v, chars |-> Encode(fmt, v, m)]
      BY <2>1 DEF Save
    <3> QED
      BY <3>1 DEF TextInv, OwnText, TextIsExact
  <2>2. ASSUME NEW fmt \in {"hex", "base64"}, NEW s \in Foreign, Receive(fmt, s)
        PROVE  TextInv' /\ TextIsExact'
    <3>1. /\ source' = {} /\ out'.op = "none"
          /\ text' = [fmt |-> fmt, v |-> NoText.v, chars |-> s]
      BY <2>2 DEF Receive
    <3> QED
      BY <3>1 DEF TextInv, ForeignText, TextIsExact
  <2>3. ASSUME NEW v \in Variants, NEW n \in 0..MaxMsg, Load(v, n)
        PROVE  TextInv' /\ TextIsExact'
    <3>1. text' = text /\ source' = source
      BY <2>3 DEF Load
    <3> QED
      BY <1>1, <2>3, <3>1, LoadIsExact
  <2> QED
    BY <1>3, <2>1, <2>2, <2>3 DEF Texts
<1>4. CASE Comparing
  <2>1. text' = text /\ source' = source /\ out'.op = "compare"
    BY <1>4 DEF Comparing, Compare
  <2> QED
    BY <1>1, <2>1 DEF TextIsExact
<1>5. CASE Finish
  <2>1. text' = NoText /\ out'.op = "none"
    BY <1>5 DEF Finish
  <2> QED
    BY <2>1 DEF TextInv, TextIsExact
<1>6. CASE UNCHANGED vars
  <2>1. text' = text /\ source' = source /\ out' = out
    BY <1>6 DEF vars
  <2> QED
    BY <1>1, <2>1 DEF TextIsExact
<1> QED
  BY <1>2, <1>3, <1>4, <1>5, <1>6 DEF Next

\* `decode` accepts exactly the texts that `encode` makes, and what the program
\* encoded comes back and nothing else does: in hexadecimal and in all variants
\* of Base64, for messages and texts of any length and bytes of any size.
THEOREM TextsAreExact == Spec => []TextIsExact
<1>1. Init => TextInv /\ TextIsExact
  BY DEF Init, TextInv, TextIsExact
<1> QED
  BY <1>1, TextNext, PTL DEF Spec

-----------------------------------------------------------------------------
(* Comparisons                                                             *)

LEMMA LessIsStrict ==
  ASSUME NEW x \in Seq(Nat), NEW y \in Seq(Nat), Less(x, y)
  PROVE  ~Less(y, x) /\ x # y
<1>1. PICK n \in 0..(Len(y) - 1) : /\ n <= Len(x) /\ \A i \in 1..n : x[i] = y[i]
                                   /\ n < Len(x) => x[n + 1] < y[n + 1]
  BY DEF Less
<1>2. /\ Len(x) \in Nat /\ Len(y) \in Nat
      /\ (\A i \in 1..Len(x) : x[i] \in Nat) /\ (\A i \in 1..Len(y) : y[i] \in Nat)
  BY LenProperties, ElementOfSeq
<1>3. n + 1 \in 1..Len(y) /\ n \in Nat /\ n < Len(y)
  BY <1>2
<1>4. n < Len(x) => n + 1 \in 1..Len(x)
  BY <1>2, <1>3
<1>5. x # y
  BY <1>1, <1>2, <1>3
<1>6. ASSUME NEW k \in 0..(Len(x) - 1), k <= Len(y), \A i \in 1..k : y[i] = x[i],
             k < Len(y) => y[k + 1] < x[k + 1]
      PROVE  FALSE
  <2>1. k \in Nat /\ k < Len(x) /\ k + 1 \in 1..Len(x)
    BY <1>2
  <2>2. CASE n < k
    <3>1. n + 1 \in 1..k /\ n < Len(x)
      BY <1>3, <2>1, <2>2, <1>2
    <3>2. x[n + 1] < y[n + 1] /\ y[n + 1] = x[n + 1] /\ x[n + 1] \in Nat
      BY <1>1, <1>2, <1>4, <1>6, <3>1
    <3> QED
      BY <3>2
  <2>3. CASE k < n
    <3>1. k + 1 \in 1..n /\ k < Len(y)
      BY <1>3, <2>1, <2>3, <1>2
    <3>2. y[k + 1] < x[k + 1] /\ y[k + 1] = x[k + 1] /\ x[k + 1] \in Nat
      BY <1>1, <1>2, <1>6, <2>1, <3>1
    <3> QED
      BY <3>2
  <2>4. CASE n = k
    <3>1. x[n + 1] < y[n + 1] /\ y[n + 1] < x[n + 1]
      BY <1>1, <1>3, <1>6, <2>1, <2>4
    <3>2. x[n + 1] \in Nat /\ y[n + 1] \in Nat
      BY <1>2, <1>3, <2>1, <2>4
    <3> QED
      BY <3>1, <3>2
  <2> QED
    BY <1>3, <2>1, <2>2, <2>3, <2>4
<1> QED
  BY <1>5, <1>6 DEF Less

\* Two slices differ at a first byte, or one ends before it.
LEMMA LessIsTotal ==
  ASSUME NEW x \in Seq(Nat), NEW y \in Seq(Nat), x # y
  PROVE  Less(x, y) \/ Less(y, x)
<1> DEFINE T == {n \in 0..Len(x) : n = Len(x) \/ n = Len(y) \/ x[n + 1] # y[n + 1]}
<1>1. /\ Len(x) \in Nat /\ Len(y) \in Nat
      /\ (\A i \in 1..Len(x) : x[i] \in Nat) /\ (\A i \in 1..Len(y) : y[i] \in Nat)
  BY LenProperties, ElementOfSeq
<1>2. T \in SUBSET Nat /\ T # {}
  <2>1. Len(x) \in T
    BY <1>1
  <2>2. T \subseteq 0..Len(x) /\ 0..Len(x) \subseteq Nat
    BY <1>1
  <2> HIDE DEF T
  <2> QED
    BY <2>1, <2>2
<1>3. PICK n \in T : \A k \in T : n <= k
  <2> HIDE DEF T
  <2> QED
    BY <1>2, LeastElement
<1>4. n \in 0..Len(x) /\ (n = Len(x) \/ n = Len(y) \/ x[n + 1] # y[n + 1])
  OBVIOUS
<1>5. ASSUME NEW k \in 0..(n - 1)
      PROVE  k # Len(y) /\ x[k + 1] = y[k + 1]
  <2>1. k \in 0..Len(x) /\ k < n /\ k # Len(x) /\ n \in Nat /\ k \in Nat
    BY <1>1, <1>4
  <2>2. ~(k \in T)
    <3> HIDE DEF T
    <3>1. k \in T => n <= k
      BY <1>3
    <3> QED
      BY <2>1, <3>1
  <2> QED
    BY <2>1, <2>2
<1>6. n \in Nat /\ n <= Len(y)
  <2>1. n \in Nat
    BY <1>1, <1>4
  <2>2. Len(y) < n => Len(y) \in 0..(n - 1)
    BY <1>1, <2>1
  <2> QED
    BY <1>1, <1>5, <2>1, <2>2
<1>7. ASSUME NEW i \in 1..n
      PROVE  x[i] = y[i]
  <2>1. i - 1 \in 0..(n - 1) /\ (i - 1) + 1 = i
    BY <1>6
  <2> QED
    BY <1>5, <2>1
<1> HIDE DEF T
<1>8. CASE n = Len(x)
  <2>1. n # Len(y)
    <3>1. CASE n = Len(y)
      BY <1>7, <1>8, <3>1, SeqEqual
    <3> QED
      BY <3>1
  <2>2. n \in 0..(Len(y) - 1) /\ n <= Len(x) /\ ~(n < Len(x))
    BY <1>1, <1>6, <1>8, <2>1
  <2> QED
    BY <1>7, <2>2 DEF Less
<1>9. CASE n # Len(x) /\ n = Len(y)
  <2>1. n \in 0..(Len(x) - 1) /\ n <= Len(y) /\ ~(n < Len(y))
    BY <1>1, <1>4, <1>9
  <2> QED
    BY <1>7, <2>1 DEF Less
<1>10. CASE n # Len(x) /\ n # Len(y)
  <2>1. /\ n \in 0..(Len(x) - 1) /\ n \in 0..(Len(y) - 1) /\ n <= Len(x) /\ n <= Len(y)
        /\ n + 1 \in 1..Len(x) /\ n + 1 \in 1..Len(y)
    BY <1>1, <1>4, <1>6, <1>10
  <2>2. x[n + 1] < y[n + 1] \/ y[n + 1] < x[n + 1]
    BY <1>1, <1>4, <1>10, <2>1
  <2> QED
    BY <1>7, <2>1, <2>2 DEF Less
<1> QED
  BY <1>8, <1>9, <1>10

\* The order of slices is total, and antisymmetric.
LEMMA CmpIsOrder ==
  ASSUME NEW x \in Seq(Nat), NEW y \in Seq(Nat)
  PROVE  (x = y <=> Cmp(x, y) = 0) /\ Cmp(y, x) = -Cmp(x, y)
<1>1. ~Less(x, x)
  BY LessIsStrict
<1>2. CASE x = y
  <2>1. Cmp(x, x) = 0
    BY <1>1 DEF Cmp
  <2>2. Cmp(x, y) = 0 /\ Cmp(y, x) = 0
    BY <1>2, <2>1
  <2>3. \A j, k \in Int : j + k = 0 => j = -k
    OBVIOUS
  <2>4. Cmp(x, y) \in Int /\ Cmp(y, x) \in Int /\ Cmp(y, x) + Cmp(x, y) = 0
    BY <2>2
  <2>5. Cmp(y, x) = -Cmp(x, y)
    BY <2>3, <2>4
  <2> QED
    BY <1>2, <2>2, <2>5
<1>3. CASE x # y
  <2>1. (Less(x, y) /\ ~Less(y, x)) \/ (Less(y, x) /\ ~Less(x, y))
    BY <1>3, LessIsStrict, LessIsTotal
  <2> QED
    BY <1>3, <2>1 DEF Cmp
<1> QED
  BY <1>2, <1>3

LEMMA MemcmpIsEqual ==
  ASSUME NEW x \in Seq(Nat), NEW y \in Seq(Nat)
  PROVE  Memcmp(x, y) <=> x = y
<1>1. DOMAIN x = 1..Len(x)
  BY LenProperties
<1>2. Memcmp(x, y) => x = y
  BY <1>1, SeqEqual DEF Memcmp
<1>3. x = y => Memcmp(x, y)
  BY DEF Memcmp
<1> QED
  BY <1>2, <1>3

\* A Digest shows the bytes it was made of, however many there are.
LEMMA DigestIsExact ==
  ASSUME NEW m \in Messages
  PROVE  AsRef(Digest(m)) = m /\ Digest(m).len = Len(m)
<1> DEFINE z == Zeros(MaxMsg - Len(m))
           a == m \o z
<1>1. m \in Seq(Bytes) /\ Len(m) \in Nat /\ Len(m) <= MaxMsg /\ MaxMsg \in Nat
  BY MessageIsBytes, EncodingAssumption
<1>2. 0 \in Bytes
  BY MarkIsByte
<1> HIDE DEF Bytes
<1>3. z \in Seq(Bytes) /\ Len(z) = MaxMsg - Len(m)
  BY <1>1, <1>2 DEF Zeros
<1> HIDE DEF z
<1>4. /\ a \in Seq(Bytes) /\ Len(a) = Len(m) + Len(z)
      /\ \A i \in 1..Len(m) : a[i] = m[i]
  BY <1>1, <1>3, ConcatProperties
<1> HIDE DEF a
<1>5. a \in [1..Len(a) -> Bytes] /\ Len(a) \in Nat /\ Len(m) \in 0..Len(a)
  BY <1>1, <1>3, <1>4, LenProperties
<1>6. /\ SubSeq(a, 1, Len(m)) \in Seq(Bytes) /\ Len(SubSeq(a, 1, Len(m))) = Len(m)
      /\ \A i \in 1..Len(m) : SubSeq(a, 1, Len(m))[i] = a[i]
  BY <1>5, PrefixOf
<1>7. SubSeq(a, 1, Len(m)) = m
  BY <1>1, <1>4, <1>6, SeqEqual
<1>8. Digest(m).len = Len(m) /\ Digest(m).data = a
  BY DEF Digest, a, z
<1> QED
  BY <1>7, <1>8 DEF AsRef

LEMMA CompareAgrees ==
  ASSUME NEW x \in Messages, NEW y \in Messages, Compare(x, y)
  PROVE  EqMatchesOrd'
<1>1. x \in Seq(Nat) /\ y \in Seq(Nat)
  BY MessageIsBytes, BytesAreNats
<1>2. /\ AsRef(Digest(x)) = x /\ Digest(x).len = Len(x)
      /\ AsRef(Digest(y)) = y /\ Digest(y).len = Len(y)
  BY DigestIsExact
<1>3. out' = [op |-> "compare", x |-> x, y |-> y, eq |-> DigestEq(Digest(x), Digest(y)),
              cmp |-> Cmp(x, y), inverse |-> Cmp(y, x), same |-> Memcmp(x, y)]
  BY <1>2 DEF Compare
<1>4. Memcmp(x, y) <=> x = y
  BY <1>1, MemcmpIsEqual
<1>5. DigestEq(Digest(x), Digest(y)) <=> x = y
  BY <1>2, <1>4 DEF DigestEq
<1>6. (x = y <=> Cmp(x, y) = 0) /\ Cmp(y, x) = -Cmp(x, y)
  BY <1>1, CmpIsOrder
<1>7. /\ out'.x = x /\ out'.y = y /\ out'.cmp = Cmp(x, y) /\ out'.inverse = Cmp(y, x)
      /\ out'.eq = DigestEq(Digest(x), Digest(y)) /\ out'.same = Memcmp(x, y)
  BY <1>3
<1> QED
  BY <1>4, <1>5, <1>6, <1>7 DEF EqMatchesOrd

LEMMA CompareNext ==
  ASSUME EqMatchesOrd, [Next]_vars
  PROVE  EqMatchesOrd'
<1>1. CASE Padding
  <2>1. ASSUME NEW bs \in BlockSizes, Pad(bs) \/ Unpad(bs)
        PROVE  out'.op \in {"pad", "unpad"}
    BY <2>1 DEF Pad, Unpad
  <2>2. ASSUME NEW m \in Messages, Write(m)
        PROVE  out'.op = "none"
    BY <2>2 DEF Write
  <2> QED
    BY <1>1, <2>1, <2>2 DEF Padding, EqMatchesOrd
<1>2. CASE Texts
  <2>1. out'.op \in {"none", "load"}
    BY <1>2 DEF Texts, Save, Receive, Load
  <2> QED
    BY <2>1 DEF EqMatchesOrd
<1>3. CASE Comparing
  BY <1>3, CompareAgrees DEF Comparing
<1>4. CASE Finish
  <2>1. out'.op = "none"
    BY <1>4 DEF Finish
  <2> QED
    BY <2>1 DEF EqMatchesOrd
<1>5. CASE UNCHANGED vars
  BY <1>5 DEF vars, EqMatchesOrd
<1> QED
  BY <1>1, <1>2, <1>3, <1>4, <1>5 DEF Next

\* `eq`, `cmp` and `memcmp` agree with each other and with the equality of the
\* bytes, for digests and slices of any two lengths.
THEOREM ComparisonsAgree == Spec => []EqMatchesOrd
<1>1. Init => EqMatchesOrd
  BY DEF Init, EqMatchesOrd
<1> QED
  BY <1>1, CompareNext, PTL DEF Spec
=============================================================================
