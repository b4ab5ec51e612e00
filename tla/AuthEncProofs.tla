---------------------------- MODULE AuthEncProofs ----------------------------
(***************************************************************************)
(* For every set of slices, keys, nonces and messages: InPlaceInv is       *)
(* inductive for the functions that work in place, SealedInv for those     *)
(* that return a new Vec.                                                  *)
(***************************************************************************)
EXTENDS AuthEnc, SequenceTheorems, TLAPS

\* A call hands over a key made of the program's secrets.
LEMMA ParamsType ==
  ASSUME NEW h \in Handles, NEW n \in Nonces, NEW ad \in AdsOf(h)
  PROVE  Params(h, n, AdBytes(ad)) \in ParamSet
<1>1. AdBytes(ad) \in Ads
  BY EncAssumption DEF AdsOf, AdBytes
<1>2. h.pk \in Secrets /\ h.sk \in Secrets
  BY DEF Handles, Secrets
<1>3. KeyOf(h) \in SUBSET Secrets
  BY <1>2 DEF KeyOf, Precompute
<1> QED
  BY <1>1, <1>3 DEF Params, ParamSet

\* Combining a buffer with a keystream gives a buffer.
LEMMA XorType ==
  ASSUME NEW c \in Contents, NEW p \in ParamSet
  PROVE  Xor(c, p) \in Contents
  BY DEF Contents, ParamSet, PadSet, Xor, Pad

\* A keystream applied twice cancels.
LEMMA XorTwice ==
  ASSUME NEW c \in Contents, NEW p \in ParamSet
  PROVE  Xor(Xor(c, p), p) = c
<1> DEFINE q == Pad(p)
<1>1. CASE q \in c.pads
  <2>1. (c.pads \ {q}) \cup {q} = c.pads
    BY <1>1
  <2>2. Xor(c, p).pads = c.pads \ {q} /\ Xor(c, p).m = c.m
    BY <1>1 DEF Xor, Contents
  <2> QED
    BY <1>1, <2>1, <2>2, XorType DEF Xor, Contents
<1>2. CASE q \notin c.pads
  <2>1. (c.pads \cup {q}) \ {q} = c.pads
    BY <1>2
  <2>2. Xor(c, p).pads = c.pads \cup {q} /\ Xor(c, p).m = c.m
    BY <1>2 DEF Xor, Contents
  <2> QED
    BY <1>2, <2>1, <2>2, XorType DEF Xor, Contents
<1> QED
  BY <1>1, <1>2

\* Zeroed buffers and messages are buffers.
LEMMA PlainType == \A m \in Msgs \cup {Zeros} : Plain(m) \in Contents
  BY DEF Plain, Contents

\* The tag of a seal that was not refused takes the new bytes back to the old.
LEMMA TagUndoes ==
  ASSUME NEW h \in Handles, NEW p \in ParamSet, NEW c \in Contents
  PROVE  /\ SealedTag(h, p, c) \in Tags
         /\ SealedBuf(h, p, c) \in Contents
         /\ ~Refused(h) => Undoes(SealedTag(h, p, c), SealedBuf(h, p, c))
         /\ \A x \in SealedTag(h, p, c).mac :
              Xor(x.c, x.p) = SealedTag(h, p, c).before
<1>1. SealedTag(h, p, c) \in Tags /\ SealedBuf(h, p, c) \in Contents
  BY XorType DEF SealedTag, SealedBuf, Tags, Mac
<1>2. \A x \in SealedTag(h, p, c).mac :
        x.c = Xor(c, p) /\ Xor(x.c, x.p) = c
  BY XorTwice DEF SealedTag, Mac
<1>3. SealedTag(h, p, c).before = c
  BY DEF SealedTag
<1>4. ASSUME ~Refused(h)
      PROVE  Undoes(SealedTag(h, p, c), SealedBuf(h, p, c))
  <2>1. SealedTag(h, p, c).mac # {} /\ SealedBuf(h, p, c) = Xor(c, p)
    BY <1>4 DEF SealedTag, SealedBuf
  <2> QED
    BY <1>2, <1>3, <2>1 DEF Undoes
<1> QED
  BY <1>1, <1>2, <1>3, <1>4

\* What `open_detached` leaves in the slice and of the seals has its type.
LEMMA OpenedType ==
  ASSUME NEW h \in Handles, NEW p \in ParamSet, NEW t \in Tags,
         NEW c \in Contents, NEW ls \in Seq(Tags)
  PROVE  /\ OpenedBuf(h, p, t, c) \in Contents
         /\ OpenedLayers(h, p, t, c, ls) \in Seq(Tags)
<1>1. OpenedBuf(h, p, t, c) \in Contents
  BY XorType, PlainType DEF OpenedBuf, AfterFailure
<1>2. ls # << >> => SubSeq(ls, 1, Len(ls) - 1) \in Seq(Tags)
  OBVIOUS
<1> QED
  BY <1>1, <1>2 DEF OpenedLayers

\* The chain of seals of one slice: the conjuncts of Restorable.
Chain(r, ls, c) ==
  /\ ls # << >> => Link(r, ls[Len(ls)], c)
  /\ \A i \in 1..(Len(ls) - 1) : Link(r, ls[i], ls[i + 1].before)

\* A further seal prolongs the chain.
LEMMA ChainGrows ==
  ASSUME NEW r, NEW ls \in Seq(Tags), NEW c \in Contents, NEW d \in Contents,
         NEW t \in Tags, Chain(r, ls, c), t.before = c, Link(r, t, d)
  PROVE  Chain(r, Append(ls, t), d)
<1> DEFINE ms == Append(ls, t)
<1>1. Len(ms) = Len(ls) + 1 /\ ms # << >> /\ ms[Len(ms)] = t
  OBVIOUS
<1>2. ASSUME NEW i \in 1..(Len(ms) - 1)
      PROVE  Link(r, ms[i], ms[i + 1].before)
  <2>1. i \in 1..Len(ls) /\ ms[i] = ls[i]
    BY <1>1
  <2>2. CASE i = Len(ls)
    BY <1>1, <2>1, <2>2 DEF Chain
  <2>3. CASE i < Len(ls)
    <3>1. i + 1 \in 1..Len(ls) /\ i \in 1..(Len(ls) - 1)
      BY <2>1, <2>3
    <3>2. ms[i + 1] = ls[i + 1]
      BY <3>1
    <3> QED
      BY <2>1, <3>1, <3>2 DEF Chain
  <2> QED
    BY <2>1, <2>2, <2>3
<1> QED
  BY <1>1, <1>2 DEF Chain

\* A sequence without its last element.
LEMMA FrontProperties ==
  ASSUME NEW S, NEW s \in Seq(S), s # << >>
  PROVE  /\ SubSeq(s, 1, Len(s) - 1) \in Seq(S)
         /\ Len(SubSeq(s, 1, Len(s) - 1)) = Len(s) - 1
         /\ \A i \in 1..Len(SubSeq(s, 1, Len(s) - 1)) :
              SubSeq(s, 1, Len(s) - 1)[i] = s[i]
<1>1. Len(s) \in Nat /\ Len(s) # 0
  BY EmptySeq
<1>2. PICK k \in Nat : k = Len(s) - 1
  BY <1>1
<1>3. \A i \in 1..k : s[i] \in S
  BY <1>1, <1>2
<1>4. /\ SubSeq(s, 1, k) \in Seq(S)
      /\ Len(SubSeq(s, 1, k)) = IF 1 <= k THEN k - 1 + 1 ELSE 0
      /\ \A i \in 1..(k - 1 + 1) : SubSeq(s, 1, k)[i] = s[1 + i - 1]
  BY <1>3, SubSeqProperties
<1>5. SubSeq(s, 1, k) \in Seq(S) /\ Len(SubSeq(s, 1, k)) = k
  BY <1>4
<1>6. ASSUME NEW i \in 1..k PROVE SubSeq(s, 1, k)[i] = s[i]
  <2>1. i \in 1..(k - 1 + 1) /\ 1 + i - 1 = i
    OBVIOUS
  <2> QED
    BY <1>4, <2>1
<1> QED
  BY <1>2, <1>5, <1>6

\* The last seal comes off the chain.
LEMMA ChainShrinks ==
  ASSUME NEW r, NEW ls \in Seq(Tags), NEW c \in Contents, ls # << >>, Chain(r, ls, c)
  PROVE  Chain(r, SubSeq(ls, 1, Len(ls) - 1), ls[Len(ls)].before)
<1> DEFINE ms == SubSeq(ls, 1, Len(ls) - 1)
<1>1. /\ ms \in Seq(Tags)
      /\ Len(ms) = Len(ls) - 1
      /\ \A i \in 1..Len(ms) : ms[i] = ls[i]
  BY FrontProperties
<1>2. ms # << >> => Link(r, ms[Len(ms)], ls[Len(ls)].before)
  <2> SUFFICES ASSUME ms # << >>
               PROVE  Link(r, ms[Len(ms)], ls[Len(ls)].before)
    OBVIOUS
  <2>1. Len(ms) \in 1..Len(ms) /\ Len(ms) \in 1..(Len(ls) - 1)
    BY <1>1
  <2>2. ms[Len(ms)] = ls[Len(ms)] /\ Len(ms) + 1 = Len(ls)
    BY <1>1, <2>1
  <2> QED
    BY <2>1, <2>2 DEF Chain
<1>3. ASSUME NEW i \in 1..(Len(ms) - 1)
      PROVE  Link(r, ms[i], ms[i + 1].before)
  <2>1. i \in 1..(Len(ls) - 1) /\ ms[i] = ls[i] /\ ms[i + 1] = ls[i + 1]
    BY <1>1
  <2> QED
    BY <2>1 DEF Chain
<1> QED
  BY <1>2, <1>3 DEF Chain

\* An empty chain fits any bytes.
LEMMA ChainEmpty == \A r, c : Chain(r, << >>, c)
  BY DEF Chain

LEMMA RestorableIsChain ==
  Restorable <=> \A b \in Bufs : Chain(Remains(b), layers[b], buf[b])
  BY DEF Restorable, Chain

\* Before anything is sealed.
LEMMA InitInPlace == Init => InPlaceInv
<1> SUFFICES ASSUME Init PROVE InPlaceInv
  OBVIOUS
<1>1. TypeOK
  BY PlainType DEF Init, TypeOK
<1>2. Restorable
  BY DEF Init, Restorable
<1> QED
  BY <1>1, <1>2 DEF Init, InPlaceInv, OpensWhatWasSealed, NoOut

\* A written message starts the slice's chain anew.
LEMMA WriteStep ==
  ASSUME InPlaceInv, NEW b \in Bufs, NEW m \in Msgs, Write(b, m)
  PROVE  InPlaceInv'
<1>1. TypeOK'
  BY PlainType DEF InPlaceInv, TypeOK, Write
<1>2. Restorable'
  <2> SUFFICES ASSUME NEW d \in Bufs
               PROVE  Chain(Remains(d)', layers'[d], buf'[d])
    BY DEF Restorable, Chain
  <2>1. CASE d = b
    <3>1. layers'[d] = << >>
      BY <2>1 DEF InPlaceInv, TypeOK, Write
    <3> QED
      BY <3>1, ChainEmpty
  <2>2. CASE d # b
    <3>1. /\ layers'[d] = layers[d] /\ buf'[d] = buf[d]
          /\ Remains(d)' = Remains(d)
      BY <2>2 DEF InPlaceInv, TypeOK, Write, Remains
    <3>2. Chain(Remains(d), layers[d], buf[d])
      BY RestorableIsChain DEF InPlaceInv
    <3> QED
      BY <3>1, <3>2
  <2> QED
    BY <2>1, <2>2
<1>3. \A d \in Bufs : layers'[d] \in Seq(tags')
  BY DEF InPlaceInv, TypeOK, Write
<1> QED
  BY <1>1, <1>2, <1>3 DEF InPlaceInv, Write, OpensWhatWasSealed, NoOut

\* `seal_detached` prolongs the chain, or nothing if the key is refused.
LEMMA SealStep ==
  ASSUME InPlaceInv, NEW b \in Bufs, NEW h \in Handles, NEW n \in Nonces,
         NEW ad \in AdsOf(h), SealDetached(b, h, n, ad)
  PROVE  InPlaceInv'
<1> DEFINE p == Params(h, n, AdBytes(ad))
           t == SealedTag(h, p, buf[b])
           d == SealedBuf(h, p, buf[b])
<1>0. p \in ParamSet /\ buf[b] \in Contents /\ layers[b] \in Seq(Tags)
  BY ParamsType DEF InPlaceInv, TypeOK
<1>1. /\ t \in Tags /\ d \in Contents
      /\ ~Refused(h) => Undoes(t, d)
      /\ \A x \in t.mac : Xor(x.c, x.p) = t.before
  BY <1>0, TagUndoes
<1>2. /\ buf' = [buf EXCEPT ![b] = d]
      /\ tags' = tags \cup {t}
      /\ layers' = IF Refused(h) THEN layers
                   ELSE [layers EXCEPT ![b] = Append(@, t)]
      /\ struck' = struck
      /\ out'.op = "seal_detached"
  BY DEF SealDetached
<1> HIDE DEF p, t, d
<1>3. TypeOK'
  BY <1>0, <1>1, <1>2 DEF InPlaceInv, TypeOK
<1>4. Restorable'
  <2> SUFFICES ASSUME NEW e \in Bufs PROVE Chain(Remains(e)', layers'[e], buf'[e])
    BY DEF Restorable, Chain
  <2>r. Remains(e)' = Remains(e)
    BY <1>2 DEF Remains
  <2>0. Chain(Remains(e), layers[e], buf[e])
    BY RestorableIsChain DEF InPlaceInv
  <2>1. CASE e # b
    <3>1. layers'[e] = layers[e] /\ buf'[e] = buf[e]
      BY <1>2, <2>1 DEF InPlaceInv, TypeOK
    <3> QED
      BY <2>0, <2>r, <3>1
  <2>2. CASE e = b /\ Refused(h)
    <3>1. d = buf[b]
      BY <2>2 DEF d, SealedBuf
    <3>2. layers'[e] = layers[e] /\ buf'[e] = buf[e]
      BY <1>2, <2>2, <3>1 DEF InPlaceInv, TypeOK
    <3> QED
      BY <2>0, <2>r, <3>2
  <2>3. CASE e = b /\ ~Refused(h)
    <3>1. t.before = buf[b] /\ Link(Remains(b), t, d)
      BY <1>1, <2>3 DEF t, SealedTag, Link
    <3>2. Chain(Remains(b), Append(layers[b], t), d)
      BY <1>0, <1>1, <2>0, <2>3, <3>1, ChainGrows
    <3>3. layers'[b] = Append(layers[b], t) /\ buf'[b] = d
      BY <1>2, <2>3 DEF InPlaceInv, TypeOK
    <3> QED
      BY <2>3, <2>r, <3>2, <3>3
  <2> QED
    BY <2>1, <2>2, <2>3
<1>5. \A u \in tags' : \A x \in u.mac : Xor(x.c, x.p) = u.before
  BY <1>1, <1>2 DEF InPlaceInv
<1>6. OpensWhatWasSealed'
  BY <1>2 DEF OpensWhatWasSealed
<1>7. ASSUME NEW e \in Bufs PROVE layers'[e] \in Seq(tags')
  <2>1. layers[e] \in Seq(tags) /\ tags \subseteq tags' /\ t \in tags'
    BY <1>2 DEF InPlaceInv
  <2>2. layers[e] \in Seq(tags')
    BY <2>1
  <2>3. layers'[e] = layers[e] \/ layers'[e] = Append(layers[e], t)
    BY <1>2 DEF InPlaceInv, TypeOK
  <2> QED
    BY <2>1, <2>2, <2>3
<1> QED
  BY <1>3, <1>4, <1>5, <1>6, <1>7 DEF InPlaceInv

\* `open_detached` takes the last seal off or starts anew; if it fails, it
\* changes nothing or, for aead, leaves zeros.
LEMMA OpenStep ==
  ASSUME InPlaceInv, NEW b \in Bufs, NEW h \in Handles, NEW n \in Nonces,
         NEW ad \in AdsOf(h), NEW t \in tags, OpenDetached(b, t, h, n, ad)
  PROVE  InPlaceInv'
<1> DEFINE p == Params(h, n, AdBytes(ad))
           c == buf[b]
           ls == layers[b]
           d == OpenedBuf(h, p, t, c)
           ms == OpenedLayers(h, p, t, c, ls)
<1>0. /\ p \in ParamSet /\ c \in Contents /\ ls \in Seq(Tags) /\ t \in Tags
      /\ ls \in Seq(tags)
  BY ParamsType DEF InPlaceInv, TypeOK
<1>1. d \in Contents /\ ms \in Seq(Tags)
  BY <1>0, OpenedType
<1>2. /\ buf' = [buf EXCEPT ![b] = d]
      /\ layers' = [layers EXCEPT ![b] = ms]
      /\ tags' = tags
      /\ struck' = IF h.api = "aead" /\ ~Verifies(h, p, t, c)
                   THEN struck \cup {b} ELSE struck
      /\ out' = [op |-> "open_detached", b |-> b, tag |-> t,
                 ok |-> Verifies(h, p, t, c)]
  BY DEF OpenDetached
<1>3. Verifies(h, p, t, c) => d = t.before
  <2> SUFFICES ASSUME Verifies(h, p, t, c) PROVE d = t.before
    OBVIOUS
  <2>1. Mac(p, c) \in t.mac /\ d = Xor(c, p)
    BY DEF Verifies, OpenedBuf
  <2>2. Xor(Mac(p, c).c, Mac(p, c).p) = t.before
    BY <2>1 DEF InPlaceInv
  <2> QED
    BY <2>1, <2>2 DEF Mac
<1>4. Chain(Remains(b), ls, c)
  BY RestorableIsChain DEF InPlaceInv
<1>5. Chain(Remains(b)', ms, d)
  <2>1. CASE Verifies(h, p, t, c) /\ ls # << >> /\ ls[Len(ls)].mac = t.mac
    <3>1. ms = SubSeq(ls, 1, Len(ls) - 1) /\ struck' = struck
      BY <1>2, <2>1 DEF OpenedLayers
    <3>2. Mac(p, c) \in ls[Len(ls)].mac /\ d = Xor(c, p)
      BY <2>1 DEF Verifies, OpenedBuf
    <3>3. ls[Len(ls)] \in tags
      BY <1>0, <2>1
    <3>4. Xor(Mac(p, c).c, Mac(p, c).p) = ls[Len(ls)].before
      BY <3>2, <3>3 DEF InPlaceInv
    <3>5. d = ls[Len(ls)].before
      BY <3>2, <3>4 DEF Mac
    <3> HIDE DEF d, ms, ls, c
    <3>6. Remains(b)' = Remains(b)
      BY <3>1 DEF Remains
    <3> QED
      BY <1>0, <1>4, <2>1, <3>1, <3>5, <3>6, ChainShrinks
  <2>2. CASE Verifies(h, p, t, c) /\ ~(ls # << >> /\ ls[Len(ls)].mac = t.mac)
    <3>1. ms = << >>
      BY <2>2 DEF OpenedLayers
    <3> QED
      BY <3>1, ChainEmpty
  <2>3. CASE ~Verifies(h, p, t, c) /\ h.api = "aead"
    <3>1. ms = ls /\ d = Plain(Zeros) /\ b \in struck'
      BY <1>2, <2>3 DEF OpenedLayers, OpenedBuf, AfterFailure
    <3> QED
      BY <1>4, <3>1 DEF Chain, Link, Remains
  <2>4. CASE ~Verifies(h, p, t, c) /\ h.api # "aead"
    <3>1. ms = ls /\ d = c /\ Remains(b)' = Remains(b)
      BY <1>2, <2>4 DEF OpenedLayers, OpenedBuf, AfterFailure, Remains
    <3> QED
      BY <1>4, <3>1
  <2> QED
    BY <2>1, <2>2, <2>3, <2>4
<1>6. ms \in Seq(tags)
  <2>1. ls # << >> => SubSeq(ls, 1, Len(ls) - 1) \in Seq(tags)
    BY <1>0, FrontProperties
  <2> QED
    BY <1>0, <2>1 DEF OpenedLayers
<1> HIDE DEF p, c, ls, d, ms
<1>7. TypeOK'
  BY <1>1, <1>2 DEF InPlaceInv, TypeOK
<1>8. Restorable'
  <2> SUFFICES ASSUME NEW e \in Bufs PROVE Chain(Remains(e)', layers'[e], buf'[e])
    BY DEF Restorable, Chain
  <2>1. CASE e = b
    <3>1. layers'[e] = ms /\ buf'[e] = d
      BY <1>2, <2>1 DEF InPlaceInv, TypeOK
    <3> QED
      BY <1>5, <2>1, <3>1
  <2>2. CASE e # b
    <3>1. /\ layers'[e] = layers[e] /\ buf'[e] = buf[e]
          /\ Remains(e)' = Remains(e)
      BY <1>2, <2>2 DEF InPlaceInv, TypeOK, Remains
    <3>2. Chain(Remains(e), layers[e], buf[e])
      BY RestorableIsChain DEF InPlaceInv
    <3> QED
      BY <3>1, <3>2
  <2> QED
    BY <2>1, <2>2
<1>9. OpensWhatWasSealed'
  BY <1>2, <1>3 DEF InPlaceInv, TypeOK, OpensWhatWasSealed
<1>10. \A e \in Bufs : layers'[e] \in Seq(tags')
  BY <1>2, <1>6 DEF InPlaceInv, TypeOK
<1> QED
  BY <1>2, <1>7, <1>8, <1>9, <1>10 DEF InPlaceInv

\* `seal` and `open` do not touch the slices.
LEMMA AttachedStep ==
  ASSUME InPlaceInv, UNCHANGED <<buf, tags, layers, struck>>,
         out'.op \in {"none", "open"}
  PROVE  InPlaceInv'
<1>1. TypeOK' /\ Restorable'
  BY DEF InPlaceInv, TypeOK, Restorable, Remains
<1>2. OpensWhatWasSealed'
  BY DEF OpensWhatWasSealed
<1> QED
  BY <1>1, <1>2 DEF InPlaceInv

\* Slices, tags and seals agree after any sequence of calls.
THEOREM InPlaceInvHolds == Spec => []InPlaceInv
<1>1. ASSUME InPlaceInv, [Next]_vars PROVE InPlaceInv'
  <2>1. CASE UNCHANGED vars
    BY <1>1, <2>1
       DEF vars, InPlaceInv, TypeOK, Restorable, Remains, OpensWhatWasSealed
  <2>2. CASE InPlace
    BY <1>1, <2>2, WriteStep, SealStep, OpenStep DEF InPlace, UsedAds
  <2>3. CASE Attached
    <3>1. UNCHANGED <<buf, tags, layers, struck>> /\ out'.op \in {"none", "open"}
      BY <2>3 DEF Attached, UsedAds, Seal, SealedBoxSeal, Send, Open, SealedBoxOpen,
                  Opened, NoOut
    <3> QED
      BY <1>1, <3>1, AttachedStep
  <2> QED
    BY <1>1, <2>1, <2>2, <2>3 DEF Next
<1> QED
  BY InitInPlace, <1>1, PTL DEF Spec

\* The seals of a slice come off one by one, or aead has failed on it and left
\* zeros; no other failure has changed a byte.
THEOREM SealsComeOff == Spec => []Restorable
<1>1. InPlaceInv => Restorable
  BY DEF InPlaceInv
<1> QED
  BY InPlaceInvHolds, <1>1, PTL

\* `open_detached` gives back exactly what `seal_detached` was given.
THEOREM OpenUndoesSeal == Spec => []OpensWhatWasSealed
<1>1. InPlaceInv => OpensWhatWasSealed
  BY DEF InPlaceInv
<1> QED
  BY InPlaceInvHolds, <1>1, PTL

-----------------------------------------------------------------------------
(* seal and open.                                                          *)

\* What is known of a ciphertext by SealedInv.
Known(c) ==
  /\ c.len \in Nat
  /\ \/ c.mac = {}
     \/ \E s \in made :
          \/ /\ c = Sealed(s.p, s.m, MACBYTES, Null)
             /\ \E n \in Nonces : s.p.nonce = {n}
          \/ \E e \in Ephemerals, pk \in People :
               /\ c = Sealed(s.p, s.m, SEALBYTES, e)
               /\ s.p = BoxSealParams(e, pk, pk)

LEMMA BoxSealParamsType ==
  ASSUME NEW e \in Ephemerals, NEW pk \in People
  PROVE  /\ BoxSealParams(e, pk, pk) \in ParamSet
         /\ BoxSealParams(e, pk, pk).key \cap RefusedPks = {}
<1>1. e \in Secrets /\ pk \in Secrets /\ EmptyAd \in Ads
  BY EncAssumption DEF Secrets
<1>2. e \notin RefusedPks /\ pk \notin RefusedPks
  BY EncAssumption
<1> QED
  BY <1>1, <1>2 DEF BoxSealParams, ParamSet

\* A key that is used is not made from a refused public key.
LEMMA KeyNotRefused ==
  ASSUME NEW h \in Handles
  PROVE  /\ ~Refused(h) => KeyOf(h) \cap RefusedPks = {}
         /\ Refused(h) => KeyOf(h) \cap RefusedPks # {}
<1>1. CASE h.api \in {"secretbox", "aead"}
  <2>1. h.pk \in SymKeys /\ h.sk \in SymKeys
    BY <1>1 DEF Handles
  <2>2. h.pk \notin RefusedPks /\ h.sk \notin RefusedPks
    BY <2>1, EncAssumption
  <2> QED
    BY <1>1, <2>2 DEF KeyOf, Refused
<1>2. CASE h.api \in {"box", "pre"}
  <2>1. h.pk \in People \cup RefusedPks /\ h.sk \in People
    BY <1>2 DEF Handles
  <2>2. h.sk \notin RefusedPks
    BY <2>1, EncAssumption
  <2> QED
    BY <1>2, <2>1, <2>2 DEF KeyOf, Refused, Precompute
<1> QED
  BY <1>1, <1>2 DEF Handles

LEMMA SealedFields ==
  ASSUME NEW p \in ParamSet, NEW m \in Msgs, NEW n \in Nat, NEW e
  PROVE  /\ Sealed(p, m, n, e).len = MLen[m] + n
         /\ Sealed(p, m, n, e).len \in Nat
         /\ Sealed(p, m, n, e).mac = {Mac(p, Sealed(p, m, n, e).body)}
         /\ Sealed(p, m, n, e).eph = e
         /\ Xor(Sealed(p, m, n, e).body, p) = Plain(m)
<1>1. /\ Sealed(p, m, n, e).len = MLen[m] + n
      /\ Sealed(p, m, n, e).mac = {Mac(p, Sealed(p, m, n, e).body)}
      /\ Sealed(p, m, n, e).eph = e
      /\ Sealed(p, m, n, e).body = Xor(Plain(m), p)
  BY DEF Sealed
<1>2. MLen[m] \in Nat
  BY EncAssumption
<1>3. Xor(Xor(Plain(m), p), p) = Plain(m)
  BY PlainType, XorTwice
<1> QED
  BY <1>1, <1>2, <1>3

LEMMA MacEqual == \A p, q, c, d : Mac(p, c) = Mac(q, d) <=> p = q /\ c = d
  BY DEF Mac

\* What `open` returns for a ciphertext that was sealed with an overhead of n
\* bytes under q.
LEMMA OpenedFacts ==
  ASSUME NEW q \in ParamSet, NEW m \in Msgs, [p |-> q, m |-> m] \in made, SealedInv,
         NEW n \in Nat, NEW e, NEW c, c = Sealed(q, m, n, e),
         NEW p, NEW over \in Nat, NEW refused \in BOOLEAN,
         p = q => over = n /\ ~refused,
         made' = made, out' = Opened(c, p, over, refused)
  PROVE  OpenIsExact' /\ VecFits'
<1>1. /\ c.len = MLen[m] + n /\ c.len \in Nat /\ MLen[m] \in Nat
      /\ c.mac = {Mac(q, c.body)} /\ c.eph = e
  BY SealedFields, EncAssumption
<1>2. /\ out'.op = "open" /\ out'.c = c /\ out'.p = p /\ out'.over = over
      /\ out'.cap = IF LongEnough(c, over) THEN c.len - over ELSE 0
      /\ out'.ok = (LongEnough(c, over) /\ ~refused /\ Mac(p, c.body) \in c.mac)
      /\ out'.m = Xor(c.body, p)
  BY DEF Opened
<1>3. Mac(p, c.body) \in c.mac <=> p = q
  BY <1>1, MacEqual
<1>4. p = q => LongEnough(c, over) /\ c.len - over = MLen[m]
  BY <1>1 DEF LongEnough
<1>5. out'.ok <=> p = q
  BY <1>2, <1>3, <1>4
<1>6. p = q => out'.m = Plain(m) /\ out'.m.m = m /\ out'.m.pads = {}
  BY <1>2, SealedFields DEF Plain
<1>7. out'.cap >= 0 /\ (p = q => out'.cap = MLen[m])
  BY <1>1, <1>2, <1>4 DEF LongEnough
<1>8. VecFits'
  BY <1>5, <1>6, <1>7 DEF VecFits
<1>9. ASSUME p = q
      PROVE  \E s \in made : s.p = p /\ c = Sealed(s.p, s.m, over, c.eph)
  <2>1. [p |-> q, m |-> m].p = q /\ [p |-> q, m |-> m].m = m
    OBVIOUS
  <2> QED
    BY <1>1, <1>9, <2>1
<1>10. ASSUME NEW s \in made, s.p = p, c = Sealed(s.p, s.m, over, c.eph)
       PROVE  p = q
  <2>1. s.p \in ParamSet /\ s.m \in Msgs
    BY DEF SealedInv
  <2>2. PICK e2, q2, m2 : e2 = c.eph /\ q2 = s.p /\ m2 = s.m /\ c = Sealed(q2, m2, over, e2)
    BY <1>10
  <2>3. c.mac = {Mac(q2, c.body)}
    BY <2>1, <2>2, SealedFields
  <2>4. Mac(q2, c.body) = Mac(q, c.body)
    BY <1>1, <2>3
  <2> QED
    BY <1>10, <2>2, <2>4, MacEqual
<1>11. out'.ok <=> \E s \in made : s.p = out'.p /\ out'.c = Sealed(s.p, s.m, out'.over, out'.c.eph)
  BY <1>2, <1>5, <1>9, <1>10
<1>12. out'.ok => [p |-> out'.p, m |-> out'.m.m] \in made /\ out'.m.pads = {}
  BY <1>2, <1>5, <1>6
<1>13. OpenIsExact'
  BY <1>11, <1>12 DEF OpenIsExact
<1> QED
  BY <1>8, <1>13

\* Noise is not opened.
LEMMA NoiseFacts ==
  ASSUME SealedInv, NEW c, c.mac = {}, c.len \in Nat, NEW p, NEW over \in Nat, NEW refused,
         made' = made, out' = Opened(c, p, over, refused)
  PROVE  OpenIsExact' /\ VecFits'
<1>1. /\ out'.op = "open" /\ out'.c = c /\ out'.over = over /\ ~out'.ok
      /\ out'.cap = IF LongEnough(c, over) THEN c.len - over ELSE 0
  BY DEF Opened
<1>2. out'.cap >= 0
  BY <1>1 DEF LongEnough
<1>3. ASSUME NEW s \in made PROVE c # Sealed(s.p, s.m, over, c.eph)
  BY DEF Sealed
<1> QED
  BY <1>1, <1>2, <1>3 DEF OpenIsExact, VecFits

LEMMA KnownWire == SealedInv => \A c \in wire : Known(c)
  BY DEF SealedInv, Known

LEMMA OpenPreserves ==
  ASSUME SealedInv, NEW c \in wire, NEW h \in Handles, NEW n \in Nonces, NEW ad \in AdsOf(h),
         Open(c, h, n, ad)
  PROVE  OpenIsExact' /\ VecFits'
<1>1. PICK p : p = Params(h, n, AdBytes(ad))
  OBVIOUS
<1>2. p \in ParamSet /\ p.nonce = {n} /\ p.key = KeyOf(h)
  BY <1>1, ParamsType DEF Params
<1>3. made' = made /\ out' = Opened(c, p, MACBYTES, Refused(h)) /\ Refused(h) \in BOOLEAN
  BY <1>1 DEF Open, Refused
<1>4. MACBYTES \in Nat /\ SEALBYTES \in Nat
  BY EncAssumption
<1>5. CASE c.mac = {}
  BY <1>3, <1>4, <1>5, NoiseFacts DEF SealedInv
<1>6. ASSUME NEW s \in made, c = Sealed(s.p, s.m, MACBYTES, Null)
      PROVE  OpenIsExact' /\ VecFits'
  <2>1. PICK q \in ParamSet, m \in Msgs :
          q = s.p /\ m = s.m /\ s = [p |-> q, m |-> m] /\ q.key \cap RefusedPks = {}
    BY DEF SealedInv
  <2>2. p = q => ~Refused(h)
    BY <1>2, <2>1, KeyNotRefused
  <2>3. c = Sealed(q, m, MACBYTES, Null) /\ [p |-> q, m |-> m] \in made
    BY <1>6, <2>1
  <2> QED
    BY <1>2, <1>3, <1>4, <2>2, <2>3, OpenedFacts
<1>7. ASSUME NEW s \in made, NEW e \in Ephemerals, NEW pk \in People,
             c = Sealed(s.p, s.m, SEALBYTES, e), s.p = BoxSealParams(e, pk, pk)
      PROVE  OpenIsExact' /\ VecFits'
  <2>1. PICK q \in ParamSet, m \in Msgs : q = s.p /\ m = s.m /\ s = [p |-> q, m |-> m]
    BY DEF SealedInv
  <2>2. q.nonce = {e, pk} /\ e # pk
    BY <1>7, <2>1, EncAssumption DEF BoxSealParams
  <2>3. p # q
    BY <1>2, <2>2
  <2>4. c = Sealed(q, m, SEALBYTES, e) /\ [p |-> q, m |-> m] \in made
    BY <1>7, <2>1
  <2> QED
    BY <1>2, <1>3, <1>4, <2>3, <2>4, OpenedFacts
<1> QED
  BY <1>5, <1>6, <1>7, KnownWire DEF Known

LEMMA SealedBoxOpenPreserves ==
  ASSUME SealedInv, NEW c \in wire, NEW pk \in People, NEW sk \in People,
         SealedBoxOpen(c, pk, sk)
  PROVE  OpenIsExact' /\ VecFits'
<1>1. PICK p : p = BoxSealParams(c.eph, pk, sk)
  OBVIOUS
<1>2. p.nonce = {c.eph, pk}
  BY <1>1 DEF BoxSealParams
<1>3. made' = made /\ out' = Opened(c, p, SEALBYTES, FALSE)
  BY <1>1 DEF SealedBoxOpen
<1>4. MACBYTES \in Nat /\ SEALBYTES \in Nat
  BY EncAssumption
<1>5. CASE c.mac = {}
  BY <1>3, <1>4, <1>5, NoiseFacts DEF SealedInv
<1>6. ASSUME NEW s \in made, c = Sealed(s.p, s.m, MACBYTES, Null),
             NEW n \in Nonces, s.p.nonce = {n}
      PROVE  OpenIsExact' /\ VecFits'
  <2>1. PICK q \in ParamSet, m \in Msgs : q = s.p /\ m = s.m /\ s = [p |-> q, m |-> m]
    BY DEF SealedInv
  <2>2. c.eph = Null
    BY <1>6 DEF Sealed
  <2>3. Null # pk
    BY EncAssumption
  <2>4. p # q
    BY <1>2, <1>6, <2>1, <2>2, <2>3
  <2>5. c = Sealed(q, m, MACBYTES, Null) /\ [p |-> q, m |-> m] \in made
    BY <1>6, <2>1
  <2> QED
    BY <1>3, <1>4, <2>4, <2>5, OpenedFacts, FALSE \in BOOLEAN
<1>7. ASSUME NEW s \in made, NEW e \in Ephemerals, NEW to \in People,
             c = Sealed(s.p, s.m, SEALBYTES, e), s.p = BoxSealParams(e, to, to)
      PROVE  OpenIsExact' /\ VecFits'
  <2>1. PICK q \in ParamSet, m \in Msgs : q = s.p /\ m = s.m /\ s = [p |-> q, m |-> m]
    BY DEF SealedInv
  <2>2. c = Sealed(q, m, SEALBYTES, e) /\ [p |-> q, m |-> m] \in made
    BY <1>7, <2>1
  <2>3. PICK n \in Nat, refused \in BOOLEAN : n = SEALBYTES /\ refused = FALSE
    BY <1>4
  <2>4. /\ c = Sealed(q, m, n, e) /\ out' = Opened(c, p, n, refused) /\ made' = made
        /\ p = q => n = n /\ ~refused
    BY <1>3, <2>2, <2>3
  <2> QED
    BY <2>2, <2>4, OpenedFacts
<1> QED
  BY <1>5, <1>6, <1>7, KnownWire DEF Known

\* A ciphertext is added, and what it was made of.
LEMMA SendPreserves ==
  ASSUME SealedInv, NEW c, NEW p \in ParamSet, NEW m \in Msgs, p.key \cap RefusedPks = {} \/ c.mac = {},
         Send(c, p, m), Known(c)' 
  PROVE  SealedInv'
<1>1. /\ wire' = wire \cup {c} /\ out' = NoOut
      /\ made' = IF c.mac = {} THEN made ELSE made \cup {[p |-> p, m |-> m]}
  BY DEF Send
<1>2. \A s \in made' : s \in [p : ParamSet, m : Msgs] /\ s.p.key \cap RefusedPks = {}
  BY <1>1 DEF SealedInv
<1>3. made \subseteq made'
  BY <1>1
<1>4. \A d \in wire' : Known(d)'
  <2>1. \A d \in wire : Known(d)'
    BY <1>3, KnownWire DEF Known
  <2> QED
    BY <2>1, <1>1
<1>5. OpenIsExact' /\ VecFits'
  BY <1>1 DEF NoOut, OpenIsExact, VecFits
<1> QED
  BY <1>2, <1>4, <1>5 DEF SealedInv, Known

LEMMA SealPreserves ==
  ASSUME SealedInv, NEW m \in Msgs, NEW h \in Handles, NEW n \in Nonces, NEW ad \in AdsOf(h),
         Seal(m, h, n, ad)
  PROVE  SealedInv'
<1>1. PICK p : p = Params(h, n, AdBytes(ad))
  OBVIOUS
<1>2. p \in ParamSet /\ p.nonce = {n} /\ p.key = KeyOf(h)
  BY <1>1, ParamsType DEF Params
<1>3. MACBYTES \in Nat /\ MLen[m] \in Nat
  BY EncAssumption
<1>4. CASE Refused(h)
  <2>1. PICK c : c = Noise(MLen[m] + MACBYTES)
    OBVIOUS
  <2>2. Send(c, p, m) /\ c.mac = {} /\ c.len \in Nat
    BY <1>1, <1>3, <1>4, <2>1 DEF Seal, Noise
  <2>3. Known(c)'
    BY <2>2 DEF Known
  <2> QED
    BY <1>2, <2>2, <2>3, SendPreserves
<1>5. CASE ~Refused(h)
  <2>1. PICK c : c = Sealed(p, m, MACBYTES, Null)
    OBVIOUS
  <2>2. Send(c, p, m)
    BY <1>1, <1>5, <2>1 DEF Seal
  <2>3. p.key \cap RefusedPks = {}
    BY <1>2, <1>5, KeyNotRefused
  <2>4. c.mac # {} /\ c.len \in Nat
    BY <1>3, <2>1 DEF Sealed
  <2>5. [p |-> p, m |-> m] \in made'
    BY <2>2, <2>4 DEF Send
  <2>6. Known(c)'
    BY <1>2, <2>1, <2>4, <2>5 DEF Known
  <2> QED
    BY <1>2, <2>2, <2>3, <2>6, SendPreserves
<1> QED
  BY <1>4, <1>5

LEMMA SealedBoxSealPreserves ==
  ASSUME SealedInv, NEW m \in Msgs, NEW pk \in People \cup RefusedPks, NEW e \in Ephemerals,
         SealedBoxSeal(m, pk, e)
  PROVE  SealedInv'
<1>1. PICK p : p = BoxSealParams(e, pk, pk)
  OBVIOUS
<1>2. SEALBYTES \in Nat /\ MLen[m] \in Nat
  BY EncAssumption
<1>3. CASE pk \in RefusedPks
  <2>0. p \in ParamSet
    <3>1. e \in Secrets /\ pk \in Secrets /\ EmptyAd \in Ads
      BY EncAssumption DEF Secrets
    <3> QED
      BY <3>1, <1>1 DEF BoxSealParams, ParamSet
  <2>1. PICK c : c = Noise(MLen[m] + SEALBYTES)
    OBVIOUS
  <2>2. Send(c, p, m) /\ c.mac = {} /\ c.len \in Nat
    BY <1>1, <1>2, <1>3, <2>1 DEF SealedBoxSeal, Noise
  <2>3. Known(c)'
    BY <2>2 DEF Known
  <2> QED
    BY <2>0, <2>2, <2>3, SendPreserves
<1>4. CASE pk \notin RefusedPks
  <2>0. pk \in People /\ p \in ParamSet /\ p.key \cap RefusedPks = {}
    BY <1>1, <1>4, BoxSealParamsType
  <2>1. PICK c : c = Sealed(p, m, SEALBYTES, e)
    OBVIOUS
  <2>2. Send(c, p, m)
    BY <1>1, <1>4, <2>1 DEF SealedBoxSeal
  <2>4. c.mac # {} /\ c.len \in Nat
    BY <1>2, <2>1 DEF Sealed
  <2>5. [p |-> p, m |-> m] \in made'
    BY <2>2, <2>4 DEF Send
  <2>6. Known(c)'
    BY <1>1, <2>0, <2>1, <2>4, <2>5 DEF Known
  <2> QED
    BY <2>0, <2>2, <2>6, SendPreserves
<1> QED
  BY <1>3, <1>4

\* Whatever is delivered to `open` is noise, or was sealed.
THEOREM SealedInvHolds == Spec => []SealedInv
<1>1. Init => SealedInv
  <2> SUFFICES ASSUME Init PROVE SealedInv
    OBVIOUS
  <2>1. made = {} /\ out = NoOut /\ \A c \in wire : c.mac = {} /\ c.len \in Nat
    BY EncAssumption DEF Init, Noise
  <2> QED
    BY <2>1 DEF SealedInv, OpenIsExact, VecFits, NoOut
<1>2. ASSUME SealedInv, [Next]_vars PROVE SealedInv'
  <2>0. ASSUME UNCHANGED <<wire, made>>, OpenIsExact' /\ VecFits' PROVE SealedInv'
    BY <1>2, <2>0 DEF SealedInv
  <2>1. CASE UNCHANGED vars
    <3>1. OpenIsExact' /\ VecFits'
      BY <1>2, <2>1 DEF SealedInv, vars, OpenIsExact, VecFits
    <3> QED
      BY <2>0, <2>1, <3>1 DEF vars
  <2>2. CASE InPlace
    <3>1. UNCHANGED <<wire, made>> /\ out'.op # "open"
      BY <2>2 DEF InPlace, Write, SealDetached, OpenDetached, NoOut
    <3> QED
      BY <2>0, <3>1 DEF OpenIsExact, VecFits
  <2>3. ASSUME NEW m \in Msgs, NEW h \in Handles, NEW n \in Nonces, NEW ad \in AdsOf(h),
               Seal(m, h, n, ad)
        PROVE  SealedInv'
    BY <1>2, <2>3, SealPreserves
  <2>4. ASSUME NEW c \in wire, NEW h \in Handles, NEW n \in Nonces, NEW ad \in AdsOf(h),
               Open(c, h, n, ad)
        PROVE  SealedInv'
    <3>1. UNCHANGED <<wire, made>>
      BY <2>4 DEF Open
    <3> QED
      BY <1>2, <2>0, <2>4, <3>1, OpenPreserves
  <2>5. ASSUME NEW m \in Msgs, NEW pk \in People \cup RefusedPks, NEW e \in Ephemerals,
               SealedBoxSeal(m, pk, e)
        PROVE  SealedInv'
    BY <1>2, <2>5, SealedBoxSealPreserves
  <2>6. ASSUME NEW c \in wire, NEW pk \in People, NEW sk \in People, SealedBoxOpen(c, pk, sk)
        PROVE  SealedInv'
    <3>1. UNCHANGED <<wire, made>>
      BY <2>6 DEF SealedBoxOpen
    <3> QED
      BY <1>2, <2>0, <2>6, <3>1, SealedBoxOpenPreserves
  <2> QED
    BY <1>2, <2>1, <2>2, <2>3, <2>4, <2>5, <2>6 DEF Next, Attached, UsedAds
<1> QED
  BY <1>1, <1>2, PTL DEF Spec

\* `open` is the inverse of `seal`, and of nothing else.
THEOREM OpenExactly == Spec => []OpenIsExact
<1>1. SealedInv => OpenIsExact
  BY DEF SealedInv
<1> QED
  BY <1>1, SealedInvHolds, PTL

\* The Vec of `open` has exactly the size of the message.
THEOREM VecSize == Spec => []VecFits
<1>1. SealedInv => VecFits
  BY DEF SealedInv
<1> QED
  BY <1>1, SealedInvHolds, PTL
=============================================================================
