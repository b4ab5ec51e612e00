--------------------------- MODULE MultiPartProofs ---------------------------
(***************************************************************************)
(* Proofs about MultiPart, for all programs over any set of variables,     *)
(* chunks, keys and limits.                                                *)
(***************************************************************************)
EXTENDS MultiPart, SequenceTheorems, TLAPS

\* A State put into a variable by an operation keeps the typing and agreement
\* of all variables.
LEMMA PutSlot ==
  ASSUME PartsInv, NEW s \in Slots, NEW v \in SlotTypes, Agree(v),
         slot' = [slot EXCEPT ![s] = v]
  PROVE  TypeOK' /\ \A t \in Slots : Agree(slot[t])'
<1>1. slot \in [Slots -> SlotTypes] /\ \A t \in Slots : Agree(slot[t])
  BY DEF PartsInv, TypeOK
<1>2. slot' \in [Slots -> SlotTypes]
  BY <1>1
<1>3. \A t \in Slots : slot'[t] = IF t = s THEN v ELSE slot[t]
  BY <1>1
<1>. QED BY <1>1, <1>2, <1>3 DEF TypeOK, Agree

\* New States agree with the history that starts with them.
LEMMA NewAgrees ==
  ASSUME NEW kind \in AllKinds, NEW n \in Nat, NEW k \in Keys \cup {Null},
         IF kind = "generichash" THEN n \in DIGEST_MIN..DIGEST_MAX ELSE n = 0
  PROVE  /\ NewSlot(kind, n, FfiInit(k), k) \in SlotTypes
         /\ Agree(NewSlot(kind, n, FfiInit(k), k))
BY DEF NewSlot, SlotTypes, FfiInit, FfiStates, Agree

\* The fields of a typed variable.
LEMMA SlotFields ==
  ASSUME PartsInv, NEW s \in Slots
  PROVE  /\ slot[s] \in SlotTypes /\ Agree(slot[s])
         /\ slot[s].st \in FfiStates /\ slot[s].st.data \in Seq(Bytes)
         /\ slot[s].fed \in Seq(Bytes)
<1>1. slot[s] \in SlotTypes /\ Agree(slot[s])
  BY DEF PartsInv, TypeOK
<1>2. slot[s].st \in FfiStates /\ slot[s].fed \in Seq(Bytes)
  BY <1>1 DEF SlotTypes
<1>. QED BY <1>1, <1>2 DEF FfiStates

\* A State that has been dropped is typed, and nobody holds it.
LEMMA DroppedAgrees ==
  ASSUME NEW v \in SlotTypes
  PROVE  Dropped(v) \in SlotTypes /\ Agree(Dropped(v))
<1>1. Wiped \in FfiStates
  BY DEF Wiped, FfiStates
<1>2. CASE v.kind = "auth"
  <2>1. Dropped(v) = [v EXCEPT !.status = "gone", !.st = Wiped]
    BY <1>2 DEF Dropped
  <2>. QED BY <1>1, <2>1 DEF SlotTypes, Agree
<1>3. CASE v.kind # "auth"
  <2>1. Dropped(v) = [v EXCEPT !.status = "gone", !.st = v.st]
    BY <1>3 DEF Dropped
  <2>. QED BY <2>1 DEF SlotTypes, Agree
<1>. QED BY <1>2, <1>3

\* `finalize` leaves a Copy type as it was and takes any other away.
LEMMA AfterFinalizeAgrees ==
  ASSUME NEW v \in SlotTypes, Agree(v)
  PROVE  AfterFinalize(v) \in SlotTypes /\ Agree(AfterFinalize(v))
<1>1. CASE v.kind \in CopyKinds
  <2>1. AfterFinalize(v) = v
    BY <1>1 DEF AfterFinalize
  <2>. QED BY <2>1 DEF SlotTypes, Agree
<1>2. CASE v.kind \notin CopyKinds
  <2>1. PICK w : w = [v EXCEPT !.st = Ruin(v.st)]
    OBVIOUS
  <2>2. Ruin(v.st) \in FfiStates
    BY DEF SlotTypes, FfiStates, Ruin
  <2>3. w \in SlotTypes
    BY <2>1, <2>2 DEF SlotTypes
  <2>4. AfterFinalize(v) = Dropped(w)
    BY <1>2, <2>1 DEF AfterFinalize
  <2>. QED BY <2>3, <2>4, DroppedAgrees
<1>. QED BY <1>1, <1>2

\* A result other than those of `finalize` and `verify` is no result.
LEMMA NoResult ==
  out' = NoOut => /\ (PartsMakeTheWhole /\ VerifyIsExact)'
                  /\ out'.op # "finalize"
BY DEF NoOut, PartsMakeTheWhole, VerifyIsExact

LEMMA PartsInit == Init => PartsInv
<1>. SUFFICES ASSUME Init PROVE PartsInv
  OBVIOUS
<1>1. NoSlot \in SlotTypes /\ Agree(NoSlot)
  BY DEF NoSlot, SlotTypes, Wiped, FfiStates, AllKinds, Agree
<1>2. slot \in [Slots -> SlotTypes] /\ \A s \in Slots : slot[s] = NoSlot
  BY <1>1 DEF Init
<1>3. PartsMakeTheWhole /\ VerifyIsExact /\ out.op # "finalize"
  BY DEF Init, NoOut, PartsMakeTheWhole, VerifyIsExact
<1>. QED BY <1>1, <1>2, <1>3 DEF PartsInv, TypeOK

LEMMA PartsStep == PartsInv /\ [Next]_vars => PartsInv'
<1>. SUFFICES ASSUME PartsInv, [Next]_vars PROVE PartsInv'
  OBVIOUS
<1>u. CASE UNCHANGED vars
  BY <1>u DEF PartsInv, TypeOK, Agree, PartsMakeTheWhole, VerifyIsExact, vars
\* An operation that puts a State into a variable and returns nothing.
<1>p. ASSUME NEW s \in Slots, NEW v \in SlotTypes, Agree(v),
             slot' = [slot EXCEPT ![s] = v], out' = NoOut
      PROVE  PartsInv'
  BY <1>p, PutSlot, NoResult DEF PartsInv
\* An operation that leaves the program's variables alone.
<1>k. ASSUME UNCHANGED slot,
             ~ReuseAfterVerify => (PartsMakeTheWhole /\ VerifyIsExact)',
             out'.op = "finalize" /\ out'.kind # "generichash" => out'.len = 0
      PROVE  PartsInv'
  BY <1>k DEF PartsInv, TypeOK, Agree
<1>m. ASSUME NEW kind \in TagKinds, NEW k \in Keys, NEW m, Make(kind, k, m) PROVE PartsInv'
  <2>1. /\ out'.op = "finalize" /\ out'.len = 0
        /\ out'.res = OneShot(out'.kind, out'.key, out'.len, out'.fed)
    BY <1>m DEF Make
  <2>2. UNCHANGED slot
    BY <1>m DEF Make
  <2>. QED BY <1>k, <2>1, <2>2 DEF PartsMakeTheWhole, VerifyIsExact
<1>c. ASSUME NEW kind \in TagKinds, NEW k \in Keys, NEW m, Check(kind, k, m) PROVE PartsInv'
  <2>1. /\ UNCHANGED slot /\ out.op = "finalize" /\ Fits(out.kind, kind)
        /\ out'.op = "verify" /\ out'.res = CheckTag(kind, k, m, out.res)
        /\ out'.due = (out.kind = kind /\ out.key = k /\ out.fed = m)
    BY <1>c DEF Check
  <2>2. out.kind # "generichash" /\ out.len = 0
    BY <2>1 DEF Fits, TagKinds, PartsInv
  <2>3. ASSUME ~ReuseAfterVerify PROVE VerifyIsExact'
    <3>1. out.res = Value(out.kind, out.key, 0, out.fed)
      BY <2>1, <2>2, <2>3 DEF PartsInv, PartsMakeTheWhole, OneShot
    <3>2. (Value(out.kind, out.key, 0, out.fed) = Value(kind, k, 0, m))
            <=> (out.kind = kind /\ out.key = k /\ out.fed = m)
      BY DEF Value
    <3>. QED BY <2>1, <3>1, <3>2 DEF VerifyIsExact, CheckTag
  <2>. QED BY <1>k, <2>1, <2>3 DEF PartsMakeTheWhole
<1>o. ASSUME NEW k \in Keys, NEW m, NEW p \in Keys, SignAndOpen(k, m, p) PROVE PartsInv'
  <2>1. UNCHANGED slot /\ out'.op = "open"
    BY <1>o DEF SignAndOpen
  <2>. QED BY <1>k, <2>1 DEF PartsMakeTheWhole, VerifyIsExact
<1>n. CASE \E s \in Slots :
          \/ \E kind \in Kinds : New(s, kind)
          \/ \E k \in Keys : InitAuth(s, k)
          \/ \E n \in OutLens \cup {Null}, k \in Keys \cup {Null} : NewGeneric(s, n, k)
          \/ \E c \in Chunks : Update(s, c)
          \/ \E d \in Slots : Copy(s, d)
          \/ \E k \in Keys \cup {Null} : Finalize(s, k)
          \/ \E sig \in Signatures, p \in Keys : Verify(s, sig, p)
          \/ Drop(s)
  <2>0. PICK s \in Slots :
          \/ \E kind \in Kinds : New(s, kind)
          \/ \E k \in Keys : InitAuth(s, k)
          \/ \E n \in OutLens \cup {Null}, k \in Keys \cup {Null} : NewGeneric(s, n, k)
          \/ \E c \in Chunks : Update(s, c)
          \/ \E d \in Slots : Copy(s, d)
          \/ \E k \in Keys \cup {Null} : Finalize(s, k)
          \/ \E sig \in Signatures, p \in Keys : Verify(s, sig, p)
          \/ Drop(s)
    BY <1>n
  <2> DEFINE v == slot[s]
  <2>v. /\ v \in SlotTypes /\ Agree(v) /\ v.st \in FfiStates
        /\ v.st.data \in Seq(Bytes) /\ v.fed \in Seq(Bytes)
    BY SlotFields
  <2>1. ASSUME NEW kind \in Kinds, New(s, kind) PROVE PartsInv'
    <3>1. NewSlot(kind, 0, FfiInit(Null), Null) \in SlotTypes /\ Agree(NewSlot(kind, 0, FfiInit(Null), Null))
      BY <2>1, NewAgrees, PartsAssumption DEF New
    <3>. QED BY <1>p, <2>1, <3>1 DEF New
  <2>2. ASSUME NEW k \in Keys, InitAuth(s, k) PROVE PartsInv'
    <3>1. NewSlot("auth", 0, FfiInit(k), k) \in SlotTypes /\ Agree(NewSlot("auth", 0, FfiInit(k), k))
      BY NewAgrees DEF AllKinds
    <3>. QED BY <1>p, <2>2, <3>1 DEF InitAuth
  <2>3. ASSUME NEW n \in OutLens \cup {Null}, NEW k \in Keys \cup {Null},
               NewGeneric(s, n, k)
        PROVE  PartsInv'
    <3>1. CASE UNCHANGED slot
      <4>1. out' = NoOut
        BY <2>3 DEF NewGeneric
      <4>. QED BY <3>1, <4>1, NoResult DEF PartsInv, TypeOK, Agree
    <3>2. CASE /\ UnwrapOutLen(n) # 0 /\ KeyOk(k)
               /\ slot' = [slot EXCEPT ![s] =
                            NewSlot("generichash", UnwrapOutLen(n), FfiInit(FfiGenericKey(k)), k)]
      <4>1. FfiGenericKey(k) = k
        BY <3>2, PartsAssumption DEF FfiGenericKey, KeyOk
      <4>2. PICK w : w = NewSlot("generichash", UnwrapOutLen(n), FfiInit(k), k)
        OBVIOUS
      <4>3. UnwrapOutLen(n) \in DIGEST_MIN..DIGEST_MAX
        BY <3>2, PartsAssumption DEF UnwrapOutLen
      <4>4. UnwrapOutLen(n) \in Nat /\ "generichash" \in AllKinds
        BY <4>3, PartsAssumption DEF AllKinds
      <4>5. w \in SlotTypes /\ Agree(w)
        BY <4>2, <4>3, <4>4, NewAgrees
      <4>. QED BY <1>p, <2>3, <3>2, <4>1, <4>2, <4>5 DEF NewGeneric
    <3>. QED BY <2>3, <3>1, <3>2 DEF NewGeneric
  <2>4. ASSUME NEW c \in Chunks, Update(s, c) PROVE PartsInv'
    <3>1. c \in Seq(Bytes)
      BY PartsAssumption
    <3>2. PICK st : st = FfiUpdate(v.st, c)
      OBVIOUS
    <3>3. PICK fed : fed = v.fed \o c
      OBVIOUS
    <3>4. fed \in Seq(Bytes) /\ v.st.data \o c \in Seq(Bytes)
      BY <2>v, <3>1, <3>3
    <3>5. /\ st \in FfiStates /\ st.data = v.st.data \o c
          /\ st.key = v.st.key /\ st.ruined = v.st.ruined
      BY <2>v, <3>2, <3>4 DEF FfiUpdate, FfiStates
    <3>6. PICK w : w = [v EXCEPT !.st = st, !.fed = fed]
      OBVIOUS
    <3>7. /\ w \in SlotTypes
          /\ w.st = st /\ w.fed = fed /\ w.status = v.status
          /\ w.key = v.key /\ w.verified = v.verified
          /\ w.kind = v.kind /\ w.len = v.len
      BY <2>v, <3>4, <3>5, <3>6 DEF SlotTypes
    <3>8. Agree(w)
      BY <2>v, <3>3, <3>5, <3>7 DEF Agree
    <3>9. slot' = [slot EXCEPT ![s] = w] /\ out' = NoOut
      BY <2>4, <3>2, <3>3, <3>6 DEF Update
    <3>. QED BY <1>p, <3>7, <3>8, <3>9
  <2>5. ASSUME NEW d \in Slots, Copy(s, d) PROVE PartsInv'
    <3>1. PICK w : w = slot[s]
      OBVIOUS
    <3>2. w \in SlotTypes /\ Agree(w)
      BY <2>v, <3>1
    <3>. QED BY <1>p, <2>5, <3>1, <3>2 DEF Copy
  <2>6. ASSUME NEW k \in Keys \cup {Null}, Finalize(s, k) PROVE PartsInv'
    <3>1. PICK w : w = AfterFinalize(v)
      OBVIOUS
    <3>2. w \in SlotTypes /\ Agree(w)
      BY <2>v, <3>1, AfterFinalizeAgrees
    <3>3. slot' = [slot EXCEPT ![s] = w]
      BY <2>6, <3>1 DEF Finalize
    <3>4. TypeOK' /\ \A t \in Slots : Agree(slot[t])'
      BY <3>2, <3>3, PutSlot
    <3>5. out'.op = "finalize"
      BY <2>6 DEF Finalize
    <3>6. ASSUME ~ReuseAfterVerify PROVE PartsMakeTheWhole'
      <4>1. v.status = "live" /\ ~v.verified
        BY <2>6, <3>6 DEF Finalize, Usable
      <4>2. v.st.data = v.fed /\ v.st.key = v.key /\ ~v.st.ruined
        BY <2>v, <4>1 DEF Agree
      <4>3. out'.res = Value(out'.kind, out'.key, out'.len, out'.fed)
        BY <2>6, <4>2 DEF Finalize, FfiFinal
      <4>. QED BY <4>3 DEF PartsMakeTheWhole, OneShot
    <3>7. VerifyIsExact'
      BY <3>5 DEF VerifyIsExact
    <3>8. out'.kind # "generichash" => out'.len = 0
      BY <2>6, <2>v DEF Finalize, Agree, Usable
    <3>. QED BY <3>4, <3>6, <3>7, <3>8 DEF PartsInv
  <2>7. ASSUME NEW sig \in Signatures, NEW p \in Keys, Verify(s, sig, p)
        PROVE  PartsInv'
    <3>1. PICK st : st = Ruin(v.st)
      OBVIOUS
    <3>2. /\ st \in FfiStates /\ st.data = v.st.data /\ st.key = v.st.key
      BY <2>v, <3>1 DEF Ruin, FfiStates
    <3>3. PICK w : w = [v EXCEPT !.st = st, !.verified = TRUE]
      OBVIOUS
    <3>4. /\ w \in SlotTypes /\ w.verified = TRUE
          /\ w.st = st /\ w.fed = v.fed /\ w.status = v.status /\ w.key = v.key
          /\ w.kind = v.kind /\ w.len = v.len
      BY <2>v, <3>2, <3>3 DEF SlotTypes
    <3>5. Agree(w)
      BY <2>v, <3>2, <3>4 DEF Agree
    <3>6. slot' = [slot EXCEPT ![s] = w]
      BY <2>7, <3>1, <3>3 DEF Verify
    <3>7. TypeOK' /\ \A t \in Slots : Agree(slot[t])'
      BY <3>4, <3>5, <3>6, PutSlot
    <3>8. out'.op = "verify"
      BY <2>7 DEF Verify
    <3>9. ASSUME ~ReuseAfterVerify PROVE VerifyIsExact'
      <4>1. v.status = "live" /\ ~v.verified
        BY <2>7, <3>9 DEF Verify, Usable
      <4>2. v.st.data = v.fed /\ ~v.st.ruined
        BY <2>v, <4>1 DEF Agree
      <4>3. /\ out'.due = (sig = OneShot("sign", p, 0, v.fed))
            /\ out'.res = (FfiFinal("sign", v.st, p, 0) = sig)
        BY <2>7 DEF Verify
      <4>4. FfiFinal("sign", v.st, p, 0) = OneShot("sign", p, 0, v.fed)
        BY <4>2 DEF FfiFinal, OneShot
      <4>. QED BY <4>3, <4>4 DEF VerifyIsExact, OneShot, Value
    <3>10. PartsMakeTheWhole'
      BY <3>8 DEF PartsMakeTheWhole
    <3>. QED BY <3>7, <3>8, <3>9, <3>10 DEF PartsInv
  <2>8. ASSUME Drop(s) PROVE PartsInv'
    <3>1. PICK w : w = Dropped(v)
      OBVIOUS
    <3>2. w \in SlotTypes /\ Agree(w)
      BY <2>v, <3>1, DroppedAgrees
    <3>. QED BY <1>p, <2>8, <3>1, <3>2 DEF Drop
  <2>. QED BY <2>0, <2>1, <2>2, <2>3, <2>4, <2>5, <2>6, <2>7, <2>8
<1>. QED BY <1>u, <1>m, <1>c, <1>o, <1>n DEF Next

\* Every State a program holds has absorbed what the program fed to it.
THEOREM PartsInvHolds == Spec => []PartsInv
<1>. QED BY PartsInit, PartsStep, PTL DEF Spec

\* In a program that does not go on with a State after `verify`, `finalize`
\* agrees with the one-shot function on the whole message.
THEOREM WholeFromParts ==
  ASSUME ~ReuseAfterVerify PROVE Spec => []PartsMakeTheWhole
<1>1. PartsInv => PartsMakeTheWhole
  BY DEF PartsInv
<1>. QED BY <1>1, PartsInvHolds, PTL

\* In such a program, `verify` accepts exactly the signatures of the message.
THEOREM ExactVerify ==
  ASSUME ~ReuseAfterVerify PROVE Spec => []VerifyIsExact
<1>1. PartsInv => VerifyIsExact
  BY DEF PartsInv
<1>. QED BY <1>1, PartsInvHolds, PTL

-----------------------------------------------------------------------------
(* Signed messages.                                                        *)

LEMMA SigBytesFacts ==
  ASSUME NEW k, NEW m
  PROVE  /\ SigBytes(k, m) \in Seq([sig : {Value("ed25519", k, 0, m)}, at : Nat])
         /\ Len(SigBytes(k, m)) = SIGNATUREBYTES
         /\ \A p, n : SigBytes(k, m) = SigBytes(p, n) => k = p /\ m = n
<1>1. SIGNATUREBYTES \in Nat \ {0}
  BY PartsAssumption
<1>2. /\ SigBytes(k, m) \in Seq([sig : {Value("ed25519", k, 0, m)}, at : Nat])
      /\ Len(SigBytes(k, m)) = SIGNATUREBYTES
  BY <1>1 DEF SigBytes
<1>3. ASSUME NEW p, NEW n, SigBytes(k, m) = SigBytes(p, n) PROVE k = p /\ m = n
  <2>1. SigBytes(k, m)[1] = [sig |-> Value("ed25519", k, 0, m), at |-> 1]
        /\ SigBytes(p, n)[1] = [sig |-> Value("ed25519", p, 0, n), at |-> 1]
    BY <1>1 DEF SigBytes
  <2>2. Value("ed25519", k, 0, m) = Value("ed25519", p, 0, n)
    BY <1>3, <2>1
  <2>. QED BY <2>2 DEF Value
<1>. QED BY <1>2, <1>3

LEMMA Slice ==
  ASSUME NEW B, NEW q \in Seq(B), NEW a \in Nat \ {0}, NEW b \in Nat, b <= Len(q), a <= b + 1
  PROVE  /\ SubSeq(q, a, b) \in Seq(B)
         /\ Len(SubSeq(q, a, b)) = (b - a) + 1
         /\ \A i \in 1..((b - a) + 1) : SubSeq(q, a, b)[i] = q[(a + i) - 1]
<1>1. Len(q) \in Nat
  BY LenProperties
<1>2. \A i \in a..b : q[i] \in B
  BY <1>1, ElementOfSeq
<1>. QED BY <1>2, SubSeqProperties

\* All that is delivered begins with the signature, or is shorter than it.
LEMMA DeliveredFacts ==
  ASSUME NEW k, NEW m \in Seq(Bytes), NEW sm \in Deliveries(SignMessage(k, m))
  PROVE  \E B :
           /\ sm \in Seq(B) /\ m \in Seq(B) /\ SigBytes(k, m) \in Seq(B)
           /\ SignMessage(k, m) \in Seq(B)
           /\ Len(SignMessage(k, m)) = SIGNATUREBYTES + Len(m)
           /\ \A i \in 1..Len(m) : SignMessage(k, m)[SIGNATUREBYTES + i] = m[i]
           /\ \A i \in 1..SIGNATUREBYTES : SignMessage(k, m)[i] = SigBytes(k, m)[i]
           /\ \A i \in 1..SIGNATUREBYTES : i <= Len(sm) => sm[i] = SigBytes(k, m)[i]
<1>0. PICK S : S = [sig : {Value("ed25519", k, 0, m)}, at : Nat]
  OBVIOUS
<1>1. SigBytes(k, m) \in Seq(S) /\ Len(SigBytes(k, m)) = SIGNATUREBYTES
  BY <1>0, SigBytesFacts
<1>2. PICK B : B = S \cup Bytes
  OBVIOUS
<1>3. /\ m \in Seq(B) /\ SigBytes(k, m) \in Seq(B)
      /\ \A c \in Chunks : c \in Seq(B)
  BY <1>1, <1>2, PartsAssumption
<1>4. PICK g, whole : g = SigBytes(k, m) /\ whole = g \o m /\ whole = SignMessage(k, m)
  BY DEF SignMessage
<1>5. SIGNATUREBYTES \in Nat \ {0} /\ Len(m) \in Nat /\ Len(g) = SIGNATUREBYTES
  BY <1>1, <1>4, PartsAssumption, LenProperties
<1>6. /\ whole \in Seq(B) /\ Len(whole) = SIGNATUREBYTES + Len(m)
      /\ \A i \in 1..(SIGNATUREBYTES + Len(m)) :
           whole[i] = IF i <= SIGNATUREBYTES THEN g[i] ELSE m[i - SIGNATUREBYTES]
  <2>1. g \in Seq(B) /\ m \in Seq(B)
    BY <1>3, <1>4
  <2>2. /\ g \o m \in Seq(B) /\ Len(g \o m) = Len(g) + Len(m)
        /\ \A i \in 1..(Len(g) + Len(m)) :
             (g \o m)[i] = IF i <= Len(g) THEN g[i] ELSE m[i - Len(g)]
    BY <2>1, ConcatProperties
  <2>. QED BY <2>2, <1>4, <1>5
<1>7. /\ \A i \in 1..Len(m) : whole[SIGNATUREBYTES + i] = m[i]
      /\ \A i \in 1..SIGNATUREBYTES : whole[i] = g[i]
  BY <1>5, <1>6
<1>8. sm \in Seq(B) /\ \A i \in 1..SIGNATUREBYTES : i <= Len(sm) => sm[i] = g[i]
  <2>1. CASE sm = whole
    BY <2>1, <1>6, <1>7
  <2>2. ASSUME NEW n \in 0..(Len(whole) - 1), sm = SubSeq(whole, 1, n)
        PROVE  sm \in Seq(B) /\ \A i \in 1..SIGNATUREBYTES : i <= Len(sm) => sm[i] = g[i]
    <3>1. n \in Nat /\ n <= Len(whole) /\ 1 <= n + 1 /\ 1 \in Nat \ {0}
      BY <1>5, <1>6
    <3>2. /\ sm \in Seq(B) /\ Len(sm) = (n - 1) + 1
          /\ \A i \in 1..((n - 1) + 1) : sm[i] = whole[(1 + i) - 1]
      BY <2>2, <3>1, <1>6, Slice
    <3>3. \A i \in 1..n : sm[i] = whole[i]
      BY <3>1, <3>2
    <3>. QED BY <3>1, <3>2, <3>3, <1>5, <1>7
  <2>3. ASSUME NEW c \in Chunks, sm = whole \o c
        PROVE  sm \in Seq(B) /\ \A i \in 1..SIGNATUREBYTES : i <= Len(sm) => sm[i] = g[i]
    <3>1. c \in Seq(B) /\ Len(c) \in Nat
      BY <1>3, LenProperties
    <3>2. /\ sm \in Seq(B) /\ Len(sm) = Len(whole) + Len(c)
          /\ \A i \in 1..(Len(whole) + Len(c)) : sm[i] = IF i <= Len(whole) THEN whole[i]
                                                        ELSE c[i - Len(whole)]
      BY <2>3, <3>1, <1>6, ConcatProperties
    <3>. QED BY <3>1, <3>2, <1>5, <1>6, <1>7
  <2>. QED BY <2>1, <2>2, <2>3, <1>4 DEF Deliveries
<1>. QED BY <1>3, <1>4, <1>6, <1>7, <1>8

LEMMA OpenFacts ==
  ASSUME NEW k, NEW p, NEW m \in Seq(Bytes), NEW sm \in Deliveries(SignMessage(k, m))
  PROVE  OpenMessage(sm, p) = IF sm = SignMessage(k, m) /\ p = k
                              THEN [ok |-> TRUE, m |-> m] ELSE [ok |-> FALSE, m |-> << >>]
<1>1. PICK B :
        /\ sm \in Seq(B) /\ m \in Seq(B) /\ SigBytes(k, m) \in Seq(B)
        /\ SignMessage(k, m) \in Seq(B)
        /\ Len(SignMessage(k, m)) = SIGNATUREBYTES + Len(m)
        /\ \A i \in 1..Len(m) : SignMessage(k, m)[SIGNATUREBYTES + i] = m[i]
        /\ \A i \in 1..SIGNATUREBYTES : SignMessage(k, m)[i] = SigBytes(k, m)[i]
        /\ \A i \in 1..SIGNATUREBYTES : i <= Len(sm) => sm[i] = SigBytes(k, m)[i]
  BY DeliveredFacts
<1>2. PICK S \in Nat \ {0} : S = SIGNATUREBYTES
  BY PartsAssumption
<1>3. PICK g, whole : g = SigBytes(k, m) /\ whole = SignMessage(k, m)
  OBVIOUS
<1>4. Len(m) \in Nat /\ Len(sm) \in Nat /\ Len(g) = S
  BY <1>1, <1>2, <1>3, LenProperties, SigBytesFacts
<1>5. CASE Len(sm) < S
  <2>1. ~ FfiOpens(sm, p)
    BY <1>2, <1>4, <1>5 DEF FfiOpens
  <2>2. sm # whole
    BY <1>1, <1>2, <1>3, <1>4, <1>5
  <2>. QED BY <2>1, <2>2, <1>3 DEF OpenMessage
<1>6. CASE Len(sm) >= S
  <2>1. PICK head, rest : head = SubSeq(sm, 1, S) /\ rest = SubSeq(sm, S + 1, Len(sm))
    OBVIOUS
  <2>2. /\ head \in Seq(B) /\ Len(head) = (S - 1) + 1
        /\ \A i \in 1..((S - 1) + 1) : head[i] = sm[(1 + i) - 1]
    BY <2>1, <1>1, <1>4, <1>6, Slice
  <2>3. /\ rest \in Seq(B) /\ Len(rest) = (Len(sm) - (S + 1)) + 1
        /\ \A i \in 1..((Len(sm) - (S + 1)) + 1) : rest[i] = sm[((S + 1) + i) - 1]
    BY <2>1, <1>1, <1>4, <1>6, Slice
  <2>4. Len(rest) = Len(sm) - S /\ \A i \in 1..(Len(sm) - S) : rest[i] = sm[S + i]
    BY <2>3, <1>4, <1>6
  <2>5. head = g
    <3>0. Len(head) = S /\ \A i \in 1..S : head[i] = sm[i]
      BY <2>2
    <3>1. Len(head) = Len(g) /\ \A i \in 1..Len(head) : head[i] = g[i]
      <4>1. \A i \in 1..S : i <= Len(sm)
        BY <1>4, <1>6
      <4>2. \A i \in 1..S : sm[i] = g[i]
        BY <4>1, <1>1, <1>2, <1>3
      <4>. QED BY <4>2, <3>0, <1>4
    <3>. QED BY <3>1, <2>2, <1>1, <1>3, SeqEqual
  <2>6. FfiOpens(sm, p) <=> p = k /\ rest = m
    <3>1. FfiOpens(sm, p) <=> g = SigBytes(p, rest)
      BY <2>1, <2>5, <1>2, <1>6 DEF FfiOpens
    <3>2. g = SigBytes(p, rest) <=> k = p /\ m = rest
      BY <1>3, SigBytesFacts
    <3>. QED BY <3>1, <3>2
  <2>7. rest = m <=> sm = whole
    <3>1. ASSUME sm = whole PROVE rest = m
      <4>0. Len(sm) = S + Len(m) /\ \A i \in 1..Len(m) : sm[S + i] = m[i]
        BY <3>1, <1>1, <1>2, <1>3
      <4>1. Len(rest) = Len(m) /\ \A i \in 1..Len(rest) : rest[i] = m[i]
        BY <4>0, <2>4, <1>4
      <4>. QED BY <4>1, <2>3, <1>1, SeqEqual
    <3>2. ASSUME rest = m PROVE sm = whole
      <4>1. Len(sm) = Len(whole) /\ Len(whole) = S + Len(m)
        BY <3>2, <2>4, <1>1, <1>2, <1>3, <1>4
      <4>2. \A i \in 1..S : sm[i] = whole[i]
        BY <1>1, <1>2, <1>3, <1>4, <1>6
      <4>3. \A i \in 1..Len(m) : sm[S + i] = whole[S + i]
        BY <3>2, <2>4, <4>1, <1>1, <1>2, <1>3, <1>4
      <4>4. ASSUME NEW i \in 1..Len(sm) PROVE sm[i] = whole[i]
        <5>1. CASE i <= S
          BY <5>1, <4>2, <4>4
        <5>2. CASE i > S
          <6>1. i - S \in 1..Len(m) /\ i = S + (i - S)
            BY <5>2, <4>1, <4>4, <1>4
          <6>. QED BY <6>1, <4>3
        <5>. QED BY <5>1, <5>2, <4>4, <1>4
      <4>. QED BY <4>1, <4>4, <1>1, <1>3, SeqEqual
    <3>. QED BY <3>1, <3>2
  <2>8. ASSUME rest = m
        PROVE  SubSeq(OpenBuffer(sm), 1, Len(sm) - SIGNATUREBYTES) = m
    <3>1. PICK buf : buf = OpenBuffer(sm)
      OBVIOUS
    <3>2. PICK n \in Nat : n = Len(sm) - S
      BY <1>4, <1>6
    <3>3. \A i \in 1..n : buf[i] = m[i] /\ m[i] \in B
      <4>1. \A i \in 1..n : buf[i] = sm[S + i]
        BY <3>1, <3>2, <1>2, <1>4 DEF OpenBuffer
      <4>2. n = Len(m)
        BY <2>4, <2>8, <3>2
      <4>3. \A i \in 1..n : m[i] \in B
        BY <4>2, <1>1, ElementOfSeq
      <4>. QED BY <4>1, <4>3, <2>4, <2>8, <3>2
    <3>4. PICK r : r = SubSeq(buf, 1, n)
      OBVIOUS
    <3>5. /\ r \in Seq(B) /\ Len(r) = IF 1 <= n THEN (n - 1) + 1 ELSE 0
          /\ \A i \in 1..((n - 1) + 1) : r[i] = buf[(1 + i) - 1]
      BY <3>3, <3>4, SubSeqProperties
    <3>6. Len(r) = Len(m) /\ \A i \in 1..Len(r) : r[i] = m[i]
      BY <3>2, <3>3, <3>5, <2>4, <2>8, <1>4
    <3>. QED BY <3>1, <3>2, <3>4, <3>5, <3>6, <1>1, <1>2, SeqEqual
  <2>. QED BY <2>6, <2>7, <2>8, <1>3 DEF OpenMessage
<1>. QED BY <1>4, <1>5, <1>6, <1>2

\* `sign::verify` returns what was signed, for every message and key pair.
THEOREM OpensExactly == Spec => []OpensAsSigned
<1>1. Init => OpensAsSigned
  BY DEF Init, NoOut, OpensAsSigned
<1>2. ASSUME PartsInv, OpensAsSigned, [Next]_vars PROVE OpensAsSigned'
  <2>1. CASE UNCHANGED vars
    BY <2>1, <1>2 DEF vars, OpensAsSigned
  <2>2. ASSUME NEW k \in Keys, NEW p \in Keys, NEW m \in Messages, SignAndOpen(k, m, p)
        PROVE  OpensAsSigned'
    <3>1. m \in Seq(Bytes)
      BY <1>2, SlotFields DEF Messages
    <3>2. PICK sm \in Deliveries(SignMessage(k, m)) :
             out' = [op  |-> "open", res |-> OpenMessage(sm, p),
                     due |-> IF sm = SignMessage(k, m) /\ p = k
                             THEN [ok |-> TRUE, m |-> m] ELSE [ok |-> FALSE, m |-> << >>]]
      BY <2>2 DEF SignAndOpen
    <3>3. out'.res = out'.due
      BY <3>1, <3>2, OpenFacts
    <3>. QED BY <3>3 DEF OpensAsSigned
  <2>3. ASSUME out'.op # "open" PROVE OpensAsSigned'
    BY <2>3 DEF OpensAsSigned
  <2>4. ASSUME NEW kind \in TagKinds, NEW k \in Keys, NEW m \in Messages,
               Make(kind, k, m) \/ Check(kind, k, m)
        PROVE  out'.op # "open"
    BY <2>4 DEF Make, Check
  <2>5. ASSUME NEW s \in Slots,
          \/ \E kind \in Kinds : New(s, kind)
          \/ \E k \in Keys : InitAuth(s, k)
          \/ \E n \in OutLens \cup {Null}, k \in Keys \cup {Null} : NewGeneric(s, n, k)
          \/ \E c \in Chunks : Update(s, c)
          \/ \E d \in Slots : Copy(s, d)
          \/ \E k \in Keys \cup {Null} : Finalize(s, k)
          \/ \E sig \in Signatures, p \in Keys : Verify(s, sig, p)
          \/ Drop(s)
        PROVE  out'.op # "open"
    <3>1. NoOut.op # "open"
      BY DEF NoOut
    <3>2. \A k : Finalize(s, k) => out'.op = "finalize"
      BY DEF Finalize
    <3>3. \A sig, p : Verify(s, sig, p) => out'.op = "verify"
      BY DEF Verify
    <3>. QED BY <2>5, <3>1, <3>2, <3>3 DEF New, InitAuth, NewGeneric, Update, Copy, Drop
  <2>. QED BY <1>2, <2>1, <2>2, <2>3, <2>4, <2>5 DEF Next
<1>. QED BY <1>1, <1>2, PartsInvHolds, PTL DEF Spec
=============================================================================
