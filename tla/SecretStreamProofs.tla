------------------------- MODULE SecretStreamProofs -------------------------
(***************************************************************************)
(* Proofs about SecretStream, for all keys, headers, messages, lengths and *)
(* bounds.                                                                 *)
(***************************************************************************)
EXTENDS SecretStream, SequenceTheorems, TLAPS

(***************************************************************************)
(* Facts about the operators                                               *)
(***************************************************************************)

\* `tag as u8` yields a byte, and `from_u8` is its left inverse.
LEMMA TagRoundTrip ==
  \A t \in Tags : AsU8[t] \in Bytes /\ FromU8(AsU8[t]) = t
BY DEF Tags, AsU8, Bytes, FromU8, TAG_MESSAGE, TAG_PUSH, TAG_REKEY, TAG_FINAL

\* `from_u8` returns a tag or the error.
LEMMA FromU8Type == \A b \in Bytes : FromU8(b) \in Tags \cup {"Err"}
BY DEF Tags, Bytes, FromU8, TAG_MESSAGE, TAG_PUSH, TAG_REKEY, TAG_FINAL

\* Absorbing a message extends the transcript by one entry.
LEMMA AbsorbFacts ==
  ASSUME NEW st \in States, NEW m \in Messages, NEW ad \in Ads, NEW b \in Bytes
  PROVE  LET e == [rk |-> st.rk, m |-> m, ad |-> ad, tag |-> b]
             a == Absorb(st, m, ad, b)
         IN  /\ e \in Entries
             /\ a \in States
             /\ a.key = st.key /\ a.hdr = st.hdr /\ a.rk = 0
             /\ a.log = Append(st.log, e)
<1> DEFINE e == [rk |-> st.rk, m |-> m, ad |-> ad, tag |-> b]
<1>1. e \in Entries
  BY DEF States, Entries
<1>2. Append(st.log, e) \in Seq(Entries)
  <2>1. st.log \in Seq(Entries)
    BY DEF States
  <2>. HIDE DEF e
  <2>. QED BY <1>1, <2>1
<1>. QED BY <1>1, <1>2 DEF States, Absorb

\* `None` is passed on as the empty slice.
LEMMA AdBytesType == \A ad \in OptAds : AdBytes(ad) \in Ads
BY ConstantsAssumption DEF OptAds, AdBytes

\* A ciphertext is a datagram.
LEMMA SealType ==
  ASSUME NEW st \in States, NEW m \in Messages, NEW ad \in Ads, NEW b \in Bytes
  PROVE  Seal(st, m, ad, b) \in Datagrams
<1>1. MLen[m] + ABYTES \in Nat
  BY ConstantsAssumption
<1>. QED BY <1>1 DEF Seal, Datagrams, Sealed

LEMMA BlankTypes == NoState \in States /\ NoStream \in Streams /\ EmptyVec \in Datagrams
BY DEF NoState, States, StateOf, NoStream, Streams, EmptyVec, Noise, Datagrams, Entries

LEMMA NewStreamType ==
  \A h \in Headers, k \in Keys :
    /\ NewStream(k, h) \in Streams
    /\ NewStream(k, h).status = "live" /\ ~NewStream(k, h).finalized
    /\ NewStream(k, h).state.key = k /\ NewStream(k, h).state.hdr = h
    /\ NewStream(k, h).state.log = << >> /\ NewStream(k, h).state.rk = 0
BY DEF NewStream, States, StateOf, Streams, Entries

\* `rekey` changes the count of rekeys and nothing else.
LEMMA RekeyedFacts ==
  ASSUME NEW s \in Streams
  PROVE  /\ Rekeyed(s) \in Streams
         /\ Rekeyed(s).status = s.status /\ Rekeyed(s).finalized = s.finalized
         /\ Rekeyed(s).state.key = s.state.key
         /\ Rekeyed(s).state.hdr = s.state.hdr
         /\ Rekeyed(s).state.log = s.state.log
BY DEF Rekeyed, Streams, States, FfiRekey

\* The prefix order on transcripts.
LEMMA PrefixFacts ==
  ASSUME NEW S, NEW s \in Seq(S), NEW t \in Seq(S), NEW u \in Seq(S), NEW e \in S
  PROVE  /\ PrefixOf(s, s)
         /\ PrefixOf(<< >>, s)
         /\ PrefixOf(s, Append(s, e))
         /\ PrefixOf(s, t) /\ PrefixOf(t, u) => PrefixOf(s, u)
         /\ (PrefixOf(s, t) /\ Len(s) < Len(t) /\ t[Len(s) + 1] = e)
               => PrefixOf(Append(s, e), t)
         /\ (PrefixOf(t, u) /\ Len(s) < Len(t))
               => Len(s) < Len(u) /\ u[Len(s) + 1] = t[Len(s) + 1]
<1>1. PrefixOf(s, s) /\ PrefixOf(<< >>, s)
  BY DEF PrefixOf
<1>2. PrefixOf(s, Append(s, e))
  BY DEF PrefixOf
<1>3. PrefixOf(s, t) /\ PrefixOf(t, u) => PrefixOf(s, u)
  BY DEF PrefixOf
<1>4. ASSUME PrefixOf(s, t), Len(s) < Len(t), t[Len(s) + 1] = e
      PROVE  PrefixOf(Append(s, e), t)
  <2>1. Len(Append(s, e)) = Len(s) + 1
    OBVIOUS
  <2>2. \A i \in 1..(Len(s) + 1) : Append(s, e)[i] = IF i = Len(s) + 1 THEN e ELSE s[i]
    OBVIOUS
  <2>. QED BY <1>4, <2>1, <2>2 DEF PrefixOf
<1>5. ASSUME PrefixOf(t, u), Len(s) < Len(t)
      PROVE  Len(s) < Len(u) /\ u[Len(s) + 1] = t[Len(s) + 1]
  BY <1>5 DEF PrefixOf
<1>. QED BY <1>1, <1>2, <1>3, <1>4, <1>5

(***************************************************************************)
(* The pushing side                                                        *)
(***************************************************************************)

\* An outcome of push_check and push_impl leaves the transcript alone and
\* yields no ciphertext, or extends it by the entry the ciphertext seals; the
\* latter never on a finalized stream, and a final entry finalizes it.
LEMMA PushOutcomesFacts ==
  ASSUME NEW s \in Streams, NEW m \in Messages, NEW ad \in OptAds,
         NEW tag \in Tags, NEW r \in PushOutcomes(s, m, ad, tag)
  PROVE  /\ r.stream \in Streams /\ r.c \in Datagrams
         /\ r.stream.status = s.status
         /\ s.finalized => r.stream.finalized
         /\ \/ r.stream.state = s.state /\ ~r.ok /\ r.c = EmptyVec
            \/ /\ ~s.finalized
               /\ \E b \in Bytes :
                    /\ r.stream.state = Absorb(s.state, m, AdBytes(ad), b)
                    /\ r.c = Seal(s.state, m, AdBytes(ad), b)
                    /\ FromU8(b) = "Final" => r.stream.finalized
<1> DEFINE b    == AsU8[tag]
           t    == PushChecked(s, tag)
           a    == Absorb(s.state, m, AdBytes(ad), b)
           done == [t EXCEPT !.state = Absorb(@, m, AdBytes(ad), b)]
<1>1. b \in Bytes /\ FromU8(b) = tag
  BY TagRoundTrip
<1>2. AdBytes(ad) \in Ads
  BY AdBytesType
<1>3. /\ t \in Streams /\ t.state = s.state /\ t.status = s.status
      /\ s.finalized => t.finalized
      /\ tag = "Final" => t.finalized
  BY DEF PushChecked, Streams
<1>4. a \in States /\ Seal(s.state, m, AdBytes(ad), b) \in Datagrams
  <2>1. s.state \in States
    BY DEF Streams
  <2>. HIDE DEF b
  <2>. QED BY <1>1, <1>2, <2>1, AbsorbFacts, SealType
<1>5. /\ done \in Streams /\ done.state = a /\ done.status = s.status
      /\ done.finalized = t.finalized
  <2>1. done = [t EXCEPT !.state = a]
    BY <1>3
  <2>. HIDE DEF a, t, done
  <2>. QED BY <1>3, <1>4, <2>1 DEF Streams
<1>6. EmptyVec \in Datagrams
  BY BlankTypes
<1>7. CASE PushCheckOk(s, m)
  <2>1. ~s.finalized
    BY <1>7 DEF PushCheckOk
  <2>2. \/ r = [stream |-> done, checked |-> TRUE, ok |-> TRUE,
                c |-> Seal(s.state, m, AdBytes(ad), b)]
        \/ r = [stream |-> t, checked |-> TRUE, ok |-> FALSE, c |-> EmptyVec]
    BY <1>3, <1>7 DEF PushOutcomes
  <2>3. CASE r = [stream |-> done, checked |-> TRUE, ok |-> TRUE,
                  c |-> Seal(s.state, m, AdBytes(ad), b)]
    <3>1. r.stream = done /\ r.c = Seal(s.state, m, AdBytes(ad), b)
      BY <2>3
    <3>. HIDE DEF done, a, t, b
    <3>2. r.stream.state = Absorb(s.state, m, AdBytes(ad), b)
      BY <3>1, <1>5 DEF a
    <3>. QED BY <1>1, <1>3, <1>4, <1>5, <2>1, <3>1, <3>2
  <2>4. CASE r = [stream |-> t, checked |-> TRUE, ok |-> FALSE, c |-> EmptyVec]
    <3>1. r.stream = t /\ r.c = EmptyVec /\ ~r.ok
      BY <2>4
    <3>. HIDE DEF t
    <3>. QED BY <1>3, <1>6, <3>1
  <2>. QED BY <2>2, <2>3, <2>4
<1>8. CASE ~PushCheckOk(s, m)
  <2>1. r.stream = s /\ ~r.ok /\ r.c = EmptyVec
    BY <1>8 DEF PushOutcomes
  <2>. QED BY <1>6, <2>1
<1>. QED BY <1>7, <1>8

\* The final entry of a transcript is its last and finalizes the stream.
FinalClosed(s) ==
  \A i \in 1..Len(s.state.log) :
    FromU8(s.state.log[i].tag) = "Final" => i = Len(s.state.log) /\ s.finalized

\* t may take the place of the stream with header h: it continues it.
Continues(h, t) ==
  /\ t \in Streams
  /\ t.status # "none" /\ t.state.hdr = h
  /\ tx[h].status # "none" => t.state.key = tx[h].state.key
  /\ PrefixOf(tx[h].state.log, t.state.log)
  /\ \/ t.state.log = tx[h].state.log
     \/ /\ ~tx[h].finalized
        /\ \E e \in Entries : t.state.log = Append(tx[h].state.log, e)
  /\ tx[h].finalized => t.finalized
  /\ FinalClosed(t)

\* The step puts t in the place of h's stream and adds genuine datagrams.
PusherMoves(h, t) ==
  /\ Continues(h, t)
  /\ tx' = [tx EXCEPT ![h] = t]
  /\ UNCHANGED <<rx, got, mbuf, inits>>
  /\ net' \cup {cbuf'} \subseteq Datagrams
  /\ \A c \in (net' \cup {cbuf'}) \ (net \cup {cbuf}) : Genuine(c)'

\* A genuine datagram stays genuine while streams only continue.
LEMMA GenuineStable ==
  ASSUME TypeOK, NEW h \in Headers, NEW t, Continues(h, t),
         tx' = [tx EXCEPT ![h] = t], NEW c \in Datagrams, Genuine(c)
  PROVE  Genuine(c)'
<1>. SUFFICES ASSUME c.kind = "sealed" PROVE Genuine(c)'
  BY DEF Genuine
<1> DEFINE g == c.state.hdr
<1>1. /\ g \in Headers /\ tx[g].status # "none" /\ tx[g].state.key = c.state.key
      /\ PrefixOf(c.state.log, tx[g].state.log)
      /\ Len(c.state.log) < Len(tx[g].state.log)
      /\ tx[g].state.log[Len(c.state.log) + 1] =
             [rk |-> c.state.rk, m |-> c.m, ad |-> c.ad, tag |-> c.tag]
  BY DEF Genuine
<1>2. CASE g # h
  <2>1. tx'[g] = tx[g]
    BY <1>1, <1>2 DEF TypeOK
  <2>. QED BY <1>1, <2>1 DEF Genuine
<1>3. CASE g = h
  <2>1. tx'[g] = t
    BY <1>1, <1>3 DEF TypeOK
  <2>2. /\ t.status # "none" /\ t.state.key = tx[g].state.key
        /\ PrefixOf(tx[g].state.log, t.state.log)
    BY <1>1, <1>3 DEF Continues
  <2>3. /\ tx[g].state.log \in Seq(Entries) /\ t.state.log \in Seq(Entries)
        /\ c.state.log \in Seq(Entries)
    <3>1. c.state \in States
      BY DEF Datagrams, Sealed
    <3>2. tx[g].state \in States /\ t.state \in States
      BY <1>1 DEF TypeOK, Streams, Continues
    <3>. QED BY <3>1, <3>2 DEF States
  <2>4. PrefixOf(c.state.log, t.state.log)
    BY <1>1, <2>2, <2>3, PrefixFacts
  <2>5. /\ Len(c.state.log) < Len(t.state.log)
        /\ t.state.log[Len(c.state.log) + 1] = tx[g].state.log[Len(c.state.log) + 1]
    BY <1>1, <2>2, <2>3, PrefixFacts
  <2>. QED BY <1>1, <2>1, <2>2, <2>4, <2>5 DEF Genuine
<1>. QED BY <1>2, <1>3

\* When a stream continues, everything but the new datagram keeps agreeing.
LEMMA PusherStep ==
  ASSUME IndInv, NEW h \in Headers, NEW t, PusherMoves(h, t)
  PROVE  IndInv'
<1>. USE DEF IndInv, PusherMoves
<1>1. TypeOK'
  <2>1. tx' \in [Headers -> Streams]
    BY DEF TypeOK, Continues
  <2>. QED BY <2>1 DEF TypeOK
<1>2. /\ tx'[h] = t
      /\ \A g \in Headers : g # h => tx'[g] = tx[g]
  BY DEF TypeOK
<1>3. TxWellFormed'
  BY <1>2 DEF TxWellFormed, Continues
<1>4. FinalIsLast'
  <2>. SUFFICES ASSUME NEW g \in Headers PROVE FinalClosed(tx'[g])
    BY DEF FinalIsLast, FinalClosed, Sent
  <2>1. CASE g = h
    BY <1>2, <2>1 DEF Continues
  <2>2. CASE g # h
    BY <1>2, <2>2 DEF FinalIsLast, FinalClosed, Sent
  <2>. QED BY <2>1, <2>2
<1>5. \A c \in net' \cup {cbuf'} : Genuine(c)'
  <2>. SUFFICES ASSUME NEW c \in net' \cup {cbuf'} PROVE Genuine(c)'
    OBVIOUS
  <2>1. CASE c \in net \cup {cbuf}
    BY <2>1, GenuineStable
  <2>2. CASE c \notin net \cup {cbuf}
    BY <2>2
  <2>. QED BY <2>1, <2>2
<1>6. RxFollows'
  <2>1. CASE rx.status = "live" /\ Source = h
    <3>1. /\ rx.state.log \in Seq(Entries) /\ tx[h].state.log \in Seq(Entries)
          /\ t.state.log \in Seq(Entries)
      <4>1. rx.state \in States /\ tx[h].state \in States /\ t.state \in States
        BY DEF TypeOK, Streams, Continues
      <4>. QED BY <4>1 DEF States
    <3>2. PrefixOf(rx.state.log, tx[h].state.log) /\ PrefixOf(tx[h].state.log, t.state.log)
      BY <2>1 DEF RxFollows, Continues, Sent
    <3>3. PrefixOf(rx.state.log, t.state.log)
      BY <3>1, <3>2 DEF PrefixOf
    <3>4. rx.state.log # << >> => t.status # "none" /\ t.state.key = rx.state.key
      BY <2>1 DEF RxFollows, Continues
    <3>. QED BY <1>2, <2>1, <3>3, <3>4 DEF RxFollows, Sent, Source, Seen
  <2>2. CASE rx.status = "live" /\ Source # h
    <3>1. Source \in Headers /\ tx'[Source] = tx[Source]
      BY <1>2, <2>2 DEF RxFollows
    <3>. QED BY <2>2, <3>1 DEF RxFollows, Sent, Source, Seen
  <2>3. CASE rx.status # "live"
    BY <2>3 DEF RxFollows
  <2>. QED BY <2>1, <2>2, <2>3
<1>. QED BY <1>1, <1>3, <1>4, <1>5, <1>6

\* A stream whose transcript stays as it is continues.
LEMMA SameContinues ==
  ASSUME IndInv, NEW h \in Headers, NEW t \in Streams,
         tx[h].status # "none", t.status # "none",
         t.state.key = tx[h].state.key, t.state.hdr = tx[h].state.hdr,
         t.state.log = tx[h].state.log, tx[h].finalized => t.finalized
  PROVE  Continues(h, t)
<1>1. t.state.hdr = h
  BY DEF IndInv, TxWellFormed
<1>2. tx[h].state.log \in Seq(Entries)
  <2>1. tx[h].state \in States
    BY DEF IndInv, TypeOK, Streams
  <2>. QED BY <2>1 DEF States
<1>3. PrefixOf(tx[h].state.log, t.state.log)
  BY <1>2 DEF PrefixOf
<1>4. FinalClosed(t)
  BY DEF IndInv, FinalIsLast, FinalClosed, Sent
<1>. QED BY <1>1, <1>3, <1>4 DEF Continues

\* So does an open stream that absorbs a message, and the message's ciphertext
\* is then genuine.
LEMMA AbsorbContinues ==
  ASSUME IndInv, NEW h \in Headers, NEW t \in Streams,
         NEW m \in Messages, NEW ad \in Ads, NEW b \in Bytes,
         tx[h].status # "none", ~tx[h].finalized, t.status # "none",
         t.state = Absorb(tx[h].state, m, ad, b),
         FromU8(b) = "Final" => t.finalized,
         NEW c, c = Seal(tx[h].state, m, ad, b)
  PROVE  /\ Continues(h, t)
         /\ tx' = [tx EXCEPT ![h] = t] => Genuine(c)'
<1> DEFINE st == tx[h].state
           e  == [rk |-> st.rk, m |-> m, ad |-> ad, tag |-> b]
<1>1. st \in States /\ st.hdr = h /\ st.log \in Seq(Entries)
  <2>1. st \in States
    BY DEF IndInv, TypeOK, Streams
  <2>. QED BY <2>1 DEF IndInv, TxWellFormed, States
<1>2. /\ e \in Entries
      /\ t.state.key = st.key /\ t.state.hdr = st.hdr
      /\ t.state.log = Append(st.log, e)
  BY <1>1, AbsorbFacts
<1>. HIDE DEF e
<1>3. PrefixOf(st.log, t.state.log)
  BY <1>1, <1>2, PrefixFacts
<1>4. /\ Len(t.state.log) = Len(st.log) + 1
      /\ t.state.log[Len(st.log) + 1] = e
      /\ \A i \in 1..Len(st.log) : t.state.log[i] = st.log[i]
  BY <1>1, <1>2
<1>5. FinalClosed(t)
  <2>. SUFFICES ASSUME NEW i \in 1..Len(t.state.log),
                       FromU8(t.state.log[i].tag) = "Final"
                PROVE  i = Len(t.state.log) /\ t.finalized
    BY DEF FinalClosed
  <2>1. CASE i = Len(st.log) + 1
    <3>1. t.state.log[i].tag = b
      BY <1>4, <2>1 DEF e
    <3>. QED BY <1>4, <2>1, <3>1
  <2>2. CASE i # Len(st.log) + 1
    <3>1. i \in 1..Len(st.log)
      BY <1>1, <1>4, <2>2
    <3>2. FromU8(st.log[i].tag) = "Final"
      BY <1>4, <3>1
    <3>3. tx[h].finalized
      BY <3>1, <3>2 DEF IndInv, FinalIsLast, Sent
    <3>. QED BY <3>3
  <2>. QED BY <2>1, <2>2
<1>6. Continues(h, t)
  BY <1>1, <1>2, <1>3, <1>5 DEF Continues
<1>7. ASSUME tx' = [tx EXCEPT ![h] = t]
      PROVE  Genuine(c)'
  <2>1. tx'[h] = t
    BY <1>7 DEF IndInv, TypeOK
  <2>2. c.state = st /\ c.m = m /\ c.ad = ad /\ c.tag = b
    BY DEF Seal
  <2>3. /\ c.state.hdr = h /\ t.state.key = c.state.key
        /\ PrefixOf(c.state.log, t.state.log)
        /\ Len(c.state.log) < Len(t.state.log)
        /\ t.state.log[Len(c.state.log) + 1] = e
    BY <1>1, <1>2, <1>3, <1>4, <2>2
  <2>4. e = [rk |-> c.state.rk, m |-> c.m, ad |-> c.ad, tag |-> c.tag]
    BY <2>2 DEF e
  <2>. QED BY <2>1, <2>3, <2>4 DEF Genuine
<1>. QED BY <1>6, <1>7

\* Any outcome of push_check and push_impl continues the stream, also when the
\* stream is consumed, and a ciphertext it produced is genuine.
LEMMA OutcomeContinues ==
  ASSUME IndInv, NEW h \in Headers, tx[h].status = "live",
         NEW m \in Messages, NEW ad \in OptAds, NEW tag \in Tags,
         NEW r \in PushOutcomes(tx[h], m, ad, tag),
         NEW t \in {r.stream, [r.stream EXCEPT !.status = "gone"]},
         tx' = [tx EXCEPT ![h] = t]
  PROVE  Continues(h, t) /\ r.c \in Datagrams /\ Genuine(r.c)'
<1>1. tx[h] \in Streams
  BY DEF IndInv, TypeOK
<1>2. /\ r.stream \in Streams /\ r.c \in Datagrams
      /\ r.stream.status = "live"
      /\ tx[h].finalized => r.stream.finalized
  BY <1>1, PushOutcomesFacts
<1>3. /\ t \in Streams /\ t.status # "none"
      /\ t.state = r.stream.state /\ t.finalized = r.stream.finalized
  BY <1>2 DEF Streams
<1>4. CASE r.stream.state = tx[h].state /\ r.c = EmptyVec
  <2>1. Continues(h, t)
    BY <1>2, <1>3, <1>4, SameContinues
  <2>2. Genuine(r.c)'
    BY <1>4 DEF Genuine, EmptyVec, Noise
  <2>. QED BY <1>2, <2>1, <2>2
<1>5. ASSUME ~tx[h].finalized, NEW b \in Bytes,
             r.stream.state = Absorb(tx[h].state, m, AdBytes(ad), b),
             r.c = Seal(tx[h].state, m, AdBytes(ad), b),
             FromU8(b) = "Final" => r.stream.finalized
      PROVE  Continues(h, t) /\ Genuine(r.c)'
  <2>1. PICK a \in Ads : a = AdBytes(ad)
    BY AdBytesType
  <2>2. PICK c : c = r.c
    OBVIOUS
  <2>3. FromU8(b) = "Final" => t.finalized
    BY <1>3, <1>5
  <2>4. /\ t.state = Absorb(tx[h].state, m, a, b)
        /\ c = Seal(tx[h].state, m, a, b)
        /\ tx[h].status # "none"
    BY <1>3, <1>5, <2>1, <2>2
  <2>5. Continues(h, t) /\ Genuine(c)'
    BY <1>3, <1>5, <2>3, <2>4, AbsorbContinues
  <2>. QED BY <2>2, <2>5
<1>. QED BY <1>1, <1>2, <1>4, <1>5, PushOutcomesFacts

\* Every operation of the pushing program continues a stream, or has no
\* effect.
LEMMA PushNextContinues ==
  ASSUME IndInv, PushNext
  PROVE  UNCHANGED vars \/ \E h \in Headers : \E t : PusherMoves(h, t)
<1>0. PICK h \in Headers :
        \/ \E k \in Keys : InitPush(h, k)
        \/ \E m \in Messages, ad \in OptAds, tag \in Tags :
             Push(h, m, ad, tag) \/ PushToVec(h, m, ad, tag)
        \/ \E ad \in OptAds : Finalize(h, ad)
        \/ RekeyPush(h)
        \/ \E m \in Messages, b \in ForeignBytes : ForeignPush(h, m, b)
  BY DEF PushNext, UsedAds, OptAds
<1>t. /\ tx[h] \in Streams /\ tx[h].state \in States
      /\ tx[h].state.log \in Seq(Entries)
      /\ net \cup {cbuf} \subseteq Datagrams
      /\ "Final" \in Tags /\ EmptyMsg \in Messages
  BY ConstantsAssumption DEF IndInv, TypeOK, Streams, States, Tags
<1> DEFINE Moves == UNCHANGED vars \/ \E t : PusherMoves(h, t)
<1>1. ASSUME NEW k \in Keys, InitPush(h, k) PROVE Moves
  <2>1. CASE tx' = [tx EXCEPT ![h] = NewStream(k, h)]
    <3>1. tx[h].status = "none" /\ tx[h].state.log = << >> /\ ~tx[h].finalized
      BY <1>1 DEF IndInv, TxWellFormed, InitPush, NoStream, NoState, StateOf
    <3>2. PICK t : t = NewStream(k, h)
      OBVIOUS
    <3>3. /\ t \in Streams /\ t.status = "live" /\ t.state.hdr = h
          /\ t.state.log = << >>
      BY <3>2, NewStreamType
    <3>4. FinalClosed(t) /\ PrefixOf(tx[h].state.log, t.state.log)
      BY <3>1, <3>3 DEF FinalClosed, PrefixOf
    <3>5. Continues(h, t)
      BY <3>1, <3>3, <3>4 DEF Continues
    <3>. QED BY <1>1, <1>t, <2>1, <3>2, <3>5 DEF PusherMoves, InitPush
  <2>2. CASE UNCHANGED tx
    BY <1>1, <2>2 DEF InitPush, vars
  <2>. QED BY <1>1, <2>1, <2>2 DEF InitPush
<1>2. ASSUME NEW m \in Messages, NEW ad \in OptAds, NEW tag \in Tags,
             Push(h, m, ad, tag)
      PROVE  Moves
  <2>1. PICK r \in PushOutcomes(tx[h], m, ad, tag) :
          tx' = [tx EXCEPT ![h] = r.stream] /\ Send(r)
    BY <1>2 DEF Push
  <2>2. PICK t \in {r.stream, [r.stream EXCEPT !.status = "gone"]} : t = r.stream
    OBVIOUS
  <2>3. Continues(h, t) /\ r.c \in Datagrams /\ Genuine(r.c)'
    BY <1>2, <1>t, <2>1, <2>2, OutcomeContinues DEF Push, HasRoom
  <2>4. net' \subseteq net \cup {r.c} /\ cbuf' = cbuf
    BY <1>2, <2>1 DEF Send, Push
  <2>. QED BY <1>2, <1>t, <2>1, <2>2, <2>3, <2>4 DEF PusherMoves, Push
<1>3. ASSUME NEW m \in Messages, NEW ad \in OptAds, NEW tag \in Tags,
             PushToVec(h, m, ad, tag)
      PROVE  Moves
  <2>1. PICK r \in PushOutcomes(tx[h], m, ad, tag) :
          /\ tx' = [tx EXCEPT ![h] = r.stream]
          /\ cbuf' = IF r.checked THEN r.c ELSE cbuf
    BY <1>3 DEF PushToVec
  <2>2. PICK t \in {r.stream, [r.stream EXCEPT !.status = "gone"]} : t = r.stream
    OBVIOUS
  <2>3. Continues(h, t) /\ r.c \in Datagrams /\ Genuine(r.c)'
    BY <1>3, <1>t, <2>1, <2>2, OutcomeContinues DEF PushToVec, HasRoom
  <2>4. net' = net /\ cbuf' \in {r.c, cbuf}
    BY <1>3, <2>1 DEF PushToVec
  <2>. QED BY <1>3, <1>t, <2>1, <2>2, <2>3, <2>4 DEF PusherMoves, PushToVec
<1>4. ASSUME NEW ad \in OptAds, Finalize(h, ad) PROVE Moves
  <2>1. PICK r \in PushOutcomes(tx[h], EmptyMsg, ad, "Final") :
          tx' = [tx EXCEPT ![h] = [r.stream EXCEPT !.status = "gone"]] /\ Send(r)
    BY <1>4 DEF Finalize
  <2>2. PICK t \in {r.stream, [r.stream EXCEPT !.status = "gone"]} :
          t = [r.stream EXCEPT !.status = "gone"]
    OBVIOUS
  <2>3. Continues(h, t) /\ r.c \in Datagrams /\ Genuine(r.c)'
    BY <1>4, <1>t, <2>1, <2>2, OutcomeContinues DEF Finalize, HasRoom
  <2>4. net' \subseteq net \cup {r.c} /\ cbuf' = cbuf
    BY <1>4, <2>1 DEF Send, Finalize
  <2>. QED BY <1>4, <1>t, <2>1, <2>2, <2>3, <2>4 DEF PusherMoves, Finalize
<1>5. ASSUME RekeyPush(h) PROVE Moves
  <2>1. PICK t : t = Rekeyed(tx[h])
    OBVIOUS
  <2>2. /\ t \in Streams /\ t.status = tx[h].status /\ t.finalized = tx[h].finalized
        /\ t.state.key = tx[h].state.key /\ t.state.hdr = tx[h].state.hdr
        /\ t.state.log = tx[h].state.log
    BY <1>t, <2>1, RekeyedFacts
  <2>3. Continues(h, t)
    BY <1>5, <2>2, SameContinues DEF RekeyPush
  <2>. QED BY <1>5, <1>t, <2>1, <2>3 DEF PusherMoves, RekeyPush
<1>6. ASSUME NEW m \in Messages, NEW b \in ForeignBytes, ForeignPush(h, m, b)
      PROVE  Moves
  <2>1. b \in Bytes /\ FromU8(b) # "Final" /\ EmptyAd \in Ads
    BY ConstantsAssumption
    DEF Bytes, FromU8, TAG_MESSAGE, TAG_PUSH, TAG_REKEY, TAG_FINAL
  <2>2. PICK a : a = Absorb(tx[h].state, m, EmptyAd, b)
    OBVIOUS
  <2>3. a \in States
    BY <1>t, <2>1, <2>2, AbsorbFacts
  <2>4. PICK t : t = [tx[h] EXCEPT !.state = a]
    OBVIOUS
  <2>5. /\ t \in Streams /\ t.status = tx[h].status /\ t.state = a
    BY <1>t, <2>3, <2>4 DEF Streams
  <2>6. tx' = [tx EXCEPT ![h] = t]
    BY <1>6, <2>2, <2>4 DEF ForeignPush
  <2>7. PICK c : c = Seal(tx[h].state, m, EmptyAd, b)
    OBVIOUS
  <2>8. Continues(h, t) /\ Genuine(c)'
    <3>1. tx[h].status # "none" /\ ~tx[h].finalized
      BY <1>6 DEF ForeignPush, HasRoom, PushCheckOk
    <3>2. t.state = Absorb(tx[h].state, m, EmptyAd, b)
      BY <2>2, <2>5
    <3>. QED BY <2>1, <2>5, <2>6, <2>7, <3>1, <3>2, AbsorbContinues
  <2>9. c \in Datagrams
    BY <1>t, <2>1, <2>7, SealType
  <2>. QED BY <1>6, <1>t, <2>6, <2>7, <2>8, <2>9 DEF PusherMoves, ForeignPush
<1>. QED BY <1>0, <1>1, <1>2, <1>3, <1>4, <1>5, <1>6

\* Hence every operation of the pushing program preserves the invariant.
LEMMA PushNextPreserves ==
  ASSUME IndInv, PushNext
  PROVE  IndInv'
<1>1. CASE UNCHANGED vars
  BY <1>1 DEF IndInv, TypeOK, TxWellFormed, FinalIsLast, Genuine, RxFollows, vars,
              Sent, Source, Seen, NoStream
<1>. QED BY <1>1, PushNextContinues, PusherStep

(***************************************************************************)
(* The pulling side                                                        *)
(***************************************************************************)

\* Noise is no ciphertext: all that may arrive is typed and genuine.
LEMMA ArrivalsGenuine ==
  ASSUME IndInv, NEW c \in net \cup Garbage
  PROVE  c \in Datagrams /\ Genuine(c)
<1>1. CASE c \in net
  BY <1>1 DEF IndInv, TypeOK
<1>2. CASE c \in Garbage
  BY <1>2, ConstantsAssumption DEF Garbage, Noise, Datagrams, Genuine
<1>. QED BY <1>1, <1>2

\* A call of pull_impl advances the puller by exactly the next entry of its
\* stream and yields it, or changes nothing and yields nothing.
LEMMA PullImplFacts ==
  ASSUME IndInv, rx.status = "live", ~rx.finalized,
         NEW c \in net \cup Garbage, NEW ad \in OptAds,
         NEW r, r = PullImpl(rx, c, ad), Record(r)
  PROVE  \/ r.stream = rx /\ got' = got /\ r.buf = EmptyMsg
         \/ LET n == Len(rx.state.log)
                e == Sent(Source)[n + 1]
            IN  /\ n < Len(Sent(Source))
                /\ e \in Entries
                /\ tx[Source].status # "none"
                /\ tx[Source].state.key = rx.state.key
                /\ r.stream \in Streams
                /\ r.stream.status = "live"
                /\ r.stream.state.key = rx.state.key
                /\ r.stream.state.hdr = Source
                /\ r.stream.state.log = Append(rx.state.log, e)
                /\ r.stream.finalized = (FromU8(e.tag) = "Final")
                /\ e.rk = rx.state.rk
                /\ r.buf = e.m
                /\ got' = Append(got, Seen(e))
<1>0. c \in Datagrams /\ Genuine(c)
  BY ArrivalsGenuine
<1>1. CASE ~Accepts(rx.state, c, AdBytes(ad))
  <2>1. r = [stream |-> rx, buf |-> EmptyMsg, tag |-> "Err"]
    BY <1>1 DEF PullImpl
  <2>. QED BY <2>1 DEF Record
<1>2. CASE Accepts(rx.state, c, AdBytes(ad))
  <2>1. /\ c.kind = "sealed" /\ c.state = rx.state /\ r = Opened(rx, c)
    BY <1>2 DEF Accepts, PullImpl
  <2>2. /\ rx \in Streams /\ rx.state \in States
        /\ c.m \in Messages /\ c.ad \in Ads /\ c.tag \in Bytes
    BY <1>0, <2>1 DEF IndInv, TypeOK, Streams, Datagrams, Sealed
  <2> DEFINE n == Len(rx.state.log)
             e == Sent(Source)[n + 1]
             a == Absorb(rx.state, c.m, c.ad, c.tag)
  <2>3. /\ n < Len(Sent(Source))
        /\ tx[Source].status # "none"
        /\ tx[Source].state.key = rx.state.key
        /\ e = [rk |-> rx.state.rk, m |-> c.m, ad |-> c.ad, tag |-> c.tag]
    BY <1>0, <2>1 DEF Genuine, Source, Sent
  <2>4. /\ e \in Entries /\ a \in States
        /\ a.key = rx.state.key /\ a.hdr = Source
        /\ a.log = Append(rx.state.log, e)
    <3>1. LET f == [rk |-> rx.state.rk, m |-> c.m, ad |-> c.ad, tag |-> c.tag]
          IN  /\ f \in Entries /\ a \in States
              /\ a.key = rx.state.key /\ a.hdr = rx.state.hdr
              /\ a.log = Append(rx.state.log, f)
      BY <2>2, AbsorbFacts
    <3>. HIDE DEF e, a
    <3>. QED BY <2>3, <3>1 DEF Source
  <2>5. e.rk = rx.state.rk /\ e.m = c.m /\ e.tag = c.tag
    BY <2>3
  <2>. HIDE DEF e, a
  <2>6. /\ r.stream = [rx EXCEPT !.state = a, !.finalized = @ \/ FromU8(c.tag) = "Final"]
        /\ r.buf = c.m /\ r.tag = FromU8(c.tag)
    BY <2>1 DEF Opened, a
  <2>7. /\ r.stream \in Streams /\ r.stream.status = "live"
        /\ r.stream.state = a
        /\ r.stream.finalized = (FromU8(e.tag) = "Final")
    BY <2>2, <2>4, <2>5, <2>6 DEF Streams
  <2>8. r.stream.state # rx.state
    <3>1. rx.state.log \in Seq(Entries)
      BY <2>2 DEF States
    <3>2. Len(a.log) = Len(rx.state.log) + 1
      BY <2>4, <3>1
    <3>. QED BY <2>7, <3>1, <3>2
  <2>9. got' = Append(got, Seen(e))
    BY <2>5, <2>6, <2>8 DEF Record, Seen
  <2>. QED BY <2>3, <2>4, <2>5, <2>6, <2>7, <2>9 DEF e
<1>. QED BY <1>1, <1>2

\* The invariant is preserved by a call that passed pull_check.
LEMMA PullImplPreserves ==
  ASSUME IndInv, rx.status = "live", ~rx.finalized,
         NEW c \in net \cup Garbage, NEW ad \in OptAds,
         NEW r, r = PullImpl(rx, c, ad), Record(r),
         rx' = r.stream, mbuf' \in {mbuf, r.buf},
         UNCHANGED <<tx, net, cbuf, inits>>
  PROVE  IndInv'
<1>. USE DEF IndInv
<1> DEFINE n == Len(rx.state.log)
           e == Sent(Source)[n + 1]
<1>1. CASE r.stream = rx /\ got' = got /\ r.buf = EmptyMsg
  <2>1. TypeOK'
    BY <1>1, ConstantsAssumption DEF TypeOK
  <2>2. TxWellFormed' /\ FinalIsLast' /\ \A d \in net' \cup {cbuf'} : Genuine(d)'
    BY DEF TxWellFormed, FinalIsLast, Genuine, Sent
  <2>3. RxFollows'
    <3>1. rx' = rx /\ got' = got /\ tx' = tx
      BY <1>1
    <3>. QED BY <3>1 DEF RxFollows, Sent, Source, Seen
  <2>. QED BY <2>1, <2>2, <2>3
<1>2. CASE /\ n < Len(Sent(Source))
           /\ e \in Entries
           /\ tx[Source].status # "none"
           /\ tx[Source].state.key = rx.state.key
           /\ r.stream \in Streams
           /\ r.stream.status = "live"
           /\ r.stream.state.key = rx.state.key
           /\ r.stream.state.hdr = Source
           /\ r.stream.state.log = Append(rx.state.log, e)
           /\ r.stream.finalized = (FromU8(e.tag) = "Final")
           /\ r.buf = e.m
           /\ got' = Append(got, Seen(e))
  <2>0. /\ Source \in Headers /\ got \in Seq(Yields)
        /\ rx.state.log \in Seq(Entries) /\ Sent(Source) \in Seq(Entries)
    <3>1. Source \in Headers /\ got \in Seq(Yields)
      BY DEF RxFollows, TypeOK
    <3>2. rx.state \in States /\ tx[Source].state \in States
      BY <3>1 DEF TypeOK, Streams
    <3>. QED BY <3>1, <3>2 DEF States, Sent
  <2>1. Seen(e) \in Yields
    <3>1. e.m \in Messages /\ FromU8(e.tag) \in Tags \cup {"Err"}
      BY <1>2, FromU8Type DEF Entries
    <3>. QED BY <3>1, ConstantsAssumption DEF Seen, Yield, Yields
  <2>2. TypeOK'
    <3>1. got' \in Seq(Yields)
      BY <1>2, <2>0, <2>1
    <3>2. mbuf' \in Messages
      BY <1>2 DEF TypeOK, Entries
    <3>. QED BY <1>2, <3>1, <3>2 DEF TypeOK
  <2>3. TxWellFormed' /\ FinalIsLast' /\ \A d \in net' \cup {cbuf'} : Genuine(d)'
    BY DEF TxWellFormed, FinalIsLast, Genuine, Sent
  <2>4. Source' = Source /\ Sent(Source)' = Sent(Source) /\ tx'[Source'] = tx[Source]
    BY <1>2 DEF Source, Sent
  <2>. HIDE DEF e
  <2>5. PrefixOf(rx.state.log, Sent(Source))
    BY DEF RxFollows
  <2>6. PrefixOf(rx'.state.log, Sent(Source))
    BY <1>2, <2>0, <2>5, PrefixFacts DEF e
  <2>7. /\ Len(rx'.state.log) = n + 1
        /\ rx'.state.log[n + 1] = e
        /\ \A i \in 1..n : rx'.state.log[i] = rx.state.log[i]
    BY <1>2, <2>0
  <2>8. Len(got) = n /\ \A i \in 1..n : got[i] = Seen(rx.state.log[i])
    BY DEF RxFollows
  <2>9. /\ Len(got') = n + 1
        /\ got'[n + 1] = Seen(e)
        /\ \A i \in 1..n : got'[i] = got[i]
    BY <1>2, <2>0, <2>8
  <2>10. \A i \in 1..Len(got') : got'[i] = Seen(rx'.state.log[i])
    <3>. SUFFICES ASSUME NEW i \in 1..(n + 1) PROVE got'[i] = Seen(rx'.state.log[i])
      BY <2>9
    <3>1. CASE i = n + 1
      BY <2>7, <2>9, <3>1
    <3>2. CASE i # n + 1
      <4>1. i \in 1..n
        BY <2>0, <3>2
      <4>. QED BY <2>7, <2>8, <2>9, <4>1
    <3>. QED BY <3>1, <3>2
  <2>11. rx'.state.log # << >>
    BY <2>0, <2>7
  <2>12. rx'.finalized => FromU8(rx'.state.log[Len(rx'.state.log)].tag) = "Final"
    BY <1>2, <2>7
  <2>13. RxFollows'
    <3>1. rx'.status = "live" /\ Source' \in Headers
      BY <1>2, <2>0, <2>4
    <3>2. tx'[Source'].status # "none" /\ tx'[Source'].state.key = rx'.state.key
      BY <1>2, <2>4
    <3>. QED BY <2>4, <2>6, <2>7, <2>9, <2>10, <2>11, <2>12, <3>1, <3>2
         DEF RxFollows, Seen
  <2>. QED BY <2>2, <2>3, <2>13
<1>. QED BY <1>1, <1>2, PullImplFacts

\* Every operation of the pulling program preserves the invariant.
LEMMA PullNextPreserves ==
  ASSUME IndInv, PullNext
  PROVE  IndInv'
<1>s. ASSUME UNCHANGED <<tx, net, cbuf, rx, got, mbuf>>, inits' \in Nat PROVE IndInv'
  BY <1>s DEF IndInv, TypeOK, TxWellFormed, FinalIsLast, Genuine, RxFollows,
              Sent, Source, Seen, NoStream
<1>1. ASSUME NEW h \in Headers, NEW k \in Keys, InitPull(h, k) PROVE IndInv'
  <2>1. inits' \in Nat /\ UNCHANGED <<tx, net, cbuf, mbuf>>
    BY <1>1 DEF InitPull, IndInv, TypeOK
  <2>2. CASE rx' = NewStream(k, h) /\ got' = << >>
    <3>1. /\ rx' \in Streams /\ rx'.status = "live" /\ ~rx'.finalized
          /\ rx'.state.hdr = h /\ rx'.state.log = << >>
      BY <2>2, NewStreamType
    <3>2. TypeOK'
      BY <2>1, <2>2, <3>1 DEF IndInv, TypeOK
    <3>3. TxWellFormed' /\ FinalIsLast' /\ \A d \in net' \cup {cbuf'} : Genuine(d)'
      BY <2>1 DEF IndInv, TxWellFormed, FinalIsLast, Genuine, Sent
    <3>4. tx[h].state.log \in Seq(Entries)
      <4>1. tx[h].state \in States
        BY DEF IndInv, TypeOK, Streams
      <4>. QED BY <4>1 DEF States
    <3>5. PrefixOf(rx'.state.log, tx[h].state.log)
      BY <3>1, <3>4 DEF PrefixOf
    <3>6. RxFollows'
      BY <2>1, <2>2, <3>1, <3>5 DEF RxFollows, Source, Sent
    <3>. QED BY <3>2, <3>3, <3>6 DEF IndInv
  <2>3. CASE UNCHANGED <<rx, got>>
    BY <1>s, <2>1, <2>3
  <2>. QED BY <1>1, <2>2, <2>3 DEF InitPull
<1>2. ASSUME NEW c \in net \cup Garbage, NEW ad \in OptAds,
             Pull(c, ad) \/ PullToVec(c, ad)
      PROVE  IndInv'
  <2>1. CASE PullCheckOk(rx, c)
    <3>1. PICK r : r = PullImpl(rx, c, ad)
      OBVIOUS
    <3>2. /\ rx.status = "live" /\ ~rx.finalized /\ Record(r) /\ rx' = r.stream
          /\ mbuf' \in {mbuf, r.buf} /\ UNCHANGED <<tx, net, cbuf, inits>>
      BY <1>2, <2>1, <3>1 DEF Pull, PullToVec, PullCheckOk
    <3>. QED BY <3>1, <3>2, PullImplPreserves
  <2>2. CASE ~PullCheckOk(rx, c)
    <3>1. UNCHANGED <<tx, net, cbuf, rx, got, mbuf, inits>>
      BY <1>2, <2>2 DEF Pull, PullToVec
    <3>. QED BY <1>s, <3>1 DEF IndInv, TypeOK
  <2>. QED BY <2>1, <2>2
<1>3. ASSUME RekeyPull PROVE IndInv'
  <2>1. PICK t : t = Rekeyed(rx)
    OBVIOUS
  <2>2. /\ t \in Streams /\ t.status = rx.status /\ t.finalized = rx.finalized
        /\ t.state.key = rx.state.key /\ t.state.hdr = rx.state.hdr
        /\ t.state.log = rx.state.log
    BY <2>1, RekeyedFacts DEF IndInv, TypeOK
  <2>3. rx' = t /\ rx.status = "live" /\ UNCHANGED <<tx, net, cbuf, got, mbuf, inits>>
    BY <1>3, <2>1 DEF RekeyPull
  <2>4. TypeOK'
    BY <2>2, <2>3 DEF IndInv, TypeOK
  <2>5. TxWellFormed' /\ FinalIsLast' /\ \A d \in net' \cup {cbuf'} : Genuine(d)'
    BY <2>3 DEF IndInv, TxWellFormed, FinalIsLast, Genuine, Sent
  <2>6. RxFollows'
    BY <2>2, <2>3 DEF IndInv, RxFollows, Sent, Source, Seen
  <2>. QED BY <2>4, <2>5, <2>6 DEF IndInv
<1>. QED BY <1>1, <1>2, <1>3 DEF PullNext, PullAny, UsedAds, OptAds

LEMMA InitEstablishes == Init => IndInv
<1>. SUFFICES ASSUME Init PROVE IndInv
  OBVIOUS
<1>1. TypeOK
  BY BlankTypes, ConstantsAssumption DEF Init, TypeOK
<1>2. \A h \in Headers : tx[h] = NoStream /\ Sent(h) = << >>
  BY DEF Init, Sent, NoStream, NoState, StateOf
<1>3. TxWellFormed /\ FinalIsLast
  <2>1. NoStream.status = "none"
    BY DEF NoStream
  <2>. QED BY <1>2, <2>1 DEF TxWellFormed, FinalIsLast
<1>4. \A c \in net \cup {cbuf} : Genuine(c)
  BY DEF Init, Genuine, EmptyVec, Noise
<1>5. RxFollows
  <2>1. rx = NoStream /\ got = << >>
    BY DEF Init
  <2>2. rx.status # "live"
    BY <2>1 DEF NoStream
  <2>. QED BY <2>1, <2>2 DEF RxFollows
<1>. QED BY <1>1, <1>3, <1>4, <1>5 DEF IndInv

LEMMA NextPreserves == IndInv /\ [Next]_vars => IndInv'
<1>. SUFFICES ASSUME IndInv, [Next]_vars PROVE IndInv'
  OBVIOUS
<1>1. CASE PushNext
  BY <1>1, PushNextPreserves
<1>2. CASE PullNext
  BY <1>2, PullNextPreserves
<1>3. CASE Transmit \/ UNCHANGED vars
  <2>1. /\ net' \subseteq net \cup {cbuf} /\ cbuf' = cbuf
        /\ UNCHANGED <<tx, rx, got, mbuf, inits>>
    BY <1>3 DEF Transmit, vars
  <2>2. TypeOK'
    BY <2>1 DEF IndInv, TypeOK
  <2>3. TxWellFormed' /\ FinalIsLast' /\ \A d \in net' \cup {cbuf'} : Genuine(d)'
    BY <2>1 DEF IndInv, TxWellFormed, FinalIsLast, Genuine, Sent
  <2>4. RxFollows'
    BY <2>1 DEF IndInv, RxFollows, Sent, Source, Seen
  <2>. QED BY <2>2, <2>3, <2>4 DEF IndInv
<1>. QED BY <1>1, <1>2, <1>3 DEF Next

(***************************************************************************)
(* The theorems                                                            *)
(***************************************************************************)

\* The invariant holds in every reachable state: whatever order datagrams
\* arrive in and whichever calls fail, the transcripts of the two ends of a
\* stream and all ciphertexts between them agree.
THEOREM IndInvHolds == Spec => []IndInv
<1>1. Init => IndInv
  BY InitEstablishes
<1>2. IndInv /\ [Next]_vars => IndInv'
  BY NextPreserves
<1>. QED BY <1>1, <1>2, PTL DEF Spec

\* The variables keep their types.
THEOREM TypeCorrect == Spec => []TypeOK
<1>1. IndInv => TypeOK
  BY DEF IndInv
<1>. QED BY <1>1, IndInvHolds, PTL

\* `pull` yields the messages of the stream in the order of the pushes, each
\* once, from the first on.
THEOREM DeliveryInOrder == Spec => []InOrderDelivery
<1>1. IndInv => InOrderDelivery
  <2>. SUFFICES ASSUME IndInv, Attached PROVE
         /\ Len(got) <= Len(Sent(Source))
         /\ \A i \in 1..Len(got) : got[i] = Seen(Sent(Source)[i])
    BY DEF InOrderDelivery
  <2>1. /\ Len(got) = Len(rx.state.log)
        /\ \A i \in 1..Len(got) : got[i] = Seen(rx.state.log[i])
        /\ PrefixOf(rx.state.log, Sent(Source))
    BY DEF IndInv, RxFollows, Attached
  <2>. QED BY <2>1 DEF PrefixOf
<1>. QED BY <1>1, IndInvHolds, PTL

\* A puller that reports the end of the stream has pulled all of it.
THEOREM NotTruncated == Spec => []NoTruncation
<1>1. IndInv => NoTruncation
  <2>. SUFFICES ASSUME IndInv, Attached, rx.finalized PROVE
         /\ Len(got) = Len(Sent(Source))
         /\ tx[Source].finalized
         /\ got # << >> /\ got[Len(got)].tag = "Final"
    BY DEF NoTruncation
  <2> DEFINE n == Len(rx.state.log)
  <2>1. /\ Source \in Headers
        /\ Len(got) = n
        /\ \A i \in 1..n : got[i] = Seen(rx.state.log[i])
        /\ PrefixOf(rx.state.log, Sent(Source))
        /\ rx.state.log # << >> /\ FromU8(rx.state.log[n].tag) = "Final"
    BY DEF IndInv, RxFollows, Attached
  <2>2. rx.state.log \in Seq(Entries) /\ got \in Seq(Yields)
    <3>1. rx.state \in States /\ got \in Seq(Yields)
      BY DEF IndInv, TypeOK, Streams
    <3>. QED BY <3>1 DEF States
  <2>3. n \in 1..n
    BY <2>1, <2>2
  <2>4. n \in 1..Len(Sent(Source)) /\ FromU8(Sent(Source)[n].tag) = "Final"
    <3>1. Sent(Source) \in Seq(Entries)
      <4>1. tx[Source].state \in States
        BY <2>1 DEF IndInv, TypeOK, Streams
      <4>. QED BY <4>1 DEF States, Sent
    <3>. QED BY <2>1, <2>2, <2>3, <3>1 DEF PrefixOf
  <2>5. n = Len(Sent(Source)) /\ tx[Source].finalized
    BY <2>1, <2>4 DEF IndInv, FinalIsLast
  <2>6. got[n].tag = "Final" /\ got # << >>
    <3>1. Seen(rx.state.log[n]).tag = "Final"
      BY <2>1 DEF Seen, Yield
    <3>2. got[n] = Seen(rx.state.log[n])
      BY <2>1, <2>3
    <3>3. n # 0 /\ Len(got) = n
      BY <2>1, <2>2, <2>3
    <3>. QED BY <3>1, <3>2, <3>3
  <2>. QED BY <2>1, <2>5, <2>6
<1>. QED BY <1>1, IndInvHolds, PTL

\* Nothing follows a `Final` message in a stream.
THEOREM FinalLast == Spec => []FinalIsLast
<1>1. IndInv => FinalIsLast
  BY DEF IndInv
<1>. QED BY <1>1, IndInvHolds, PTL

\* The buffer of `pull_to_vec` never shows unauthenticated bytes.
THEOREM BufferIsAuthentic == Spec => BufferAuthentic
<1> DEFINE Safe == \/ mbuf' \in {mbuf, EmptyMsg}
                   \/ /\ Len(rx'.state.log) = Len(rx.state.log) + 1
                      /\ mbuf' = rx'.state.log[Len(rx'.state.log)].m
<1>1. ASSUME IndInv, [Next]_vars PROVE [Safe]_vars
  <2>1. CASE PushNext
    <3>1. mbuf' = mbuf
      BY <2>1, <1>1, PushNextContinues DEF PusherMoves, vars
    <3>. QED BY <3>1
  <2>2. ASSUME NEW c \in net \cup Garbage, NEW ad \in OptAds,
               Pull(c, ad) \/ PullToVec(c, ad)
        PROVE  Safe
    <3>1. CASE Pull(c, ad) \/ ~PullCheckOk(rx, c)
      BY <2>2, <3>1 DEF Pull, PullToVec
    <3>2. CASE PullToVec(c, ad) /\ PullCheckOk(rx, c)
      <4>1. PICK r : r = PullImpl(rx, c, ad)
        OBVIOUS
      <4>2. /\ rx.status = "live" /\ ~rx.finalized /\ Record(r)
            /\ rx' = r.stream /\ mbuf' = r.buf
        BY <3>2, <4>1 DEF PullToVec, PullCheckOk
      <4>3. \/ r.buf = EmptyMsg
            \/ \E e \in Entries : /\ r.stream.state.log = Append(rx.state.log, e)
                                  /\ r.buf = e.m
        BY <1>1, <4>1, <4>2, PullImplFacts
      <4>4. rx.state.log \in Seq(Entries)
        <5>1. rx.state \in States
          BY <1>1 DEF IndInv, TypeOK, Streams
        <5>. QED BY <5>1 DEF States
      <4>5. CASE r.buf = EmptyMsg
        BY <4>2, <4>5
      <4>6. ASSUME NEW e \in Entries, r.buf = e.m,
                   r.stream.state.log = Append(rx.state.log, e)
            PROVE  Safe
        BY <4>2, <4>4, <4>6
      <4>. QED BY <4>3, <4>5, <4>6
    <3>. QED BY <2>2, <3>1, <3>2
  <2>3. CASE Transmit \/ UNCHANGED vars \/ RekeyPull
             \/ \E h \in Headers, k \in Keys : InitPull(h, k)
    BY <2>3 DEF Transmit, vars, RekeyPull, InitPull
  <2>. QED BY <1>1, <2>1, <2>2, <2>3 DEF Next, PullNext, PullAny, UsedAds, OptAds
<1>. QED BY <1>1, IndInvHolds, PTL DEF Spec, BufferAuthentic

\* A puller that is out of step, or has the wrong key, yields nothing more
\* and never reports the end of the stream.
THEOREM AstrayForGood == Spec => AstrayStaysAstray
<1> DEFINE Stuck == Astray /\ inits' = inits => Astray' /\ got' = got /\ ~rx'.finalized
<1>1. ASSUME IndInv, [Next]_vars PROVE [Stuck]_vars
  <2>. SUFFICES ASSUME Astray, inits' = inits
                PROVE  Astray' /\ got' = got /\ ~rx'.finalized
    OBVIOUS
  <2> DEFINE n == Len(rx.state.log)
  <2>1. /\ rx.status = "live" /\ Source \in Headers
        /\ n < Len(Sent(Source))
        /\ rx.state.rk > Sent(Source)[n + 1].rk \/ rx.state.key # tx[Source].state.key
    BY <1>1 DEF Astray, Attached, IndInv, RxFollows
  <2>2. /\ rx \in Streams /\ tx[Source] \in Streams
        /\ rx.state.log \in Seq(Entries) /\ Sent(Source) \in Seq(Entries)
        /\ rx.state.rk \in Nat
    <3>1. rx \in Streams /\ tx[Source] \in Streams
      BY <1>1, <2>1 DEF IndInv, TypeOK
    <3>2. rx.state \in States /\ tx[Source].state \in States
      BY <3>1 DEF Streams
    <3>. QED BY <3>1, <3>2 DEF States, Sent
  <2>3. ~rx.finalized
    <3>1. ASSUME rx.finalized PROVE FALSE
      <4>1. /\ rx.state.log # << >> /\ FromU8(rx.state.log[n].tag) = "Final"
            /\ PrefixOf(rx.state.log, Sent(Source))
        BY <1>1, <2>1, <3>1 DEF IndInv, RxFollows
      <4>2. n \in 1..n /\ n \in 1..Len(Sent(Source))
        BY <2>1, <2>2, <4>1
      <4>3. FromU8(Sent(Source)[n].tag) = "Final"
        BY <4>1, <4>2 DEF PrefixOf
      <4>4. n = Len(Sent(Source))
        BY <1>1, <2>1, <4>2, <4>3 DEF IndInv, FinalIsLast
      <4>. QED BY <2>1, <2>2, <4>4
    <3>. QED BY <3>1
  <2>4. CASE UNCHANGED <<tx, rx, got>>
    BY <2>3, <2>4 DEF Astray, Attached, Sent, Source
  <2>5. CASE PushNext
    <3>1. CASE UNCHANGED vars
      BY <2>4, <3>1 DEF vars
    <3>2. ASSUME NEW h \in Headers, NEW t, PusherMoves(h, t)
          PROVE  Astray' /\ got' = got /\ ~rx'.finalized
      <4>1. UNCHANGED <<rx, got>>
        BY <3>2 DEF PusherMoves
      <4>2. CASE Source = h
        <5>1. tx'[Source] = t /\ PrefixOf(Sent(Source), t.state.log)
          BY <1>1, <3>2, <4>2 DEF PusherMoves, Continues, IndInv, TypeOK, Sent
        <5>2. t.state.log \in Seq(Entries)
          <6>1. t.state \in States
            BY <3>2 DEF PusherMoves, Continues, Streams
          <6>. QED BY <6>1 DEF States
        <5>3. n < Len(t.state.log) /\ t.state.log[n + 1] = Sent(Source)[n + 1]
          <6>1. Sent(Source)[n + 1] \in Entries
            BY <2>1, <2>2
          <6>. QED BY <2>1, <2>2, <5>1, <5>2, <6>1, PrefixFacts
        <5>4. tx[Source].status # "none"
          <6>1. ASSUME tx[Source].status = "none" PROVE FALSE
            <7>1. Sent(Source) = << >>
              BY <1>1, <2>1, <6>1
              DEF IndInv, TxWellFormed, Sent, NoStream, NoState, StateOf
            <7>. QED BY <2>1, <2>2, <7>1
          <6>. QED BY <6>1
        <5>5. t.state.key = tx[Source].state.key
          BY <3>2, <4>2, <5>4 DEF PusherMoves, Continues
        <5>6. Source' = Source /\ Sent(Source)' = t.state.log /\ rx' = rx
          BY <4>1, <5>1 DEF Source, Sent
        <5>. QED BY <2>1, <2>3, <4>1, <5>1, <5>3, <5>5, <5>6
             DEF Astray, Attached
      <4>3. CASE Source # h
        <5>1. tx'[Source] = tx[Source]
          BY <1>1, <2>1, <3>2, <4>3 DEF PusherMoves, IndInv, TypeOK
        <5>. QED BY <2>3, <4>1, <5>1 DEF Astray, Attached, Sent, Source
      <4>. QED BY <4>2, <4>3
    <3>. QED BY <1>1, <2>5, <3>1, <3>2, PushNextContinues
  <2>6. ASSUME NEW c \in net \cup Garbage, NEW ad \in OptAds,
               Pull(c, ad) \/ PullToVec(c, ad)
        PROVE  UNCHANGED <<tx, rx, got>>
    <3>1. CASE ~PullCheckOk(rx, c)
      BY <2>6, <3>1 DEF Pull, PullToVec
    <3>2. CASE PullCheckOk(rx, c)
      <4>1. PICK r : r = PullImpl(rx, c, ad)
        OBVIOUS
      <4>2. Record(r) /\ rx' = r.stream /\ tx' = tx
        BY <2>6, <3>2, <4>1 DEF Pull, PullToVec
      <4>3. \/ r.stream = rx /\ got' = got
            \/ /\ tx[Source].state.key = rx.state.key
               /\ Sent(Source)[n + 1].rk = rx.state.rk
        BY <1>1, <2>1, <2>3, <4>1, <4>2, PullImplFacts
      <4>. QED BY <2>1, <2>2, <4>2, <4>3
    <3>. QED BY <3>1, <3>2
  <2>7. CASE RekeyPull
    <3>1. rx' = [rx EXCEPT !.state = FfiRekey(rx.state)] /\ UNCHANGED <<tx, got>>
      BY <2>3, <2>7 DEF RekeyPull, Rekeyed
    <3>2. /\ rx'.status = rx.status /\ rx'.finalized = rx.finalized
          /\ rx'.state.key = rx.state.key /\ rx'.state.hdr = rx.state.hdr
          /\ rx'.state.log = rx.state.log /\ rx'.state.rk = rx.state.rk + 1
      BY <2>2, <3>1 DEF Streams, States, FfiRekey
    <3>3. Source' = Source /\ Sent(Source)' = Sent(Source)
      BY <3>1, <3>2 DEF Source, Sent
    <3>4. Sent(Source)[n + 1].rk \in Nat
      <4>1. Sent(Source)[n + 1] \in Entries
        BY <2>1, <2>2
      <4>. QED BY <4>1 DEF Entries
    <3>5. \/ rx'.state.rk > Sent(Source)[n + 1].rk
          \/ rx'.state.key # tx[Source].state.key
      BY <2>1, <2>2, <3>2, <3>4
    <3>. QED BY <2>1, <2>3, <3>1, <3>2, <3>3, <3>5 DEF Astray, Attached
  <2>8. CASE \E h \in Headers, k \in Keys : InitPull(h, k)
    BY <1>1, <2>8 DEF InitPull, IndInv, TypeOK
  <2>9. CASE Transmit \/ UNCHANGED vars
    BY <2>4, <2>9 DEF Transmit, vars
  <2>. QED BY <1>1, <2>4, <2>5, <2>6, <2>7, <2>8, <2>9 DEF Next, PullNext, PullAny, UsedAds, OptAds
<1>. QED BY <1>1, IndInvHolds, PTL DEF Spec, AstrayStaysAstray

(***************************************************************************)
(* Refinement of OrderedChannel                                            *)
(***************************************************************************)

\* An entry is seen as an item.
LEMMA SeenType == \A e \in Entries : Seen(e) \in Yields
<1>. SUFFICES ASSUME NEW e \in Entries PROVE Seen(e) \in Yields
  OBVIOUS
<1>1. e.m \in Messages /\ FromU8(e.tag) \in Tags \cup {"Err"}
  BY FromU8Type DEF Entries
<1>. QED BY <1>1, ConstantsAssumption DEF Seen, Yield, Yields

\* The items of a transcript that grows by an entry grow by its item.
LEMMA ItemsOfFacts ==
  ASSUME NEW log \in Seq(Entries), NEW e \in Entries
  PROVE  /\ ItemsOf(log) \in Seq(Yields) /\ Len(ItemsOf(log)) = Len(log)
         /\ \A i \in 1..Len(log) : ItemsOf(log)[i] = Seen(log[i])
         /\ ItemsOf(Append(log, e)) = Append(ItemsOf(log), Seen(e))
<1>1. \A i \in 1..Len(log) : Seen(log[i]) \in Yields
  BY SeenType
<1>2. Len(log) \in Nat /\ ItemsOf(log) \in [1..Len(log) -> Yields]
  BY <1>1 DEF ItemsOf
<1>3. ItemsOf(log) \in Seq(Yields) /\ Len(ItemsOf(log)) = Len(log)
  BY <1>2
<1>4. \A i \in 1..Len(log) : ItemsOf(log)[i] = Seen(log[i])
  BY DEF ItemsOf
<1>5. /\ Append(log, e) \in Seq(Entries)
      /\ Len(Append(log, e)) = Len(log) + 1
      /\ \A i \in 1..(Len(log) + 1) :
           Append(log, e)[i] = IF i = Len(log) + 1 THEN e ELSE log[i]
  OBVIOUS
<1> DEFINE a == ItemsOf(Append(log, e))
           b == Append(ItemsOf(log), Seen(e))
<1>6. /\ a \in Seq(Yields) /\ Len(a) = Len(log) + 1
      /\ \A i \in 1..(Len(log) + 1) : a[i] = Seen(Append(log, e)[i])
  <2>1. \A i \in 1..(Len(log) + 1) : Seen(Append(log, e)[i]) \in Yields
    BY <1>5, SeenType
  <2>2. a = [i \in 1..(Len(log) + 1) |-> Seen(Append(log, e)[i])]
    BY <1>5 DEF ItemsOf
  <2>. HIDE DEF a
  <2>3. a \in [1..(Len(log) + 1) -> Yields]
    BY <2>1, <2>2
  <2>. QED BY <1>2, <2>2, <2>3
<1>7. /\ b \in Seq(Yields) /\ Len(b) = Len(log) + 1
      /\ \A i \in 1..(Len(log) + 1) :
           b[i] = IF i = Len(log) + 1 THEN Seen(e) ELSE ItemsOf(log)[i]
  <2>1. Seen(e) \in Yields
    BY SeenType
  <2>. QED BY <1>3, <2>1
<1>8. \A i \in 1..(Len(log) + 1) : a[i] = b[i]
  <2>. SUFFICES ASSUME NEW i \in 1..(Len(log) + 1) PROVE a[i] = b[i]
    OBVIOUS
  <2>. HIDE DEF a, b
  <2>1. CASE i = Len(log) + 1
    BY <1>5, <1>6, <1>7, <2>1
  <2>2. CASE i # Len(log) + 1
    <3>1. i \in 1..Len(log)
      BY <1>2, <2>2
    <3>. QED BY <1>4, <1>5, <1>6, <1>7, <3>1
  <2>. QED BY <2>1, <2>2
<1>9. a = b
  <2>. HIDE DEF a, b
  <2>. QED BY <1>6, <1>7, <1>8, SeqEqual
<1>. QED BY <1>3, <1>4, <1>9

\* Every run of the streams is a run of the ordered channel: its initial state
\* maps to an initial state and each step to a step or to none.
THEOREM RefinesChannel == Spec => ImplementsChannel
<1> DEFINE Flow == [h \in Headers |-> ItemsOf(Sent(h))]
           Fin  == {y \in Yields : y.tag = "Final"}
<1>1. Init => Channel!Init
  <2>. SUFFICES ASSUME Init PROVE Channel!Init
    OBVIOUS
  <2>1. \A h \in Headers : ItemsOf(Sent(h)) = << >>
    BY DEF Init, Sent, NoStream, NoState, StateOf, ItemsOf
  <2>2. rx = NoStream /\ got = << >>
    BY DEF Init
  <2>3. rx.state.hdr = Null /\ rx.finalized = FALSE
    BY <2>2 DEF NoStream, NoState, StateOf
  <2>. QED BY <2>1, <2>2, <2>3 DEF Channel!Init, Source
<1>2. ASSUME IndInv, [Next]_vars
      PROVE  Channel!Next \/ (Flow' = Flow /\ Source' = Source /\ got' = got
                              /\ rx'.finalized = rx.finalized)
  <2> DEFINE Stutter == Flow' = Flow /\ Source' = Source /\ got' = got
                        /\ rx'.finalized = rx.finalized
  <2>1. CASE UNCHANGED <<tx, rx, got>>
    BY <2>1 DEF Sent, Source
  <2>2. CASE PushNext
    <3>1. CASE UNCHANGED vars
      BY <2>1, <3>1 DEF vars
    <3>2. ASSUME NEW h \in Headers, NEW t, PusherMoves(h, t)
          PROVE  Channel!Next \/ Stutter
      <4>1. /\ tx'[h] = t /\ \A g \in Headers : g # h => tx'[g] = tx[g]
            /\ UNCHANGED <<rx, got>>
        BY <1>2, <3>2 DEF PusherMoves, IndInv, TypeOK
      <4>2. tx[h].state.log \in Seq(Entries)
        <5>1. tx[h].state \in States
          BY <1>2 DEF IndInv, TypeOK, Streams
        <5>. QED BY <5>1 DEF States
      <4>3. CASE t.state.log = tx[h].state.log
        <5>1. \A g \in Headers : Sent(g)' = Sent(g)
          BY <4>1, <4>3 DEF Sent
        <5>2. Flow' = Flow
          BY <5>1 DEF ItemsOf, Seen
        <5>. QED BY <4>1, <5>2 DEF Source
      <4>4. ASSUME ~tx[h].finalized, NEW e \in Entries,
                   t.state.log = Append(tx[h].state.log, e)
            PROVE  Channel!Next
        <5>1. /\ Flow[h] \in Seq(Yields)
              /\ Len(Flow[h]) = Len(Sent(h))
              /\ \A i \in 1..Len(Sent(h)) : Flow[h][i] = Seen(Sent(h)[i])
              /\ ItemsOf(Append(Sent(h), e)) = Append(Flow[h], Seen(e))
          BY <4>2, ItemsOfFacts DEF Sent
        <5>2. Flow' = [Flow EXCEPT ![h] = Append(Flow[h], Seen(e))]
          <6>1. Sent(h)' = Append(Sent(h), e) /\ \A g \in Headers : g # h => Sent(g)' = Sent(g)
            BY <4>1, <4>4 DEF Sent
          <6>2. \A g \in Headers : ItemsOf(Sent(g))' =
                   IF g = h THEN Append(Flow[h], Seen(e)) ELSE Flow[g]
            BY <5>1, <6>1 DEF ItemsOf, Seen
          <6>. QED BY <6>2
        <5>3. ~Channel!IsClosed(Flow[h])
          <6>1. ASSUME Flow[h] # << >>, Flow[h][Len(Flow[h])] \in Fin PROVE FALSE
            <7> DEFINE n == Len(Sent(h))
            <7>1. n \in 1..n
              BY <4>2, <5>1, <6>1 DEF Sent
            <7>2. Seen(Sent(h)[n]).tag = "Final"
              BY <5>1, <6>1, <7>1
            <7>3. FromU8(Sent(h)[n].tag) = "Final"
              BY <7>2 DEF Seen, Yield
            <7>. QED BY <1>2, <4>4, <7>1, <7>3 DEF IndInv, FinalIsLast
          <6>. QED BY <6>1 DEF Channel!IsClosed
        <5>4. Seen(e) \in Yields
          BY SeenType
        <5>5. Len(Flow'[h]) = Len(Flow[h]) + 1
          BY <5>1, <5>2, <5>4
        <5>6. Channel!Write(h)
          BY <4>1, <5>2, <5>3, <5>4, <5>5 DEF Channel!Write, Source
        <5>. QED BY <5>6 DEF Channel!Next
      <4>. QED BY <3>2, <4>3, <4>4 DEF PusherMoves, Continues
    <3>. QED BY <1>2, <2>2, <3>1, <3>2, PushNextContinues
  <2>3. ASSUME NEW c \in net \cup Garbage, NEW ad \in OptAds,
               Pull(c, ad) \/ PullToVec(c, ad)
        PROVE  Channel!Next \/ Stutter
    <3>1. CASE ~PullCheckOk(rx, c)
      BY <2>1, <2>3, <3>1 DEF Pull, PullToVec
    <3>2. CASE PullCheckOk(rx, c)
      <4>1. PICK r : r = PullImpl(rx, c, ad)
        OBVIOUS
      <4>2. /\ rx.status = "live" /\ ~rx.finalized
            /\ Record(r) /\ rx' = r.stream /\ tx' = tx
        BY <2>3, <3>2, <4>1 DEF Pull, PullToVec, PullCheckOk
      <4>3. CASE r.stream = rx /\ got' = got
        BY <2>1, <4>2, <4>3
      <4> DEFINE n == Len(rx.state.log)
                 e == Sent(Source)[n + 1]
      <4>4. CASE /\ n < Len(Sent(Source))
                 /\ e \in Entries
                 /\ r.stream.state.hdr = Source
                 /\ r.stream.finalized = (FromU8(e.tag) = "Final")
                 /\ got' = Append(got, Seen(e))
        <5>1. Source \in Headers /\ Len(got) = n
          BY <1>2, <4>2 DEF IndInv, RxFollows
        <5>2. Sent(Source) \in Seq(Entries) /\ rx.state.log \in Seq(Entries)
          <6>1. tx[Source].state \in States /\ rx.state \in States
            BY <1>2, <5>1 DEF IndInv, TypeOK, Streams
          <6>. QED BY <6>1 DEF Sent, States
        <5>3. /\ Len(Flow[Source]) = Len(Sent(Source))
              /\ Flow[Source][n + 1] = Seen(e)
          <6>1. n + 1 \in 1..Len(Sent(Source))
            BY <4>4, <5>2
          <6>2. Flow[Source] = ItemsOf(Sent(Source))
            BY <5>1
          <6>3. /\ Len(ItemsOf(Sent(Source))) = Len(Sent(Source))
                /\ \A i \in 1..Len(Sent(Source)) :
                     ItemsOf(Sent(Source))[i] = Seen(Sent(Source)[i])
            BY <4>4, <5>2, ItemsOfFacts
          <6>. HIDE DEF Flow, n
          <6>. QED BY <6>1, <6>2, <6>3
        <5>4. Flow' = Flow /\ Source' = Source
          BY <4>2, <4>4 DEF Sent, Source
        <5>5. (Seen(e) \in Fin) = (FromU8(e.tag) = "Final")
          <6>1. Seen(e) \in Yields
            BY <4>4, SeenType
          <6>2. Seen(e).tag = FromU8(e.tag)
            BY DEF Seen, Yield
          <6>. QED BY <6>1, <6>2
        <5>6. rx'.finalized = (Seen(e) \in Fin)
          BY <4>2, <4>4, <5>5
        <5>. HIDE DEF e
        <5>7. Channel!Take
          BY <4>2, <4>4, <5>1, <5>3, <5>4, <5>6 DEF Channel!Take
        <5>. QED BY <5>7 DEF Channel!Next
      <4>. QED BY <1>2, <4>1, <4>2, <4>3, <4>4, PullImplFacts
    <3>. QED BY <3>1, <3>2
  <2>4. CASE RekeyPull
    <3>1. /\ rx'.finalized = rx.finalized /\ rx'.state.hdr = rx.state.hdr
      BY <1>2, <2>4, RekeyedFacts DEF RekeyPull, IndInv, TypeOK
    <3>2. UNCHANGED <<tx, got>>
      BY <2>4 DEF RekeyPull
    <3>. QED BY <3>1, <3>2 DEF Sent, Source
  <2>5. ASSUME NEW h \in Headers, NEW k \in Keys, InitPull(h, k)
        PROVE  Channel!Next \/ Stutter
    <3>1. tx' = tx
      BY <2>5 DEF InitPull
    <3>2. CASE rx' = NewStream(k, h) /\ got' = << >>
      <4>1. Source' = h /\ rx'.finalized = FALSE
        BY <3>2 DEF Source, NewStream, StateOf
      <4>2. Channel!Attach(h)
        BY <3>1, <3>2, <4>1 DEF Channel!Attach, Sent
      <4>. QED BY <4>2 DEF Channel!Next
    <3>3. CASE UNCHANGED <<rx, got>>
      BY <2>1, <3>1, <3>3
    <3>. QED BY <2>5, <3>2, <3>3 DEF InitPull
  <2>6. CASE Transmit \/ UNCHANGED vars
    BY <2>1, <2>6 DEF Transmit, vars
  <2>. QED BY <1>2, <2>2, <2>3, <2>4, <2>5, <2>6 DEF Next, PullNext, PullAny, UsedAds, OptAds
<1>3. IndInv /\ [Next]_vars => [Channel!Next]_(Channel!vars)
  BY <1>2 DEF Channel!vars
<1>. QED BY <1>1, <1>3, IndInvHolds, PTL DEF Spec, ImplementsChannel, Channel!Spec
=============================================================================
