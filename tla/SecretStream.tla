---------------------------- MODULE SecretStream ----------------------------
(***************************************************************************)
(* `crypto::secretstream` (src/src/crypto/secretstream): a pushing program *)
(* with one `Stream<Push>` per header, an unreliable network, and a        *)
(* pulling program with one `Stream<Pull>`, which it may create anew.      *)
(*                                                                         *)
(* libsodium is external.  Its stream state is modelled by the transcript  *)
(* it has absorbed: the key, the header, the messages so far and the       *)
(* explicit rekeys since the last one.  Two states agree exactly when the  *)
(* transcripts do, so a ciphertext opens only in the state that sealed it. *)
(***************************************************************************)
EXTENDS Integers, Sequences

CONSTANTS
  Keys, Headers, Messages, Ads,
  EmptyMsg,          \* the message of no bytes
  EmptyAd,           \* additional data of no bytes
  Null,              \* `None`, and the fields of a stream that does not exist
  MLen,              \* MLen[m]: the length of message m
  ABYTES, MESSAGEBYTES_MAX,
  ForeignBytes,      \* tag bytes that only a non-Rust libsodium peer pushes
  GarbageLens,       \* lengths of the datagrams that nobody sealed
  Programs,          \* pairs of programs: the sets of keys, headers, messages,
                     \* additional data, tags and further calls that they use
                     \* and of the calls of libsodium that may fail in them
  MaxLog,            \* bound on the messages of a stream
  MaxRekeys,         \* bound on the explicit rekeys between two messages
  MaxInits           \* bound on the calls of `init_pull`

Tags == {"Message", "Push", "Rekey", "Final"}

ASSUME ConstantsAssumption ==
  /\ Null \notin Keys \cup Headers \cup Ads
  /\ EmptyMsg \in Messages /\ EmptyAd \in Ads
  /\ MLen \in [Messages -> Nat] /\ MLen[EmptyMsg] = 0
  /\ ABYTES \in Nat \ {0} /\ MESSAGEBYTES_MAX \in Nat
  /\ ForeignBytes \subseteq 4..255
  /\ GarbageLens \subseteq Nat
  /\ {MaxLog, MaxRekeys, MaxInits} \subseteq Nat

VARIABLES
  uses,     \* what the two programs use: one of Programs
  tx,       \* tx[h]: the Stream<Push> whose header is h
  net,      \* the datagrams that were sent and may still arrive, again and
            \* again, in any order or never
  cbuf,     \* the Vec the pusher passes to `push_to_vec` each time
  rx,       \* the Stream<Pull>
  got,      \* what the calls of `pull` yielded since rx was created
  mbuf,     \* the Vec the puller passes to `pull_to_vec` each time
  inits     \* the number of calls of `init_pull`

vars == <<uses, tx, net, cbuf, rx, got, mbuf, inits>>

-----------------------------------------------------------------------------
(* Tags                                                                    *)

TAG_MESSAGE == 0
TAG_PUSH    == 1
TAG_REKEY   == 2
TAG_FINAL   == 3

\* `tag as u8`: the discriminant of the enum's variant.
AsU8 == [t \in Tags |-> CASE t = "Message" -> 0 [] t = "Push"  -> 1
                          [] t = "Rekey"   -> 2 [] t = "Final" -> 3]

FromU8(b) ==
  CASE b = TAG_MESSAGE -> "Message"
    [] b = TAG_PUSH    -> "Push"
    [] b = TAG_REKEY   -> "Rekey"
    [] b = TAG_FINAL   -> "Final"
    [] OTHER           -> "Err"

Bytes == 0..255

-----------------------------------------------------------------------------
(* libsodium's stream (external)                                           *)

Entries    == [rk : Nat, m : Messages, ad : Ads, tag : Bytes]
StateOf(k, h) == [key |-> k, hdr |-> h, log |-> << >>, rk |-> 0]
NoState    == StateOf(Null, Null)
States     == [key : Keys \cup {Null}, hdr : Headers \cup {Null},
               log : Seq(Entries), rk : Nat]

\* The state after the message m has been pushed or pulled.
Absorb(st, m, ad, tag) ==
  [key |-> st.key, hdr |-> st.hdr, rk |-> 0,
   log |-> Append(st.log, [rk |-> st.rk, m |-> m, ad |-> ad, tag |-> tag])]

FfiRekey(st) == [st EXCEPT !.rk = @ + 1]

\* The ciphertext of m in state st.
Seal(st, m, ad, tag) ==
  [kind |-> "sealed", len |-> MLen[m] + ABYTES,
   state |-> st, m |-> m, ad |-> ad, tag |-> tag]

\* Bytes that no push produced: truncated, altered or invented on the way.
Noise(n)  == [kind |-> "noise", len |-> n]
Garbage   == {Noise(n) : n \in GarbageLens}
EmptyVec  == Noise(0)

Sealed    == [kind : {"sealed"}, len : Nat, state : States,
              m : Messages, ad : Ads, tag : Bytes]
Datagrams == Sealed \cup [kind : {"noise"}, len : Nat]

Accepts(st, c, ad) == /\ c.kind = "sealed"
                      /\ c.state = st
                      /\ c.ad = ad

-----------------------------------------------------------------------------
(* Streams                                                                 *)

NoStream == [status |-> "none", state |-> NoState, finalized |-> FALSE]
NewStream(k, h) ==
  [status |-> "live", state |-> StateOf(k, h), finalized |-> FALSE]
Streams == [status : {"none", "live", "gone"}, state : States,
            finalized : BOOLEAN]

\* `None` and an empty slice reach libsodium alike, as zero bytes.
AdBytes(ad) == IF ad = Null THEN EmptyAd ELSE ad

\* The outcome of `rekey`: refused on a finalized stream.
Rekeyed(s) == IF s.finalized THEN s ELSE [s EXCEPT !.state = FfiRekey(@)]

Init ==
  /\ uses  \in Programs
  /\ tx    = [h \in Headers |-> NoStream]
  /\ net   = {}
  /\ cbuf  = EmptyVec
  /\ rx    = NoStream
  /\ got   = << >>
  /\ mbuf  = EmptyMsg
  /\ inits = 0

-----------------------------------------------------------------------------
(* The pushing program                                                     *)

\* The call of libsodium may return a nonzero code.
MayFail(f) == f \in uses

\* `init_push` draws a header no other stream has.
InitPush(h, k) ==
  /\ tx[h].status = "none"
  /\ \/ tx' = [tx EXCEPT ![h] = NewStream(k, h)]
     \/ MayFail("init_push") /\ UNCHANGED tx
  /\ UNCHANGED <<uses, net, cbuf, rx, got, mbuf, inits>>

\* Fault: `push_check` does not look at `finalized`.
PushCheckOk_IgnoresFinalized(s, m) == MLen[m] <= MESSAGEBYTES_MAX

\* `push_check` lets the message through ...
PushCheckOk(s, m) == ~s.finalized /\ MLen[m] <= MESSAGEBYTES_MAX

\* Fault: the flag is never set on the pushing side.
PushChecked_NoFlag(s, tag) == s

\* ... and has then already closed the stream, before libsodium is called.
PushChecked(s, tag) == [s EXCEPT !.finalized = @ \/ tag = "Final"]

\* The possible outcomes of `push_check` followed by `push_impl`: the stream
\* after the call, whether `push_check` passed, and the ciphertext.
PushOutcomes(s, m, ad, tag) ==
  IF PushCheckOk(s, m)
  THEN LET t    == PushChecked(s, tag)
           b    == AsU8[tag]
           done == [t EXCEPT !.state = Absorb(@, m, AdBytes(ad), b)]
       IN  {[stream |-> done, checked |-> TRUE, ok |-> TRUE,
             c |-> Seal(t.state, m, AdBytes(ad), b)]}
           \cup {[stream |-> t, checked |-> TRUE, ok |-> FALSE, c |-> EmptyVec]
                   : f \in {"push"} \cap uses}
  ELSE {[stream |-> s, checked |-> FALSE, ok |-> FALSE, c |-> EmptyVec]}

\* What is sent when a call returned r.
Send(r) == net' = IF r.ok THEN net \cup {r.c} ELSE net

HasRoom(h) == tx[h].status = "live" /\ Len(tx[h].state.log) < MaxLog

\* `push`, and the program sends the ciphertext it returns.
Push(h, m, ad, tag) ==
  /\ HasRoom(h)
  /\ \E r \in PushOutcomes(tx[h], m, ad, tag) :
       /\ tx' = [tx EXCEPT ![h] = r.stream]
       /\ Send(r)
  /\ UNCHANGED <<uses, cbuf, rx, got, mbuf, inits>>

\* `push_to_vec` clears the recycled Vec once `push_check` has passed.
PushToVec(h, m, ad, tag) ==
  /\ HasRoom(h)
  /\ \E r \in PushOutcomes(tx[h], m, ad, tag) :
       /\ tx'   = [tx EXCEPT ![h] = r.stream]
       /\ cbuf' = IF r.checked THEN r.c ELSE cbuf
  /\ UNCHANGED <<uses, net, rx, got, mbuf, inits>>

\* The program sends what the Vec holds, also when the last call failed.
Transmit ==
  /\ net' = net \cup {cbuf}
  /\ UNCHANGED <<uses, tx, cbuf, rx, got, mbuf, inits>>

\* `finalize` consumes the stream, whatever `push` returns.
Finalize(h, ad) ==
  /\ HasRoom(h)
  /\ \E r \in PushOutcomes(tx[h], EmptyMsg, ad, "Final") :
       /\ tx' = [tx EXCEPT ![h] = [r.stream EXCEPT !.status = "gone"]]
       /\ Send(r)
  /\ UNCHANGED <<uses, cbuf, rx, got, mbuf, inits>>

RekeyPush(h) ==
  /\ "rekey" \in uses
  /\ tx[h].status = "live"
  /\ tx[h].state.rk < MaxRekeys
  /\ tx' = [tx EXCEPT ![h] = Rekeyed(@)]
  /\ UNCHANGED <<uses, net, cbuf, rx, got, mbuf, inits>>

\* A peer written against libsodium itself pushes a tag byte that is no `Tag`.
ForeignPush(h, m, b) ==
  /\ "foreign" \in uses
  /\ HasRoom(h)
  /\ PushCheckOk(tx[h], m)
  /\ net' = net \cup {Seal(tx[h].state, m, EmptyAd, b)}
  /\ tx'  = [tx EXCEPT ![h].state = Absorb(@, m, EmptyAd, b)]
  /\ UNCHANGED <<uses, cbuf, rx, got, mbuf, inits>>

-----------------------------------------------------------------------------
(* The pulling program                                                     *)

\* `init_pull` with any header and any key; a program may call it again and
\* replace its stream.
InitPull(h, k) ==
  /\ inits < MaxInits
  /\ rx.status = "none" \/ "restart" \in uses
  /\ inits' = inits + 1
  /\ \/ rx' = NewStream(k, h) /\ got' = << >>
     \/ MayFail("init_pull") /\ UNCHANGED <<rx, got>>
  /\ UNCHANGED <<uses, tx, net, cbuf, mbuf>>

\* Fault: an empty message, exactly ABYTES long, is taken for too short.
PullCheckOk_OffByOne(s, c) == /\ ~s.finalized
                              /\ c.len > ABYTES
                              /\ c.len - ABYTES <= MESSAGEBYTES_MAX

PullCheckOk(s, c) == /\ ~s.finalized
                     /\ c.len >= ABYTES
                     /\ c.len - ABYTES <= MESSAGEBYTES_MAX

\* The effect of a ciphertext that libsodium accepted.
Opened(s, c) ==
  [stream |-> [s EXCEPT !.state = Absorb(@, c.m, c.ad, c.tag),
                        !.finalized = @ \/ FromU8(c.tag) = "Final"],
   buf |-> c.m, tag |-> FromU8(c.tag)]

\* Fault: the return code is not looked at; the tag is still the 0 it was
\* initialized to.
PullImpl_IgnoresRc(s, c, ad) ==
  IF Accepts(s.state, c, AdBytes(ad)) THEN Opened(s, c)
  ELSE [stream |-> s, buf |-> EmptyMsg, tag |-> FromU8(0)]

\* Fault: `set_len` comes before the return code is looked at.
PullImpl_EarlySetLen(s, c, ad) ==
  IF Accepts(s.state, c, AdBytes(ad)) THEN Opened(s, c)
  ELSE [stream |-> s, buf |-> IF c.kind = "noise" THEN EmptyMsg ELSE c.m, tag |-> "Err"]

\* Fault: a `Final` tag does not finalize the pulling stream.
PullImpl_NeverFinal(s, c, ad) ==
  IF Accepts(s.state, c, AdBytes(ad))
  THEN [Opened(s, c) EXCEPT !.stream.finalized = FALSE]
  ELSE [stream |-> s, buf |-> EmptyMsg, tag |-> "Err"]

\* `pull_impl`: the stream, the filled buffer and the result.  An unknown tag
\* byte is an error only after libsodium has advanced and filled the buffer.
PullImpl(s, c, ad) ==
  IF Accepts(s.state, c, AdBytes(ad)) THEN Opened(s, c)
  ELSE [stream |-> s, buf |-> EmptyMsg, tag |-> "Err"]

\* What the program gets to see of a result; nothing on an error.
Yield(m, tag) == [m |-> IF tag = "Err" THEN EmptyMsg ELSE m, tag |-> tag]
Yields        == [m : Messages, tag : Tags \cup {"Err"}]

\* History of the results: a refused ciphertext leaves no trace.
Record(r) ==
  got' = IF r.tag = "Err" /\ r.stream.state = rx.state
         THEN got ELSE Append(got, Yield(r.buf, r.tag))

Pull(c, ad) ==
  /\ rx.status = "live"
  /\ \/ /\ PullCheckOk(rx, c)
        /\ LET r == PullImpl(rx, c, ad) IN rx' = r.stream /\ Record(r)
     \/ ~PullCheckOk(rx, c) /\ UNCHANGED <<rx, got>>
  /\ UNCHANGED <<uses, tx, net, cbuf, mbuf, inits>>

\* `pull_to_vec` clears the recycled Vec once `pull_check` has passed.
PullToVec(c, ad) ==
  /\ rx.status = "live"
  /\ \/ /\ PullCheckOk(rx, c)
        /\ LET r == PullImpl(rx, c, ad)
           IN  rx' = r.stream /\ Record(r) /\ mbuf' = r.buf
     \/ ~PullCheckOk(rx, c) /\ UNCHANGED <<rx, got, mbuf>>
  /\ UNCHANGED <<uses, tx, net, cbuf, inits>>

RekeyPull ==
  /\ "rekey" \in uses
  /\ rx.status = "live"
  /\ rx.state.rk < MaxRekeys
  /\ rx' = Rekeyed(rx)
  /\ UNCHANGED <<uses, tx, net, cbuf, got, mbuf, inits>>

-----------------------------------------------------------------------------
OptAds == Ads \cup {Null}

\* The optional additional data that the programs pass.
UsedAds == (Ads \cap uses) \cup {Null}

PushNext ==
  \E h \in Headers \cap uses :
    \/ \E k \in Keys \cap uses : InitPush(h, k)
    \/ \E m \in Messages \cap uses, ad \in UsedAds, tag \in Tags \cap uses :
         Push(h, m, ad, tag) \/ PushToVec(h, m, ad, tag)
    \/ \E ad \in UsedAds : Finalize(h, ad)
    \/ RekeyPush(h)
    \/ \E m \in Messages \cap uses, b \in ForeignBytes : ForeignPush(h, m, b)

PullAny ==
  \E c \in net \cup Garbage, ad \in UsedAds : Pull(c, ad) \/ PullToVec(c, ad)

PullNext ==
  \/ \E h \in Headers \cap uses, k \in Keys \cap uses : InitPull(h, k)
  \/ PullAny
  \/ RekeyPull

Next == PushNext \/ Transmit \/ PullNext

Spec == Init /\ [][Next]_vars

\* How often the pusher of stream h rekeyed right after its n-th message.
RekeysAfter(h, n) ==
  LET st == tx[h].state
  IN  IF n < Len(st.log) THEN st.log[n + 1].rk ELSE st.rk

\* `rekey` where the pusher did so, "in a synchronized manner".
RekeyInStep ==
  RekeyPull /\ rx.state.rk < RekeysAfter(rx.state.hdr, Len(rx.state.log))

\* Datagrams that stay in `net` are delivered in the end, the puller keeps
\* calling `pull` (the `while stream.is_not_finalized()` loop of its
\* documentation) and follows the pusher's rekeys.  It may also rekey more
\* often, which nothing in the code prevents.
FairSpec ==
  Spec /\ WF_vars(PullAny /\ rx' # rx) /\ WF_vars(RekeyInStep)

-----------------------------------------------------------------------------
(* Properties                                                              *)

\* Types of all variables.
TypeOK ==
  /\ tx \in [Headers -> Streams]
  /\ net \subseteq Datagrams
  /\ cbuf \in Datagrams
  /\ rx \in Streams
  /\ got \in Seq(Yields)
  /\ mbuf \in Messages
  /\ inits \in Nat

\* What a puller sees of an entry of the transcript.
Seen(e) == Yield(e.m, FromU8(e.tag))

Sent(h)   == tx[h].state.log
Source    == rx.state.hdr
Attached  == rx.status = "live"

\* The results of `pull` are, from the first on, exactly the messages of the
\* stream whose header was given to `init_pull`, in the order of the pushes:
\* nothing reordered, duplicated, removed or altered, and a tag byte that is
\* no `Tag` leaves a visible gap, never another message.
InOrderDelivery ==
  Attached =>
    /\ Len(got) <= Len(Sent(Source))
    /\ \A i \in 1..Len(got) : got[i] = Seen(Sent(Source)[i])

\* When `is_finalized` turns true on the pulling side, every message of the
\* stream has been pulled and the pusher has closed its end: a stream cannot
\* be truncated by dropping its tail or by replaying another stream's end.
NoTruncation ==
  (Attached /\ rx.finalized) =>
    /\ Len(got) = Len(Sent(Source))
    /\ tx[Source].finalized
    /\ got # << >> /\ got[Len(got)].tag = "Final"

\* The pusher never adds to a stream after a message tagged `Final`, not by
\* `push`, `push_to_vec` or `finalize`, nor after a call that failed.
FinalIsLast ==
  \A h \in Headers : \A i \in 1..Len(Sent(h)) :
    FromU8(Sent(h)[i].tag) = "Final" =>
      i = Len(Sent(h)) /\ tx[h].finalized

\* s is a prefix of t.
PrefixOf(s, t) == Len(s) <= Len(t) /\ \A i \in 1..Len(s) : s[i] = t[i]

\* A stream that was never created is blank; another one carries its header.
TxWellFormed ==
  \A h \in Headers :
    IF tx[h].status = "none" THEN tx[h] = NoStream ELSE tx[h].state.hdr = h

\* A sealed datagram is an entry of its stream's transcript, sealed in the
\* state the stream was in before that entry.
Genuine(c) ==
  c.kind = "sealed" =>
    LET n == Len(c.state.log)
        t == tx[c.state.hdr]
    IN  /\ c.state.hdr \in Headers
        /\ t.status # "none"
        /\ t.state.key = c.state.key
        /\ PrefixOf(c.state.log, t.state.log)
        /\ n < Len(t.state.log)
        /\ t.state.log[n + 1] =
             [rk |-> c.state.rk, m |-> c.m, ad |-> c.ad, tag |-> c.tag]

\* The puller's transcript is a prefix of its stream's, and `got` is what the
\* program sees of it.
RxFollows ==
  IF rx.status = "live"
  THEN /\ Source \in Headers
       /\ PrefixOf(rx.state.log, Sent(Source))
       /\ rx.state.log # << >> => /\ tx[Source].status # "none"
                                  /\ tx[Source].state.key = rx.state.key
       /\ Len(got) = Len(rx.state.log)
       /\ \A i \in 1..Len(got) : got[i] = Seen(rx.state.log[i])
       /\ rx.finalized =>
            /\ rx.state.log # << >>
            /\ FromU8(rx.state.log[Len(rx.state.log)].tag) = "Final"
  ELSE rx = NoStream /\ got = << >>

\* The pusher's transcripts, every datagram made of them and the puller's
\* transcript agree: what a ciphertext can open is determined by its place in
\* the stream.  This is the inductive invariant behind the properties above.
IndInv ==
  /\ TypeOK
  /\ TxWellFormed
  /\ FinalIsLast
  /\ \A c \in net \cup {cbuf} : Genuine(c)
  /\ RxFollows

\* The Vec given to `pull_to_vec` never shows bytes that were not
\* authenticated by that very call: after a step it holds what it held, or
\* nothing, or the message by which the stream has just advanced.
BufferAuthentic ==
  [][ \/ mbuf' \in {mbuf, EmptyMsg}
      \/ /\ Len(rx'.state.log) = Len(rx.state.log) + 1
         /\ mbuf' = rx'.state.log[Len(rx'.state.log)].m ]_vars

\* The puller rekeyed once too often before a message that is already sealed,
\* or it was created with another key than the stream.
Astray ==
  LET n == Len(rx.state.log)
  IN  /\ Attached
      /\ n < Len(Sent(Source))
      /\ \/ rx.state.rk > Sent(Source)[n + 1].rk
         \/ rx.state.key # tx[Source].state.key

\* `rekey` out of step (its documentation asks for "a synchronized manner")
\* and a wrong key are never repaired and never mistaken for success: such a
\* stream yields nothing more and does not finalize, until `init_pull`.
AstrayStaysAstray ==
  [][Astray /\ inits' = inits => Astray' /\ got' = got /\ ~rx'.finalized]_vars

\* Every ciphertext of stream h is in the network.
AllArrived(h) ==
  \A i \in 1..Len(Sent(h)) :
    \E c \in net : /\ c.kind = "sealed"
                   /\ c.state.hdr = h
                   /\ Len(c.state.log) = i - 1

\* The pusher has sent its final message and nothing was lost.
EndInSight ==
  /\ Attached
  /\ tx[Source].finalized
  /\ Sent(Source) # << >>
  /\ FromU8(Sent(Source)[Len(Sent(Source))].tag) = "Final"
  /\ rx.state.key = tx[Source].state.key
  /\ AllArrived(Source)

\* A puller that follows the rekeys and keeps pulling reaches the end of a
\* stream that was sent completely, past noise, duplicates, late arrivals,
\* empty messages and tag bytes it does not know, unless it rekeys too often.
FinalReaches ==
  (EndInSight /\ ~Astray) ~> (rx.finalized \/ ~EndInSight \/ Astray)

\* The items a transcript puts on the channel.
ItemsOf(log) == [i \in 1..Len(log) |-> Seen(log[i])]

Channel ==
  INSTANCE OrderedChannel
  WITH Channels   <- Headers,
       NoChannel  <- Null,
       Items      <- Yields,
       FinalItems <- {y \in Yields : y.tag = "Final"},
       sent       <- [h \in Headers |-> ItemsOf(Sent(h))],
       source     <- Source,
       taken      <- got,
       closed     <- rx.finalized

\* The streams, the network between them and the checks of `push` and `pull`
\* implement the ordered channel that the module's documentation promises:
\* a pull that yields something takes the channel's next item, and nothing
\* else that either program does is visible there.
ImplementsChannel == Channel!Spec
=============================================================================
