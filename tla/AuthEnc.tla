------------------------------- MODULE AuthEnc -------------------------------
(***************************************************************************)
(* Authenticated encryption of single messages: `crypto::secretbox`,       *)
(* `crypto::box_` with and without precomputed keys, `crypto::sealedbox`   *)
(* and `crypto::aead`.  A program keeps byte slices that the detached      *)
(* functions encrypt and decrypt in place, collects the tags, sends the    *)
(* ciphertexts of the other functions, and opens what it gets with any key.*)
(*                                                                         *)
(* libsodium is external.  All of its ciphers combine the message with a   *)
(* keystream that key and nonce determine, so sealing a buffer twice with  *)
(* the same ones restores it; a tag is made of all it authenticates.  A    *)
(* public key may be refused: `crypto_box_*` then returns -1 and does      *)
(* nothing.                                                                *)
(***************************************************************************)
EXTENDS Integers, Sequences, FiniteSets

CONSTANTS
  Bufs,            \* the program's slices
  Msgs, MLen,      \* messages that are not all zero, and their lengths
  Zeros,           \* a buffer that libsodium has set to zero
  Nonces, Ads, EmptyAd, Null,
  SymKeys,         \* keys of secretbox and aead
  People,          \* key pairs of box_
  RefusedPks,      \* public keys that libsodium refuses
  Ephemerals,      \* the key pairs sealedbox::seal draws
  MACBYTES, SEALBYTES,
  NoiseLens,       \* lengths of ciphertexts that nobody sealed
  Programs,        \* programs: the sets of the modules, kinds of functions,
                   \* messages, keys and additional data that they use
  MaxTags,         \* bound on the tags the program holds
  MaxLayers,       \* bound on the seals of one slice
  MaxWire          \* bound on the ciphertexts sent

ASSUME EncAssumption ==
  /\ MLen \in [Msgs -> Nat]
  /\ Zeros \notin Msgs
  /\ EmptyAd \in Ads /\ Null \notin Ads
  /\ Null \notin People \cup Ephemerals
  /\ Ephemerals \cap (People \cup RefusedPks) = {}
  /\ RefusedPks \cap (People \cup SymKeys) = {}
  /\ MACBYTES \in Nat /\ SEALBYTES \in Nat
  /\ NoiseLens \subseteq Nat
  /\ MaxTags \in Nat /\ MaxLayers \in Nat /\ MaxWire \in Nat

VARIABLES
  uses,    \* what the program uses: one of Programs
  buf,     \* buf[b]: the content of slice b
  tags,    \* the tags the program holds
  wire,    \* the ciphertexts it may be given
  made,    \* history: what was sealed, and under what
  layers,  \* history, layers[b]: the seals of b that are still to be opened
  struck,  \* history: the slices on which a function of aead has failed since
           \* a message was written to them
  out      \* the last result

vars == <<uses, buf, tags, wire, made, layers, struck, out>>

-----------------------------------------------------------------------------
(* Keys.  A key is the set of the secrets it is computed from.             *)

\* How a call names its key; the last two fields are equal for a secret key.
Handles ==
  {[api |-> a, pk |-> k, sk |-> k] :
     a \in {"secretbox", "aead"}, k \in SymKeys}
  \cup
  {[api |-> a, pk |-> p, sk |-> s] :
     a \in {"box", "pre"}, p \in People \cup RefusedPks, s \in People}

\* `precompute` does not look at the return code: a refused public key leaves
\* the zeros the key was initialized with.
Precompute(pk, sk) == IF pk \in RefusedPks THEN {} ELSE {pk, sk}

KeyOf(h)   == IF h.api = "pre" THEN Precompute(h.pk, h.sk) ELSE {h.pk, h.sk}
Refused(h) == h.api = "box" /\ h.pk \in RefusedPks

\* What a call hands to libsodium besides the data.
Params(h, n, ad) ==
  [cipher |-> IF h.api = "aead" THEN "aead" ELSE "xsalsa20poly1305",
   key |-> KeyOf(h), nonce |-> {n}, ad |-> ad]

\* `None` and an empty slice reach libsodium alike; only aead takes them.
AdBytes(ad) == IF ad = Null THEN EmptyAd ELSE ad
AdsOf(h)    == IF h.api = "aead" THEN Ads \cup {Null} ELSE {Null}

-----------------------------------------------------------------------------
(* libsodium (external)                                                    *)

Plain(m) == [m |-> m, pads |-> {}]
Pad(p)   == [cipher |-> p.cipher, key |-> p.key, nonce |-> p.nonce]

\* Message and keystream combined: a second time, they cancel.
Xor(c, p) == [c EXCEPT !.pads = IF Pad(p) \in @ THEN @ \ {Pad(p)}
                                               ELSE @ \cup {Pad(p)}]

\* What a tag is computed from.  In tags and ciphertexts, `mac` is the set of
\* what their bytes verify: one computation, or none.
Mac(p, c) == [p |-> p, c |-> c]

\* What a failed verification leaves in the output buffer: the functions of
\* aead set it to zero, those of secretbox and box do not touch it.
AfterFailure(h, c) == IF h.api = "aead" THEN Plain(Zeros) ELSE c

Sealed(p, m, n, e) ==
  [len |-> MLen[m] + n, mac |-> {Mac(p, Xor(Plain(m), p))},
   body |-> Xor(Plain(m), p), eph |-> e]

\* Bytes that nobody sealed, uninitialized memory among them.
Noise(n) == [len |-> n, mac |-> {}, body |-> Plain(Zeros), eph |-> Null]

-----------------------------------------------------------------------------
NoOut == [op |-> "none"]

Init ==
  /\ uses   \in Programs
  /\ buf    = [b \in Bufs |-> Plain(Zeros)]
  /\ tags   = {}
  /\ wire   = {Noise(n) : n \in NoiseLens}
  /\ made   = {}
  /\ layers = [b \in Bufs |-> << >>]
  /\ struck = {}
  /\ out    = NoOut

\* The program writes a message to a slice.
Write(b, m) ==
  /\ buf'    = [buf EXCEPT ![b] = Plain(m)]
  /\ layers' = [layers EXCEPT ![b] = << >>]
  /\ struck' = struck \ {b}
  /\ out'    = NoOut
  /\ UNCHANGED <<uses, tags, wire, made>>

-----------------------------------------------------------------------------
(* seal_detached and open_detached                                         *)

\* The slice and the tag after `seal_detached`, which never reports an error:
\* if libsodium refused the key, the tag is zero and the slice as it was.
SealedBuf(h, p, c) == IF Refused(h) THEN c ELSE Xor(c, p)
SealedTag(h, p, c) ==
  [mac |-> IF Refused(h) THEN {} ELSE {Mac(p, Xor(c, p))}, before |-> c]

SealDetached(b, h, n, ad) ==
  LET p == Params(h, n, AdBytes(ad))
      t == SealedTag(h, p, buf[b])
  IN  /\ Cardinality(tags) < MaxTags /\ Len(layers[b]) < MaxLayers
      /\ buf'    = [buf EXCEPT ![b] = SealedBuf(h, p, @)]
      /\ tags'   = tags \cup {t}
      /\ layers' = IF Refused(h) THEN layers ELSE [layers EXCEPT ![b] = Append(@, t)]
      /\ out'    = [op |-> "seal_detached", b |-> b, tag |-> t]
      /\ UNCHANGED <<uses, wire, made, struck>>

Verifies(h, p, t, c) == ~Refused(h) /\ Mac(p, c) \in t.mac

\* Fault: the slice is wiped when verification fails.
OpenedBuf_WipesOnErr(h, p, t, c) ==
  IF Verifies(h, p, t, c) THEN Xor(c, p) ELSE Plain(Zeros)

\* Fault: verification only, with no output buffer.
OpenedBuf_VerifiesOnly(h, p, t, c) == c

\* The slice after `open_detached`.
OpenedBuf(h, p, t, c) ==
  IF Verifies(h, p, t, c) THEN Xor(c, p) ELSE AfterFailure(h, c)

\* History: a seal that was opened is gone; so are all if the tag of another
\* seal fits the same bytes.  A failure opens none.
OpenedLayers(h, p, t, c, ls) ==
  IF Verifies(h, p, t, c)
  THEN IF ls # << >> /\ ls[Len(ls)].mac = t.mac
       THEN SubSeq(ls, 1, Len(ls) - 1) ELSE << >>
  ELSE ls

OpenDetached(b, t, h, n, ad) ==
  LET p == Params(h, n, AdBytes(ad))
  IN  /\ buf'    = [buf EXCEPT ![b] = OpenedBuf(h, p, t, @)]
      /\ layers' = [layers EXCEPT ![b] = OpenedLayers(h, p, t, buf[b], @)]
      /\ struck' = IF h.api = "aead" /\ ~Verifies(h, p, t, buf[b])
                   THEN struck \cup {b} ELSE struck
      /\ out'    = [op |-> "open_detached", b |-> b, tag |-> t,
                    ok |-> Verifies(h, p, t, buf[b])]
      /\ UNCHANGED <<uses, tags, wire, made>>

-----------------------------------------------------------------------------
(* seal and open                                                           *)

\* `seal` never reports an error either: for a refused key, `box_::seal`
\* returns the uninitialized Vec, `sealedbox::seal` a Vec of zeros.
Send(c, p, m) ==
  /\ wire' = wire \cup {c}
  /\ made' = IF c.mac = {} THEN made ELSE made \cup {[p |-> p, m |-> m]}
  /\ out'  = NoOut
  /\ UNCHANGED <<uses, buf, tags, layers, struck>>

Seal(m, h, n, ad) ==
  LET p == Params(h, n, AdBytes(ad))
  IN  /\ Cardinality(made) < MaxWire
      /\ Send(IF Refused(h) THEN Noise(MLen[m] + MACBYTES)
              ELSE Sealed(p, m, MACBYTES, Null), p, m)

\* Key and nonce of a sealed box come from the ephemeral key pair e and from
\* the recipient's key pair.
BoxSealParams(e, pk, sk) ==
  [cipher |-> "xsalsa20poly1305", key |-> {e, sk}, nonce |-> {e, pk}, ad |-> EmptyAd]

\* `sealedbox::seal` draws a key pair that was never drawn before.
SealedBoxSeal(m, pk, e) ==
  /\ "sealedbox" \in uses
  /\ Cardinality(made) < MaxWire
  /\ \A c \in wire : c.eph # e
  /\ LET p == BoxSealParams(e, pk, pk)
     IN  Send(IF pk \in RefusedPks THEN Noise(MLen[m] + SEALBYTES)
              ELSE Sealed(p, m, SEALBYTES, e), p, m)

\* Fault: there is no test of the length.
LongEnough_Always(c, n) == TRUE

\* Fault: the ciphertext of an empty message is taken for too short.
LongEnough_Strict(c, n) == c.len > n

\* The test that `open` begins with, for an overhead of n bytes.
LongEnough(c, n) == c.len >= n

\* `open`: cap is the size of the Vec that libsodium writes to.
Opened(c, p, n, refused) ==
  [op |-> "open", c |-> c, p |-> p, over |-> n,
   cap |-> IF LongEnough(c, n) THEN c.len - n ELSE 0,
   ok  |-> LongEnough(c, n) /\ ~refused /\ Mac(p, c.body) \in c.mac,
   m   |-> Xor(c.body, p)]

Open(c, h, n, ad) ==
  /\ out' = Opened(c, Params(h, n, AdBytes(ad)), MACBYTES, Refused(h))
  /\ UNCHANGED <<uses, buf, tags, wire, made, layers, struck>>

\* `sealedbox::open` with any two halves of key pairs.
SealedBoxOpen(c, pk, sk) ==
  /\ "sealedbox" \in uses
  /\ out' = Opened(c, BoxSealParams(c.eph, pk, sk), SEALBYTES, FALSE)
  /\ UNCHANGED <<uses, buf, tags, wire, made, layers, struck>>

-----------------------------------------------------------------------------
\* The keys and the additional data that the program uses.
Used(h)    == {h.api, h.pk, h.sk} \subseteq uses
UsedAds(h) == {ad \in AdsOf(h) : ad \in uses \cup {Null}}

InPlace ==
  /\ "detached" \in uses
  /\ \E b \in Bufs :
       \/ \E m \in Msgs \cap uses : Write(b, m)
       \/ \E h \in Handles, n \in Nonces : Used(h) /\ \E ad \in UsedAds(h) :
            \/ SealDetached(b, h, n, ad)
            \/ \E t \in tags : OpenDetached(b, t, h, n, ad)

Attached ==
  /\ "attached" \in uses
  /\ \/ \E h \in Handles, n \in Nonces : Used(h) /\ \E ad \in UsedAds(h) :
          \/ \E m \in Msgs \cap uses : Seal(m, h, n, ad)
          \/ \E c \in wire : Open(c, h, n, ad)
     \/ \E m \in Msgs \cap uses, pk \in People \cup RefusedPks, e \in Ephemerals :
          SealedBoxSeal(m, pk, e)
     \/ \E c \in wire, pk, sk \in People : SealedBoxOpen(c, pk, sk)

Next == InPlace \/ Attached

Spec == Init /\ [][Next]_vars

-----------------------------------------------------------------------------
(* Properties                                                              *)

Secrets   == SymKeys \cup People \cup RefusedPks \cup Ephemerals
PadSet    == [cipher : {"aead", "xsalsa20poly1305"}, key : SUBSET Secrets,
              nonce : SUBSET (Nonces \cup Secrets)]
ParamSet  == [cipher : {"aead", "xsalsa20poly1305"}, key : SUBSET Secrets,
              nonce : SUBSET (Nonces \cup Secrets), ad : Ads]
Contents  == [m : Msgs \cup {Zeros}, pads : SUBSET PadSet]
Tags      == [mac : SUBSET [p : ParamSet, c : Contents], before : Contents]

\* Types of the slices, the tags and the seals.
TypeOK ==
  /\ buf \in [Bufs -> Contents]
  /\ tags \subseteq Tags
  /\ layers \in [Bufs -> Seq(Tags)]

\* The tag verifies the bytes c, and their decryption is what was sealed.
Undoes(t, c) ==
  /\ t.mac # {}
  /\ \A x \in t.mac : x.c = c /\ Xor(c, x.p) = t.before

\* What failures may have left in slice b instead of its bytes.
Remains(b) == IF b \in struck THEN {Plain(Zeros)} ELSE {}

\* The bytes c are those that the tag t was made for, or remains of them.
Link(r, t, c) == Undoes(t, c) \/ c \in r

\* The seals of a slice come off one by one: its bytes are those the last tag
\* was made for, and what each seal was given is what the one before produced.
\* Failed attempts of secretbox and box_ with wrong keys, nonces or tags, seals
\* that were refused and work on other slices do not disturb this.  A failed
\* attempt of aead may: the bytes are then zeros, and never anything else.
Restorable ==
  \A b \in Bufs :
    LET ls == layers[b]
    IN  /\ ls # << >> => Link(Remains(b), ls[Len(ls)], buf[b])
        /\ \A i \in 1..(Len(ls) - 1) : Link(Remains(b), ls[i], ls[i + 1].before)

\* "If the ciphertext fails verification, `open_detached()` returns `Err(())`,
\* and the ciphertext is not modified": a slice that is still sealed holds the
\* bytes that its last tag was made for.
StillSealed ==
  \A b \in Bufs :
    layers[b] # << >> => Undoes(layers[b][Len(layers[b])], buf[b])

\* `open_detached` succeeds only on the very bytes that the `seal_detached` of
\* the tag produced, and leaves the very bytes that it was given.
OpensWhatWasSealed ==
  (out.op = "open_detached" /\ out.ok) => buf[out.b] = out.tag.before

\* The inductive invariant behind Restorable and OpensWhatWasSealed: the seals
\* of a slice are among the tags, and each tag leads back to what it was made of.
InPlaceInv ==
  /\ TypeOK
  /\ Restorable
  /\ \A b \in Bufs : layers[b] \in Seq(tags)
  /\ \A t \in tags : \A x \in t.mac : Xor(x.c, x.p) = t.before
  /\ OpensWhatWasSealed

\* `open` and `sealedbox::open` return a message exactly if `seal` made the
\* ciphertext under the same key, nonce and additional data, and it is that
\* message: for all lengths, and for the other side's halves of the keys.
OpenIsExact ==
  out.op = "open" =>
    /\ out.ok <=> \E s \in made :
         s.p = out.p /\ out.c = Sealed(s.p, s.m, out.over, out.c.eph)
    /\ out.ok => [p |-> out.p, m |-> out.m.m] \in made /\ out.m.pads = {}

\* The Vec that `open` lends to libsodium has room for exactly the message, and
\* the subtraction of its size never goes below zero.
VecFits ==
  out.op = "open" => /\ out.cap >= 0
                     /\ out.ok => out.cap = MLen[out.m.m]

\* The inductive invariant behind OpenIsExact and VecFits: what may be given to
\* `open` is noise or was sealed, with a nonce of its own kind, and nothing was
\* sealed for a public key that libsodium refuses.
SealedInv ==
  /\ \A s \in made : /\ s \in [p : ParamSet, m : Msgs]
                     /\ s.p.key \cap RefusedPks = {}
  /\ \A c \in wire :
       /\ c.len \in Nat
       /\ \/ c.mac = {}
          \/ \E s \in made :
               \/ /\ c = Sealed(s.p, s.m, MACBYTES, Null)
                  /\ \E n \in Nonces : s.p.nonce = {n}
               \/ \E e \in Ephemerals, pk \in People :
                    /\ c = Sealed(s.p, s.m, SEALBYTES, e)
                    /\ s.p = BoxSealParams(e, pk, pk)
  /\ OpenIsExact
  /\ VecFits

\* "`m` is encrypted in place, so after this function returns it will contain
\* the ciphertext."
SealsInPlace ==
  out.op = "seal_detached" => buf[out.b] # out.tag.before
=============================================================================
