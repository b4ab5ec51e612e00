------------------------------ MODULE MultiPart ------------------------------
(***************************************************************************)
(* The `State` values for computations in several parts: `crypto::hash`    *)
(* (sha256, sha512), `crypto::auth` (the HMACs), `crypto::generichash` and *)
(* `crypto::sign` (ed25519ph).  A program keeps them in variables, feeds   *)
(* chunks to them, copies them where the type is `Copy`, and finalizes     *)
(* them.  Beside them the functions that take the message in one piece, of *)
(* the same modules and of `crypto::onetimeauth`: what one function made,  *)
(* the program gives to another one to check.                              *)
(*                                                                         *)
(* libsodium is external.  Its state is the key and the bytes absorbed so  *)
(* far; a call of its `final` function ruins the state it is given, and    *)
(* whatever is computed from a ruined state is Junk.                       *)
(***************************************************************************)
EXTENDS Integers, Sequences

CONSTANTS
  Slots,               \* the program's variables of type State
  Kinds,               \* the modules the program uses
  Chunks,              \* what is fed by one `update`: sequences of bytes
  Keys,                \* keys, for `sign` key pairs
  KeyLen,              \* KeyLen[k]: the length of k
  Null,                \* `None`, and no key
  Junk,                \* what a ruined state yields
  OutLens,             \* the values of out_len the program asks for
  DIGEST_MIN, DIGEST_MAX, BYTES, KEY_MIN, KEY_MAX,
  KEYBYTES,            \* the length of a `Key` of `auth` and `onetimeauth`
  SIGNATUREBYTES,
  ReuseAfterVerify,    \* the program goes on using a State after `verify`
  MaxFed               \* bound on the bytes fed to a State

AllKinds  == {"hash", "auth", "generichash", "sign"}
TagKinds  == {"auth", "onetimeauth", "ed25519"}   \* checked in one piece
CopyKinds == {"hash", "sign"}       \* #[derive(Copy, Clone)]
Bytes     == UNION {{c[i] : i \in 1..Len(c)} : c \in Chunks}

ASSUME PartsAssumption ==
  /\ Kinds \subseteq AllKinds
  /\ Chunks \subseteq Seq(Bytes)
  /\ Null \notin Keys
  /\ KeyLen \in [Keys -> Nat]
  /\ OutLens \subseteq Nat
  /\ {DIGEST_MAX, BYTES, KEY_MAX, KEYBYTES, MaxFed} \subseteq Nat
  /\ {DIGEST_MIN, KEY_MIN, SIGNATUREBYTES} \subseteq Nat \ {0}
  /\ BYTES \in DIGEST_MIN..DIGEST_MAX
  /\ ReuseAfterVerify \in BOOLEAN

VARIABLES
  slot,      \* slot[s]: the variable s and the State in it
  out        \* the last result

vars == <<slot, out>>

-----------------------------------------------------------------------------
(* libsodium (external)                                                    *)

FfiInit(k)        == [key |-> k, data |-> << >>, ruined |-> FALSE]
FfiUpdate(st, c)  == [st EXCEPT !.data = @ \o c]
Ruin(st)          == [st EXCEPT !.ruined = TRUE]
Wiped             == [key |-> Null, data |-> << >>, ruined |-> TRUE]

\* The value a computation of the kind yields for a key and a message.
Value(kind, k, n, data) == [kind |-> kind, key |-> k, len |-> n, data |-> data]

FfiFinal(kind, st, k, n) ==
  IF st.ruined THEN Junk ELSE Value(kind, k, n, st.data)

\* crypto_generichash_init refuses what is too long, but takes any other length,
\* and a key of length 0 for no key.
FfiGenericOk(n, k) == n \in 1..DIGEST_MAX /\ (k = Null \/ KeyLen[k] <= KEY_MAX)
FfiGenericKey(k)   == IF k # Null /\ KeyLen[k] = 0 THEN Null ELSE k

FfiStates == [key : Keys \cup {Null}, data : Seq(Bytes), ruined : BOOLEAN]

-----------------------------------------------------------------------------
(* Functions of the modules that have no state                             *)

\* `hash`, `authenticate` and `generichash::hash`.  `sign` has none for the
\* prehashed signatures of its State: there, the State fed in one piece.
OneShot(kind, k, n, m) == Value(kind, k, n, m)

\* `unwrap_out_len`, with 0 for the error.
UnwrapOutLen(n) ==
  IF n = Null THEN BYTES
  ELSE IF n \in DIGEST_MIN..DIGEST_MAX THEN n ELSE 0

\* Fault: only a key that is too long is refused.
KeyOk_NoMin(k) == k = Null \/ KeyLen[k] <= KEY_MAX

\* `unwrap_key` passes the key on.
KeyOk(k) == k = Null \/ KeyLen[k] \in KEY_MIN..KEY_MAX

-----------------------------------------------------------------------------
NoSlot == [status |-> "none", kind |-> "hash", len |-> 0, st |-> Wiped,
           fed |-> << >>, key |-> Null, verified |-> FALSE]

\* A new State; `fed`, `key` and `verified` are history: what the
\* program passed in, and whether it called `verify` on it.
NewSlot(kind, n, st, k) ==
  [status |-> "live", kind |-> kind, len |-> n, st |-> st,
   fed |-> << >>, key |-> k, verified |-> FALSE]

\* A result; its `due` is what the program may expect of it.
NoOut == [op |-> "none"]

Init ==
  /\ slot = [s \in Slots |-> NoSlot]
  /\ out  = NoOut

\* `State::new` and `State::init` without a key.
New(s, kind) ==
  /\ kind \in {"hash", "sign"}
  /\ slot' = [slot EXCEPT ![s] = NewSlot(kind, 0, FfiInit(Null), Null)]
  /\ out' = NoOut

\* `auth::State::init`: a key of any length.
InitAuth(s, k) ==
  /\ "auth" \in Kinds
  /\ slot' = [slot EXCEPT ![s] = NewSlot("auth", 0, FfiInit(k), k)]
  /\ out' = NoOut

\* `generichash::State::new`: an error leaves the program without a State.
NewGeneric(s, n, k) ==
  /\ "generichash" \in Kinds
  /\ LET len == UnwrapOutLen(n)
     IN  IF len # 0 /\ KeyOk(k) /\ FfiGenericOk(len, k)
         THEN slot' = [slot EXCEPT ![s] = NewSlot("generichash", len, FfiInit(FfiGenericKey(k)), k)]
         ELSE UNCHANGED slot
  /\ out' = NoOut

\* The program may use the State in s.
Usable(s) ==
  /\ slot[s].status = "live"
  /\ slot[s].verified => ReuseAfterVerify

Update(s, c) ==
  /\ Usable(s)
  /\ Len(slot[s].fed) + Len(c) <= MaxFed
  /\ slot' = [slot EXCEPT ![s].st  = FfiUpdate(@, c), ![s].fed = @ \o c]
  /\ out' = NoOut

\* An assignment `d = s` of a type that is Copy.
Copy(s, d) ==
  /\ Usable(s)
  /\ slot[s].kind \in CopyKinds
  /\ slot' = [slot EXCEPT ![d] = slot[s]]
  /\ out' = NoOut

\* `drop` zeroes the State of `auth`; the others leave it in memory.
Dropped(v) == [v EXCEPT !.status = "gone",
                        !.st = IF v.kind = "auth" THEN Wiped ELSE @]

\* Fault: `finalize` borrows the State instead of taking it by value.
AfterFinalize_InPlace(v) == [v EXCEPT !.st = Ruin(@)]

\* What `finalize(mut self)` leaves in the variable: a Copy type is copied and
\* libsodium ruins the copy; another type is moved out and dropped.
AfterFinalize(v) ==
  IF v.kind \in CopyKinds
  THEN v
  ELSE Dropped([v EXCEPT !.st = Ruin(@)])

\* `finalize`; for `sign`, k is the signer's key pair.
Finalize(s, k) ==
  LET v == slot[s]
  IN  /\ Usable(s)
      /\ v.kind = "sign" <=> k # Null
      /\ out' = [op  |-> "finalize", kind |-> v.kind, len |-> v.len, fed |-> v.fed,
                 key |-> IF v.kind = "sign" THEN k ELSE v.key,
                 res |-> FfiFinal(v.kind, v.st,
                                  IF v.kind = "sign" THEN k ELSE v.st.key, v.len)]
      /\ slot' = [slot EXCEPT ![s] = AfterFinalize(@)]

\* `sign::State::verify(&mut self)`: libsodium finalizes the State in place.
Verify(s, sig, pair) ==
  LET v == slot[s]
  IN  /\ Usable(s)
      /\ v.kind = "sign"
      /\ out' = [op  |-> "verify", res |-> FfiFinal("sign", v.st, pair, 0) = sig,
                 due |-> sig = OneShot("sign", pair, 0, v.fed)]
      /\ slot' = [slot EXCEPT ![s].st = Ruin(@), ![s].verified = TRUE]

\* The variable goes out of scope.
Drop(s) ==
  /\ slot[s].status = "live"
  /\ slot' = [slot EXCEPT ![s] = Dropped(@)]
  /\ out' = NoOut

\* The messages the program has.
Messages == {slot[s].fed : s \in Slots}

\* Signatures somebody may present: by any key pair, on any message, prehashed
\* or not.
Signatures == {OneShot(kind, p, 0, m) : kind \in {"sign", "ed25519"}, p \in Keys,
                                       m \in Messages}

-----------------------------------------------------------------------------
(* Tags and signatures in one piece                                        *)

\* A `Key` of `auth` and `onetimeauth` has a fixed length.
OneShotKey(kind, k) == kind # "ed25519" => KeyLen[k] = KEYBYTES

\* `authenticate`, and `sign_detached`, which is also `Signer::try_sign`.
Make(kind, k, m) ==
  /\ OneShotKey(kind, k)
  /\ out' = [op |-> "finalize", kind |-> kind, len |-> 0, fed |-> m, key |-> k,
             res |-> OneShot(kind, k, 0, m)]
  /\ UNCHANGED slot

\* What was made is of the type that the `verify` of kind takes.
Fits(made, kind) ==
  made = kind \/ {made, kind} \subseteq {"sign", "ed25519"}

\* `auth::verify`, and `verify_detached`, which is also `Verifier::verify`.
CheckTag(kind, k, m, tag) == tag = Value(kind, k, 0, m)

Check(kind, k, m) ==
  /\ out.op = "finalize"
  /\ Fits(out.kind, kind)
  /\ OneShotKey(kind, k)
  /\ out' = [op  |-> "verify", res |-> CheckTag(kind, k, m, out.res),
             due |-> out.kind = kind /\ out.key = k /\ out.fed = m]
  /\ UNCHANGED slot

\* The bytes of a signature.
SigBytes(k, m) ==
  [i \in 1..SIGNATUREBYTES |-> [sig |-> Value("ed25519", k, 0, m), at |-> i]]

\* `sign`: the signature and then the message.
SignMessage(k, m) == SigBytes(k, m) \o m

\* crypto_sign_ed25519_open (external) accepts sm.
FfiOpens(sm, k) ==
  /\ Len(sm) >= SIGNATUREBYTES
  /\ SubSeq(sm, 1, SIGNATUREBYTES)
       = SigBytes(k, SubSeq(sm, SIGNATUREBYTES + 1, Len(sm)))

\* Its output buffer, as long as sm, of which it writes the first mlen bytes.
OpenBuffer(sm) ==
  [i \in 1..Len(sm) |-> IF i <= Len(sm) - SIGNATUREBYTES THEN sm[SIGNATUREBYTES + i] ELSE Null]

\* Fault: the Vec keeps the length of the signed message.
OpenMessage_NotTruncated(sm, k) ==
  IF FfiOpens(sm, k) THEN [ok |-> TRUE, m |-> OpenBuffer(sm)] ELSE [ok |-> FALSE, m |-> << >>]

\* `sign::verify`
OpenMessage(sm, k) ==
  IF FfiOpens(sm, k)
  THEN [ok |-> TRUE, m |-> SubSeq(OpenBuffer(sm), 1, Len(sm) - SIGNATUREBYTES)]
  ELSE [ok |-> FALSE, m |-> << >>]

\* The signed message arrives whole, cut off, or with something appended.
Deliveries(sm) ==
  {sm} \cup {SubSeq(sm, 1, n) : n \in 0..(Len(sm) - 1)} \cup {sm \o c : c \in Chunks}

SignAndOpen(k, m, p) ==
  /\ \E sm \in Deliveries(SignMessage(k, m)) :
       out' = [op  |-> "open", res |-> OpenMessage(sm, p),
               due |-> IF sm = SignMessage(k, m) /\ p = k
                       THEN [ok |-> TRUE, m |-> m] ELSE [ok |-> FALSE, m |-> << >>]]
  /\ UNCHANGED slot

Next ==
  \/ \E kind \in TagKinds, k \in Keys, m \in Messages :
       Make(kind, k, m) \/ Check(kind, k, m)
  \/ \E k, p \in Keys, m \in Messages : SignAndOpen(k, m, p)
  \/ \E s \in Slots :
       \/ \E kind \in Kinds : New(s, kind)
       \/ \E k \in Keys : InitAuth(s, k)
       \/ \E n \in OutLens \cup {Null}, k \in Keys \cup {Null} : NewGeneric(s, n, k)
       \/ \E c \in Chunks : Update(s, c)
       \/ \E d \in Slots : Copy(s, d)
       \/ \E k \in Keys \cup {Null} : Finalize(s, k)
       \/ \E sig \in Signatures, p \in Keys : Verify(s, sig, p)
       \/ Drop(s)

Spec == Init /\ [][Next]_vars

-----------------------------------------------------------------------------
(* Properties                                                              *)

SlotTypes == [status : {"none", "live", "gone"}, kind : AllKinds, len : Nat,
              st : FfiStates, fed : Seq(Bytes), key : Keys \cup {Null},
              verified : BOOLEAN]

\* Types of the program's variables.
TypeOK == slot \in [Slots -> SlotTypes]

\* `finalize` returns what the module's one-shot function returns for the
\* concatenation of all chunks passed to `update` since the State was made,
\* however the message was cut up, and also when the State is a copy, was
\* copied, or was finalized before.
PartsMakeTheWhole ==
  out.op = "finalize" =>
    out.res = OneShot(out.kind, out.key, out.len, out.fed)

\* `sign::State::verify` accepts the signatures that `finalize` creates for the
\* message fed to the State, with the same key pair, and no other; `auth::verify`
\* and `verify_detached` accept what `finalize`, `authenticate` or `sign_detached`
\* made of the same message under the same key.
VerifyIsExact == out.op = "verify" => out.res = out.due

\* `sign::verify` returns the message that was signed, no byte more, and only if
\* the signed message is whole and the key is that of the signer.
OpensAsSigned == out.op = "open" => out.res = out.due

\* In a State the program still holds, libsodium has absorbed what the program
\* fed to it, under the key it gave, which is never ignored, and the State is
\* ruined only by `verify`; a digest has a length that `generichash` allows.
Agree(v) ==
  v.status = "live" =>
    /\ v.st.data = v.fed
    /\ v.st.key = v.key
    /\ v.st.ruined => v.verified
    /\ IF v.kind = "generichash" THEN v.len \in DIGEST_MIN..DIGEST_MAX ELSE v.len = 0

\* The inductive invariant behind the properties above.
PartsInv ==
  /\ TypeOK
  /\ \A s \in Slots : Agree(slot[s])
  /\ ~ReuseAfterVerify => PartsMakeTheWhole /\ VerifyIsExact
  /\ out.op = "finalize" /\ out.kind # "generichash" => out.len = 0
=============================================================================
