----------------------------- MODULE KeyMaterial -----------------------------
(***************************************************************************)
(* Keys: where they come from (`gen_keypair`, `keypair_from_seed`,         *)
(* `crypto::pwhash`, `crypto::kdf`), what they are combined to             *)
(* (`crypto::kx`, `crypto::scalarmult`, the conversions of `crypto::sign`) *)
(* and what becomes of them in memory: the newtypes of newtype_macros.rs,  *)
(* which are zeroed when they are dropped, and `utils::mlock`, `munlock`   *)
(* and `memzero`.                                                          *)
(*                                                                         *)
(* One program keeps its keys in slots of memory; its salt and its hashed  *)
(* password are on disk, and it may crash and start again.  Curve25519,    *)
(* Ed25519, BLAKE2b, Argon2 and scrypt are external: one-to-one functions. *)
(* So is the operating system, which may refuse memory, may refuse a lock, *)
(* and writes pages that are not locked to the swap device.                *)
(***************************************************************************)
EXTENDS Integers, FiniteSets

CONSTANTS
  Slots, PageOf,       \* places for a key in memory, and their pages
  Draws,               \* what the random number generator may still return
  Programs,            \* which modules a program uses: sets of the names below
  Passwords, Algs,     \* Argon2i, Argon2id and scrypt have a module each
  Limits,              \* pairs of opslimit and memlimit
  SubkeyLens,          \* lengths of the slices given to derive_from_key
  BYTES_MIN, BYTES_MAX,
  MaxLocked,           \* pages the operating system lets a process lock
  SlotsOf,             \* SlotsOf[u]: the slots a program u has
  MaxPubs,             \* bound on the public keys the program keeps
  MaxSessions          \* bound on the sessions

Modules == {"box", "kx", "sign", "scalarmult", "kdf", "pwhash", "memzero", "mlock", "copies"}

ASSUME KeyAssumption ==
  /\ Programs \subseteq SUBSET Modules
  /\ BYTES_MIN \in Nat /\ BYTES_MAX \in Nat /\ SubkeyLens \subseteq Nat
  /\ SlotsOf \in [Programs -> SUBSET Slots]
  /\ MaxLocked \in Nat /\ MaxPubs \in Nat /\ MaxSessions \in Nat

VARIABLES
  uses,      \* the modules this program uses
  mem,       \* mem[s]: type, bytes and origin of what slot s holds or held
  locked,    \* the pages that stay in RAM
  disk,      \* salt and hashed password
  drawn,     \* what the random number generator has returned
  pubs,      \* public keys, Copy and known to everyone
  sessions,  \* history: the results of server_ and client_session_keys
  ids,       \* history: key pairs made from a password, with their origin
  guarded,   \* history: slots that were locked, none on their page unlocked since
  exposed,   \* history: bytes held in a slice, a public newtype or an array, or
             \* moved or swapped
  out

vars == <<uses, mem, locked, disk, drawn, pubs, sessions, ids, guarded, exposed, out>>
history == <<sessions, ids>>

-----------------------------------------------------------------------------
(* libsodium (external).  Bytes are terms.                                 *)

Zero           == <<"zero">>
Random(r)      == <<"random", r>>
SeedSk(api, v) == <<"sk", IF api = "kx" THEN "kx" ELSE "sha512", v>>
PwKey(o)       == <<"pwhash", o>>
Subkey(k, n)   == <<"kdf", k, n>>

\* The point that belongs to a scalar; BadPk is any that libsodium refuses.
Pub(sk) == <<"pk", sk>>
BadPk   == <<"bad">>
DH(sk, pk) == <<"dh", {sk, pk[2]}>>

\* One half of the hash over the shared point and the two public keys.
KxHalf(i, q, client_pk, server_pk) == <<"kx", i, q, client_pk, server_pk>>

\* Ed25519 secret keys contain the seed and the public key.
EdSk(v)   == <<"edsk", v>>
EdPub(sk) == IF sk = Zero THEN Zero ELSE <<"edpk", sk[2]>>
EdSeed(sk) == IF sk = Zero THEN Zero ELSE sk[2]

-----------------------------------------------------------------------------
(* Newtypes                                                                *)

SecretTypes == {"Seed", "box_sk", "kx_sk", "sign_sk", "SessionKey", "GroupElement"}
PublicTypes == {"kdf_key"}
Types       == SecretTypes \cup PublicTypes \cup {"slice"}

None == [of |-> "none"]
Cell(ty, v, o)  == [ty |-> ty, val |-> v, origin |-> o, live |-> TRUE]
Fresh           == [ty |-> "slice", val |-> Zero, origin |-> None, live |-> FALSE]
Live(ty)        == {s \in Slots : mem[s].live /\ mem[s].ty = ty}
Free            == {s \in SlotsOf[uses] : ~mem[s].live}
Exposure(ty, v) == IF ty \in SecretTypes THEN {} ELSE {v}

\* A function's result is put into a free slot.
Put(t, ty, v, o) ==
  /\ mem'     = [mem EXCEPT ![t] = Cell(ty, v, o)]
  /\ exposed' = exposed \cup Exposure(ty, v)

\* The same, by way of an array of the function that is not zeroed.
PutByArray(t, ty, v, o) ==
  /\ mem'     = [mem EXCEPT ![t] = Cell(ty, v, o)]
  /\ exposed' = exposed \cup {v}

NoOut == [op |-> "none"]
Quiet == out' = NoOut

\* What is left in the slot of a value that went out of scope.
Dropped(c) ==
  [ty |-> c.ty, val |-> IF c.ty \in SecretTypes THEN Zero ELSE c.val,
   origin |-> None, live |-> FALSE]

Drop(s) ==
  /\ mem[s].live
  /\ mem'     = [mem EXCEPT ![s] = Dropped(@)]
  /\ guarded' = guarded \ {s}
  /\ Quiet
  /\ UNCHANGED <<uses, locked, disk, drawn, pubs, history, exposed>>

Clone(s, t) ==
  /\ mem[s].live /\ t \in Free
  /\ PutByArray(t, mem[s].ty, mem[s].val, mem[s].origin)
  /\ Quiet
  /\ UNCHANGED <<uses, locked, disk, drawn, pubs, history, guarded>>

MovedFrom(c) == [ty |-> c.ty, val |-> c.val, origin |-> None, live |-> FALSE]

\* A move copies the bytes and drops nothing: the old slot keeps them.
Move(s, t) ==
  /\ mem[s].live /\ t \in Free
  /\ mem'     = [mem EXCEPT ![t] = mem[s], ![s] = MovedFrom(mem[s])]
  /\ exposed' = exposed \cup {mem[s].val}
  /\ guarded' = guarded \ {s}
  /\ Quiet
  /\ UNCHANGED <<uses, locked, disk, drawn, pubs, history>>

\* `Seed::from_slice`; the slice has the right length.
SeedFromSlice(s, t) ==
  /\ s \in Live("slice") /\ t \in Free
  /\ Put(t, "Seed", mem[s].val, mem[s].origin)
  /\ Quiet
  /\ UNCHANGED <<uses, locked, disk, drawn, pubs, history, guarded>>

-----------------------------------------------------------------------------
(* utils                                                                   *)

Zeroed(c) == [ty |-> c.ty, val |-> Zero, origin |-> None, live |-> c.live]

Memzero(s) ==
  /\ mem[s].live
  /\ mem' = [mem EXCEPT ![s] = Zeroed(@)]
  /\ Quiet
  /\ UNCHANGED <<uses, locked, disk, drawn, pubs, history, guarded, exposed>>

CanLock(p) == p \in locked \/ Cardinality(locked) < MaxLocked

\* Fault: the return code is not looked at.
MlockOk_Always(s) == TRUE

\* `mlock` returns Ok exactly if the operating system locked the page.
MlockOk(s) == CanLock(PageOf[s])

Mlock(s) ==
  /\ mem[s].live
  /\ locked'  = IF CanLock(PageOf[s]) THEN locked \cup {PageOf[s]} ELSE locked
  /\ guarded' = IF MlockOk(s) THEN guarded \cup {s} ELSE guarded
  /\ out'     = [op |-> "mlock", ok |-> MlockOk(s)]
  /\ UNCHANGED <<uses, mem, disk, drawn, pubs, history, exposed>>

\* `munlock` zeroes the slice, then asks the operating system to unlock its
\* page, whoever else is on it; that may fail.
Munlock(s, ok) ==
  /\ mem[s].live
  /\ mem'     = [mem EXCEPT ![s] = Zeroed(@)]
  /\ locked'  = IF ok THEN locked \ {PageOf[s]} ELSE locked
  /\ guarded' = {t \in guarded : PageOf[t] # PageOf[s]}
  /\ out'     = [op |-> "munlock", ok |-> ok]
  /\ UNCHANGED <<uses, disk, drawn, pubs, history, exposed>>

\* The operating system writes a page to the swap device.
Swap(p) ==
  /\ p \notin locked
  /\ LET on == {s \in Slots : PageOf[s] = p}
     IN  /\ out'     = [op |-> "swap", slots |-> on]
         /\ exposed' = exposed \cup {mem[s].val : s \in on}
  /\ UNCHANGED <<uses, mem, locked, disk, drawn, pubs, history, guarded>>

-----------------------------------------------------------------------------
(* Random keys, and key pairs                                              *)

\* A Seed or a kdf::Key of random bytes (`kdf::gen_key`).
GenKey(ty, t, r) ==
  /\ t \in Free /\ r \in Draws \ drawn
  /\ drawn' = drawn \cup {r}
  /\ Put(t, ty, Random(r), None)
  /\ Quiet
  /\ UNCHANGED <<uses, locked, disk, pubs, history, guarded>>

SkOf(api, v) == IF api = "sign" THEN EdSk(v) ELSE SeedSk(api, v)
PkOf(ty, sk) == IF ty = "sign_sk" THEN EdPub(sk) ELSE Pub(sk)
SkType(api)  == CASE api = "sign" -> "sign_sk" [] api = "kx" -> "kx_sk"
                  [] OTHER -> "box_sk"

Publish(pk) ==
  /\ Cardinality(pubs \cup {pk}) <= MaxPubs
  /\ pubs' = pubs \cup {pk}

\* `gen_keypair` of sign draws a seed, those of box_ and kx a secret key.
GenKeypair(api, t, r) ==
  LET sk == IF api = "sign" THEN EdSk(Random(r)) ELSE Random(r)
  IN  /\ t \in Free /\ r \in Draws \ drawn
      /\ drawn' = drawn \cup {r}
      /\ Put(t, SkType(api), sk, None)
      /\ Publish(PkOf(SkType(api), sk))
      /\ Quiet
      /\ UNCHANGED <<uses, locked, disk, history, guarded>>

KeypairFromSeed(api, s, t) ==
  LET sk == SkOf(api, mem[s].val)
      pk == PkOf(SkType(api), sk)
  IN  /\ s \in Live("Seed") /\ t \in Free
      /\ Put(t, SkType(api), sk, None)
      /\ Publish(pk)
      /\ ids' = IF mem[s].origin = None THEN ids
                ELSE ids \cup {[api |-> api, origin |-> mem[s].origin, pk |-> pk]}
      /\ Quiet
      /\ UNCHANGED <<uses, locked, disk, drawn, sessions, guarded>>

\* `SecretKey::public_key` of box_ and sign.
PublicKey(s) ==
  /\ s \in Live("box_sk") \cup Live("sign_sk")
  /\ Publish(PkOf(mem[s].ty, mem[s].val))
  /\ Quiet
  /\ UNCHANGED <<uses, mem, locked, disk, drawn, history, guarded, exposed>>

\* `sign::to_curve25519_sk` hashes the seed the way box_::keypair_from_seed does.
\* If it fails, its result is dropped.
ToCurve25519Sk(s, t, ok) ==
  /\ s \in Live("sign_sk") /\ t \in Free
  /\ IF ok
     THEN Put(t, "box_sk", SeedSk("box", EdSeed(mem[s].val)), None)
     ELSE /\ mem' = [mem EXCEPT ![t] = Dropped(Cell("box_sk", Zero, None))]
          /\ UNCHANGED exposed
  /\ out' = [op |-> "to_curve25519_sk", ok |-> ok]
  /\ UNCHANGED <<uses, locked, disk, drawn, pubs, history, guarded>>

\* `sign::to_curve25519_pk`: Err for what is no point of the main subgroup.
ToCurve25519Pk(pk) ==
  /\ IF pk \in {Zero, BadPk} THEN UNCHANGED pubs
     ELSE Publish(Pub(SeedSk("box", pk[2])))
  /\ out' = [op |-> "to_curve25519_pk", ok |-> pk \notin {Zero, BadPk}]
  /\ UNCHANGED <<uses, mem, locked, disk, drawn, history, guarded, exposed>>

-----------------------------------------------------------------------------
(* kx, scalarmult and kdf                                                  *)

\* `server_session_keys` and `client_session_keys`, for an accepted peer.
ServerKeys(pk, sk, peer) ==
  [rx |-> KxHalf(2, DH(sk, peer), peer, pk), tx |-> KxHalf(1, DH(sk, peer), peer, pk)]

\* Fault: both sides take the halves in the same order.
ClientKeys_Unswapped(pk, sk, peer) ==
  [rx |-> KxHalf(2, DH(sk, peer), pk, peer), tx |-> KxHalf(1, DH(sk, peer), pk, peer)]

ClientKeys(pk, sk, peer) ==
  [rx |-> KxHalf(1, DH(sk, peer), pk, peer), tx |-> KxHalf(2, DH(sk, peer), pk, peer)]

\* Fault: the return code is not looked at.
Accepted_Always(pk) == TRUE

Accepted(pk) == pk # BadPk

\* What a refused key leaves in `rx` and `tx`.
NoKeys == [rx |-> Zero, tx |-> Zero]

\* Two slots get the keys; the Err path drops them.
SessionKeys(role, s, pk, peer, t, u) ==
  LET keys == CASE peer = BadPk     -> NoKeys
                [] role = "server"  -> ServerKeys(pk, mem[s].val, peer)
                [] role = "client"  -> ClientKeys(pk, mem[s].val, peer)
  IN  /\ s \in Live("kx_sk") /\ {t, u} \subseteq Free /\ t # u
      /\ IF Accepted(peer)
         THEN /\ Cardinality(sessions) < MaxSessions
              /\ mem' = [mem EXCEPT ![t] = Cell("SessionKey", keys.rx, None),
                                    ![u] = Cell("SessionKey", keys.tx, None)]
              /\ sessions' = sessions \cup
                   {[role |-> role, pk |-> pk, sk |-> mem[s].val, peer |-> peer,
                     rx |-> keys.rx, tx |-> keys.tx]}
         ELSE /\ mem' = [mem EXCEPT ![t] = Dropped(Cell("SessionKey", keys.rx, None)),
                                    ![u] = Dropped(Cell("SessionKey", keys.tx, None))]
              /\ UNCHANGED sessions
      /\ out' = [op |-> "session_keys", ok |-> Accepted(peer)]
      /\ UNCHANGED <<uses, locked, disk, drawn, pubs, ids, guarded, exposed>>

\* `scalarmult` refuses a point that gives zero; `scalarmult_base` has one of
\* its own.  Both copy an array into a GroupElement, a secret newtype.
Scalarmult(s, p, t) ==
  /\ s \in Live("kx_sk") \cup Live("box_sk") /\ t \in Free
  /\ IF p = BadPk THEN UNCHANGED <<mem, exposed>>
     ELSE PutByArray(t, "GroupElement", DH(mem[s].val, p), None)
  /\ out' = [op |-> "scalarmult", ok |-> p # BadPk]
  /\ UNCHANGED <<uses, locked, disk, drawn, pubs, history, guarded>>

ScalarmultBase(s, t) ==
  /\ s \in Live("kx_sk") \cup Live("box_sk") /\ t \in Free
  /\ PutByArray(t, "GroupElement", Pub(mem[s].val), None)
  /\ Quiet
  /\ UNCHANGED <<uses, locked, disk, drawn, pubs, history, guarded>>

\* `derive_from_key` into a slice of n bytes, which it does not touch on Err.
DeriveFromKey(s, t, n) ==
  /\ s \in Live("kdf_key") /\ t \in Free
  /\ IF n \in BYTES_MIN..BYTES_MAX
     THEN Put(t, "slice", Subkey(mem[s].val, n), None)
     ELSE UNCHANGED <<mem, exposed>>
  /\ out' = [op |-> "derive_from_key", ok |-> n \in BYTES_MIN..BYTES_MAX]
  /\ UNCHANGED <<uses, locked, disk, drawn, pubs, history, guarded>>

-----------------------------------------------------------------------------
(* pwhash.  `enough`: the operating system has the memory that is asked    *)
(* for; if not, libsodium returns -1 and leaves zeros.                     *)

NoLogin == [alg |-> "none", pw |-> "none"]

\* `gen_salt`; the program saves the salt.
GenSalt(r) ==
  /\ disk.salt = Zero /\ r \in Draws \ drawn
  /\ drawn' = drawn \cup {r}
  /\ disk'  = [disk EXCEPT !.salt = Random(r)]
  /\ Quiet
  /\ UNCHANGED <<uses, mem, locked, pubs, history, guarded, exposed>>

\* Fault: the return code is not looked at.
Derived_Always(enough) == TRUE

Derived(enough) == enough

\* `derive_key` into a slice; the program drops it on Err.
DeriveKey(alg, pw, lim, t, enough) ==
  LET o == [of |-> "password", alg |-> alg, pw |-> pw, salt |-> disk.salt, lim |-> lim]
  IN  /\ disk.salt # Zero /\ t \in Free
      /\ IF Derived(enough)
         THEN Put(t, "slice", IF enough THEN PwKey(o) ELSE Zero, o)
         ELSE /\ mem' = [mem EXCEPT ![t] = Fresh]
              /\ UNCHANGED exposed
      /\ out' = [op |-> "derive_key", ok |-> Derived(enough)]
      /\ UNCHANGED <<uses, locked, disk, drawn, pubs, history, guarded>>

\* `pwhash` into a HashedPassword of zeros, with a salt of its own; the program
\* saves what it gets.  `current`, a history: the last password it got Ok for.
Pwhash(alg, pw, enough) ==
  LET login == [alg |-> alg, pw |-> pw]
  IN  /\ disk' = IF Derived(enough)
                 THEN [salt |-> disk.salt, hashed |-> IF enough THEN login ELSE NoLogin,
                       current |-> login]
                 ELSE disk
      /\ out'  = [op |-> "pwhash", ok |-> Derived(enough)]
      /\ UNCHANGED <<uses, mem, locked, drawn, pubs, history, guarded, exposed>>

\* `pwhash_verify` finds its parameters in the string and needs the same
\* memory again; it refuses a string of another module.
PwhashVerify(alg, pw, enough) ==
  /\ out' = [op |-> "pwhash_verify", login |-> [alg |-> alg, pw |-> pw], enough |-> enough,
             ok |-> enough /\ disk.hashed = [alg |-> alg, pw |-> pw]]
  /\ UNCHANGED <<uses, mem, locked, disk, drawn, pubs, history, guarded, exposed>>

-----------------------------------------------------------------------------
\* The public keys that a call may be given, by type.
KxPks == {pk \in pubs : pk[1] = "pk"}
EdPks == {pk \in pubs : pk[1] = "edpk"} \cup {Zero, BadPk}

Init ==
  /\ uses \in Programs
  /\ mem = [s \in Slots |-> Fresh]
  /\ locked = {} /\ drawn = {} /\ pubs = {} /\ sessions = {} /\ ids = {}
  /\ guarded = {} /\ exposed = {}
  /\ disk = [salt |-> Zero, hashed |-> NoLogin, current |-> NoLogin]
  /\ out = NoOut

\* The process ends, at any point, and another one starts.
Restart ==
  /\ mem' = [s \in Slots |-> Fresh]
  /\ locked' = {} /\ guarded' = {}
  /\ Quiet
  /\ UNCHANGED <<uses, disk, drawn, pubs, history, exposed>>

Memory ==
  \E s \in Slots :
    \/ Drop(s)
    \/ /\ "mlock" \in uses
       /\ Mlock(s) \/ Swap(PageOf[s]) \/ \E ok \in BOOLEAN : Munlock(s, ok)
    \/ "memzero" \in uses /\ Memzero(s)
    \/ "copies" \in uses /\ \E t \in Slots : Clone(s, t) \/ Move(s, t)
    \/ \E t \in Slots : SeedFromSlice(s, t)

KeyPairs ==
  \/ \E t \in Slots, r \in Draws :
       \/ uses \cap {"copies", "mlock"} # {} /\ GenKey("Seed", t, r)
       \/ "kdf" \in uses /\ GenKey("kdf_key", t, r)
       \/ \E api \in uses \cap {"box", "kx", "sign"} : GenKeypair(api, t, r)
  \/ \E s, t \in Slots :
       \/ \E api \in uses \cap {"box", "kx", "sign"} : KeypairFromSeed(api, s, t)
       \/ \E ok \in BOOLEAN : ToCurve25519Sk(s, t, ok)
  \/ \E s \in Slots : PublicKey(s)
  \/ "sign" \in uses /\ \E pk \in EdPks : ToCurve25519Pk(pk)

Exchange ==
  \E s, t \in Slots :
    \/ \E pk \in KxPks, peer \in KxPks \cup {BadPk}, u \in Slots, role \in {"server", "client"} :
         SessionKeys(role, s, pk, peer, t, u)
    \/ /\ "scalarmult" \in uses
       /\ \/ \E p \in KxPks \cup {BadPk} : Scalarmult(s, p, t)
          \/ ScalarmultBase(s, t)
    \/ \E n \in SubkeyLens : DeriveFromKey(s, t, n)

PasswordUse ==
  /\ "pwhash" \in uses
  /\ \/ \E r \in Draws : GenSalt(r)
     \/ \E alg \in Algs, pw \in Passwords, enough \in BOOLEAN :
          \/ \E lim \in Limits, t \in Slots : DeriveKey(alg, pw, lim, t, enough)
          \/ Pwhash(alg, pw, enough)
          \/ PwhashVerify(alg, pw, enough)

Next == Memory \/ KeyPairs \/ Exchange \/ PasswordUse \/ Restart

Spec == Init /\ [][Next]_vars

-----------------------------------------------------------------------------
(* Properties                                                              *)

\* Types of the memory, the locks and the histories.
TypeOK ==
  /\ mem = [s \in Slots |-> mem[s]]
  /\ \A s \in Slots : mem[s].live \in BOOLEAN /\ mem[s].ty \in Types
  /\ guarded \subseteq Slots

\* A client and a server that each used their own key pair and the other's
\* public key have the same keys, crosswise; and whoever shares a key used the
\* same two public keys in different roles.  A session's two keys differ.
\* Sessions of refused keys do not exist.  This holds whatever the program did
\* to the slots in between.
SessionsAgree ==
  \A c, d \in sessions :
    /\ c.rx # c.tx /\ c.peer # BadPk
    /\ (/\ c.role = "client" /\ d.role = "server"
        /\ c.pk = Pub(c.sk) /\ d.pk = Pub(d.sk) /\ c.peer = d.pk /\ d.peer = c.pk)
       => c.rx = d.tx /\ c.tx = d.rx
    /\ c.rx = d.tx => c.role # d.role /\ c.pk = d.peer /\ c.peer = d.pk

\* A page is never swapped while it holds a slot that `mlock` returned Ok for,
\* unless a neighbour on the page was unlocked since.
LockedStaysInRam ==
  out.op = "swap" => out.slots \cap guarded = {}

\* A password always gives the same key pair for the same salt and limits,
\* across restarts and failed derivations.
SameIdentity ==
  \A i, j \in ids : (i.api = j.api /\ i.origin = j.origin) => i.pk = j.pk

\* `pwhash_verify` accepts exactly the password that `pwhash` last returned Ok
\* for, provided that it gets the memory it needs.
LoginIsExact ==
  out.op = "pwhash_verify" => (out.ok <=> out.enough /\ out.login = disk.current)

\* The keys of a session are those of its arguments.
SessionsInv ==
  \A c \in sessions :
    /\ c.peer # BadPk
    /\ \/ /\ c.role = "server"
          /\ c.rx = ServerKeys(c.pk, c.sk, c.peer).rx /\ c.tx = ServerKeys(c.pk, c.sk, c.peer).tx
       \/ /\ c.role = "client"
          /\ c.rx = ClientKeys(c.pk, c.sk, c.peer).rx /\ c.tx = ClientKeys(c.pk, c.sk, c.peer).tx

\* What is said to come from a password does.
OriginInv ==
  /\ \A s \in Slots : mem[s].origin # None => mem[s].val = PwKey(mem[s].origin)
  /\ \A i \in ids : i.pk = PkOf(SkType(i.api), SkOf(i.api, PwKey(i.origin)))

\* What is not in a secret newtype counts as exposed; so does what is left of
\* a secret newtype in a slot that is no longer in use.
ExposedInv ==
  \A s \in Slots :
    ~mem[s].live \/ mem[s].ty \notin SecretTypes => mem[s].val \in exposed \cup {Zero}

\* The inductive invariant.
KeyInv ==
  /\ TypeOK
  /\ ExposedInv
  /\ SessionsInv
  /\ OriginInv
  /\ \A s \in guarded : PageOf[s] \in locked
  /\ disk.hashed = disk.current
  /\ LockedStaysInRam /\ LoginIsExact
=============================================================================
