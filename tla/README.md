# A TLA+ verification of sodiumoxide

sodiumoxide is a Rust layer over libsodium: it turns C functions, buffers and
return codes into types, `Result`s and `Vec`s. The cryptography is libsodium's
and is outside this project. What sodiumoxide itself decides is the *protocol of
use*: which calls may follow which, which state a failed call leaves behind, what
a buffer shows, when a stream is over, and what holds when several threads or
several datagrams arrive in an order nobody wrote down. That is what is modelled
here.

libsodium, the network and the calling program are external. A libsodium state
is represented by the *transcript* it has absorbed (key, messages, rekeys), so
that two states agree exactly when their histories do, and a ciphertext or
signature is a record of what it was made from. This is the usual ideal view of
authenticated encryption and hashing: nothing is forged, nothing collides.

## 1. Inventory

Paths are relative to the repository; `PROJECT.json` gives lines.

| Component | State | Operations | Hard behaviours | What makes it correct |
|---|---|---|---|---|
| `crypto::secretstream` | libsodium state and `finalized` at both ends, recycled `Vec`s | `init_push`, `push`, `push_to_vec`, `finalize`, `init_pull`, `pull`, `pull_to_vec`, `rekey` | lost, duplicated, reordered, foreign datagrams; a push that fails after `finalized` was set; an unknown tag after the state advanced; rekeys out of step | messages in order, each once; the end is never faked; the buffer shows only authenticated bytes; the pull loop ends |
| `crypto::hash`, `auth`, `generichash`, `sign`: `State` | the libsodium state inside a Rust value, `Copy` in two of them | `new`/`init`, `update`, `finalize`, `verify`, drop, copies | copies that diverge, a State used after its libsodium state was finalized, lengths at their limits | `finalize` and `verify` depend on the concatenation of what was fed, on nothing else |
| `init`, `randombytes`, `gen_*`, `aead::aes256gcm::Aes256Gcm` | libsodium's global flags, CPU features, the generator's seed | `init`, every random function, `Aes256Gcm::new` and its methods | threads racing through the first initialization, reading a flag that is being written | the generator is seeded by one thread at a time, init is idempotent and returns, no AES instruction without AES |
| `aead`, `secretbox`, `box_`, `sealedbox` | the caller's buffers (encrypted in place), precomputed keys | `seal`, `open`, their `_detached` and `_precomputed` forms | failure in place, return codes that are not looked at, short ciphertexts | a successful open restores exactly what was sealed; a failed one leaves the ciphertext, but for `aead` in place |
| newtypes, `utils` | byte arrays in memory, locked pages | `from_slice`, serde visitors, `Drop`, `Clone`, comparisons, `increment_le`, `add_le`, `memzero`, `memcmp`, `mlock`, `munlock` | wrap-around, short sequences, moves that leave copies, locks per page, a page swapped at the wrong moment | nonces do not repeat before they are used up; comparisons agree; a locked secret stays in RAM |
| `stream` | the nonce, the block counter | `stream`, `stream_xor` with and without a counter, in place or not | parts in any order, counters and nonces that wrap, lost messages | a part is encrypted like the whole; no keystream byte is used twice |
| `padding`, `base64`, `hex` | the caller's buffer | `pad`, `unpad`, `encode`, `decode` | buffer lengths, leftovers in the buffer, overflow, texts from anywhere | round trips; one text per value and variant; buffers large enough |
| `kx`, `kdf`, `scalarmult`, `pwhash` | keys in memory, salt and hashed password on disk | key pairs, key exchange, derivation, password hashes | roles swapped, refused points, lack of memory, restarts | both ends get the same keys; a password gives the same identity and the right login |
| `onetimeauth`, `verify` | none | `authenticate`, `verify`, comparisons | - | as `auth` and `memcmp` |
| `shorthash`, `version` | none | one libsodium call each | none of their own | - |
| `libsodium-sys/build.rs` | build directory, environment, what cargo remembers | choice of the library, source build | interrupted builds, stale environment, a directory shared by several builds | the linked library is the one asked for, compiled from one version of the sources with the flags asked for |

The components interact little: every module calls libsodium through
`libsodium-sys`; key and nonce generation go through `randombytes`, which
depends on `init`; `sealedbox` and `sign` use the key types of `box_`; all keys
and nonces are newtypes of one macro.

## 2. Modules

| Module | What it is |
|---|---|
| `OrderedChannel` | what `secretstream` promises: per channel a sequence of items, read from the front, each once, closed by a final item |
| `SecretStream`, `MCSecretStream`, `SecretStreamProofs` | both ends of `secretstream` and the network between them; TLC instances; proofs |
| `MultiPart`, `MCMultiPart`, `MultiPartProofs` | the `State` types of `hash`, `auth`, `generichash` and `sign`, and the one-piece functions beside them, of `onetimeauth` too |
| `OnceInit` | what `init` promises: every call takes effect at one moment, a ready library stays ready, and no call fails on one |
| `LibraryInit`, `MCLibraryInit`, `LibraryInitProofs` | `init`, random numbers and `Aes256Gcm` under threads |
| `AuthEnc`, `MCAuthEnc`, `AuthEncProofs` | `secretbox`, `box_` with and without precomputed keys, `sealedbox` and `aead` |
| `Keystream`, `MCKeystream`, `KeystreamProofs` | `stream`, and the nonces that `increment_le` and `add_le` count |
| `KeyMaterial`, `MCKeyMaterial`, `KeyMaterialProofs` | secret newtypes in memory, `mlock`, key pairs, `kx`, `kdf`, `scalarmult`, `pwhash` |
| `Encodings`, `MCEncodings`, `EncodingsProofs` | `padding`, `hex`, `base64`, serde and `from_slice`, comparisons, `verify` |
| `Build`, `MCBuild`, `BuildProofs` | `libsodium-sys/build.rs` under cargo |

Definitions named `X_Something` with the comment "Fault" are wrong variants of
the definition that follows them: with `X` replaced by one of them, a property
has to fail. They are not part of any specification.

### SecretStream

| Model | Code (`secretstream_macros.rs`) |
|---|---|
| `tx[h]` | the `Stream<Push>` whose header is `h`: `status`, libsodium state, `finalized` |
| `rx` | the `Stream<Pull>` |
| `cbuf`, `mbuf` | the recycled `Vec`s given to `push_to_vec` and `pull_to_vec` |
| `net` | datagrams on the way: any subset may arrive, in any order, any number of times (external) |
| `got` | history: the results of `pull` on the present stream |
| `uses` | what the two programs use: headers, keys, messages, tags, rekeys, and which libsodium calls may fail |
| `inits` | bound |

Each public method is one action (`InitPush`, `Push`, `PushToVec`, `Finalize`,
`RekeyPush`, `InitPull`, `Pull`, `PullToVec`, `RekeyPull`), with the order of
effects of the code: `push_check` sets `finalized` before libsodium is called, so
a failing push closes the stream with no final message; `pull_impl` advances the
state and fills the buffer before the tag byte is looked at. `Transmit` is a
program that sends whatever its recycled `Vec` holds, `ForeignPush` a peer that
uses libsodium directly and pushes a tag byte that is no `Tag`. The puller may be
given any datagram of `net`, and noise of lengths on both sides of the bounds of
`pull_check`.

A stream state is `[key, hdr, log, rk]`: the messages absorbed, and the explicit
rekeys since the last one. A push with `Tag::Rekey` is an entry of the log like
any other: libsodium rekeys by itself on both sides.

### MultiPart

`slot[s]` is a variable of the program: the State in it, and as history what was
fed, with which key, and whether `verify` was called. libsodium's
`final` functions ruin the state they are given; what is computed from a ruined
state is `Junk`. `finalize(mut self)` therefore behaves in two ways
(`AfterFinalize`): the types that are `Copy` are copied and the copy is ruined,
the others are moved out and dropped. (So `finalize` does not consume a
`hash::State`, though `hash_macros.rs:56` says so; `PartsMakeTheWhole` shows that
finalizing it again is harmless.) `sign::State::verify(&mut self)` ruins the
State in place. `ReuseAfterVerify` says whether the program goes on using a State
after `verify`. libsodium's `update` and `final` are taken not to fail.

`Make` and `Check` are `authenticate` and `verify` of `auth` and `onetimeauth` and
the detached functions of `sign` (which the `Signer` and `Verifier` traits call):
what was made, by `finalize` or in one piece, is given to whichever function takes
its type, so prehashed and ordinary signatures meet; that they differ is an
assumption about libsodium. `crypto_generichash_init` itself refuses only what is
too long (`FfiGenericOk`), and takes a key of length 0 for none (`FfiGenericKey`), so
the lower limits are those of `unwrap_out_len` and `unwrap_key`. `SignAndOpen` is `sign` and
`verify` with the signed message cut off or extended on its way; `OpenBuffer` is
the over-long `Vec` that `verify` truncates.

### LibraryInit

Threads call `init`, random functions and `Aes256Gcm` in any order.
`sodium_init` is external: a lock, then CPU detection, seeding and the
`initialized` flag as separate steps; it may give up (-1) before it does
anything. A random function called before the generator is seeded seeds it with
no lock. Two histories say what the program did that the documentation advises
against: `early` that random numbers were drawn before any `init` had returned
`Ok`, `forged` that it wrote down the public unit struct `Aes256Gcm` instead of
calling `new`. The properties hold as long as it did not; TLC explores what
happens afterwards too, and `CheckIsUnavoidable`, which makes no such exception, is
refuted (finding 4).

### AuthEnc

| Model | Code |
|---|---|
| `buf[b]` | a byte slice of the program, sealed and opened in place |
| `tags` | the `Tag` values it holds, in no particular order: any tag may be tried on any slice |
| `wire` | the ciphertexts that `seal` and `sealedbox::seal` returned, and bytes that nobody sealed |
| `uses` | the interfaces and arguments that the program uses |
| `layers[b]` | history: the seals of `b` that have not been opened |
| `struck` | history: the slices in which a failed `aead::open_detached` left zeros |
| `made` | history: what `seal` was called with |
| `out` | the last result |

`SealDetached`, `OpenDetached`, `Seal` and `Open` stand for the functions of that
name in four interfaces (`secretbox`, `box_`, `box_` with a precomputed key,
`aead`); a *handle* names the interface and the key arguments. `SealedBoxSeal` and
`SealedBoxOpen` are those of `sealedbox`.

A slice is a message and the set of keystreams it is combined with, so sealing it
twice under the same key and nonce gives back the message, as it does in the
libsodium ciphers. A tag is the set of what it authenticates: one computation, or
none for a tag that stayed zero. A shared key of `box_` is the set of the two key
pairs it is computed from, so both sides have the same one, and the precomputed
key is the same key again.

Two things about libsodium matter here and are modelled as external facts:

- it refuses public keys of small order (`RefusedPks`): the `crypto_box`
  functions return -1 before they write anything. `box_::seal`,
  `seal_detached`, `precompute` and `sealedbox::seal` do not look at the return
  code, so they hand out untouched memory, an unchanged slice and a zero tag, the
  zero key, or zeros;
- when verification fails, the `aead` functions set the output buffer to zero,
  those of `secretbox` and `box` do not touch it (`AfterFailure`). In the library
  that the repository ships for Windows (`libsodium-sys/mingw/win64/libsodium.a`)
  the former call `memset` on that path. So `aead_macros.rs:138`, "the ciphertext
  is not modified", is not what happens there: `StillSealed` states it and is refuted
  (finding 3). `Restorable` is what remains true of all interfaces: the seals are on
  record as before, and the slice holds either the sealed bytes or, if it was struck,
  zeros.

### Keystream

| Model | Code |
|---|---|
| `nonce[p]`, `togo[p]` | the `Nonce` of peer `p`, and by how much it must still be raised |
| `buf[p]` | the message `p` encrypts, and which bytes are still plain |
| `wire` | what was sent |
| `want[p]`, `rcvd[p]`, `got` | the receiver's own count, and the last plaintext |

A nonce is a number below `256^NONCEBYTES`, here `Stride * PerPeer`: peers with a
common key count in steps of `Stride`, each in its own lane, as the documentation
of `box_` proposes (`box_/mod.rs`). `Advance` is `add_le` with a slice of the right
length or another one, which is refused and must leave the nonce alone;
`Increment` is `increment_le_inplace`. `EncryptPart` is `stream_xor_ic_inplace` on
whole blocks, in any order; `EncryptInplace` and `SendCopy` are the other
functions. A byte is the set of keystream bytes it was combined with.

### KeyMaterial

`mem[s]` is a place for a key in memory: its type, its bytes (a term over random
draws) and, as history, the password it came from. A secret newtype is zeroed by
`Drop`; a move leaves the old place as it is; a public newtype, a `Copy` type, is
not zeroed (`kdf::Key` is one). `clone`, `scalarmult` and `scalarmult_base` go through
a plain array that nothing zeroes (`PutByArray`). The history `exposed` collects the
bytes that stay behind in these ways or were swapped. No property says that a
dropped secret is gone: after any of these it is not. `Swap` is the operating system writing a page that
is not locked; `mlock` may be refused, and `munlock` unlocks a page with everything
on it. `disk` survives `Restart`, memory does not. Failures: points that libsodium
refuses (`BadPk`), no memory for `derive_key`, `pwhash` and `pwhash_verify`
(`enough`), subkeys of a wrong length. Argon2i, Argon2id and scrypt are the
elements of `Algs`; their modules have the same control. `uses` says which modules
a program calls: programs that use all of them at once only multiply the states.
`SlotsOf` says how many places each program has: the one that only exchanges keys
has room for the secret keys of client and server and both keys of a session.

### Encodings

Three jobs that do not share anything: padding in one buffer of `CAP` bytes,
text and newtypes, comparisons. `Pad` and `Unpad` nest, with any block size and
with whatever earlier messages left in the buffer. Digits are regrouped crumb by
crumb (a crumb is two bits: a byte has four, a Base64 digit three, a hexadecimal
digit two), so that a text is what the encoders make of the bytes; a character is its
digit and whether it is the other form of it (upper case, or one of the two that
differ between the Base64 alphabets). `HexEncodedLen` and `DecodedLen` compute with
`usize` below `USIZE`, and `checked_mul` and `checked_add` fail there.
`VisitSeq` is the sequence visitor of serde, which fills a short sequence with
zeros; the deserializer refuses what is left over.

### Build

Every call of cargo has an environment and a version of the sources; it reuses the
record of the last successful script unless a variable changed that the script
named (`Watched`). The script names no files, so a record is reused also if the
sources have changed since; `linked` keeps both the version that this call of cargo
had and the one of which the record was made. The source build copies, configures, makes and installs, each a
step that may fail or be interrupted and leaves what it wrote. `fs::copy` keeps
permissions, so a file that is read-only in the source tree (`readonly` of a setup)
can be copied once, and every later copy of it fails. `make` compiles
what is newer than its object. `Dir` is `OUT_DIR`, or the one fallback directory
for all paths with a space. `setup` fixes the platform that the script was
compiled for, the target, the feature, the read-only files and who builds. (`cfg!` in a build script
speaks of the host; `LinkName` of the target.)

## 3. Runs

| Run | Checks | Instance | Shows |
|---|---|---|---|
| `stream` | `IndInv`, `InOrderDelivery`, `NoTruncation`, `FinalIsLast`, `BufferAuthentic`, `AstrayStaysAstray`, `FinalReaches`, `ImplementsChannel` | three programs: one stream with all 4 tags, an unknown one, 2 keys and a rekey before each message at either side; one stream with 3 message lengths and 2 ads; 2 streams with 2 keys between which the puller starts over. Up to 2 messages per stream; libsodium calls may fail in each | every input `push` and `pull` distinguish; rekeys out of step and wrong keys are never repaired by accident; replays between streams; refinement of `OrderedChannel`; the pull loop ends |
| `multipart` | `PartsMakeTheWhole`, `VerifyIsExact`, `OpensAsSigned`, `PartsInv` | 2 variables (interchangeable), 3 keys, 2 bytes, lengths and keys on and outside the limits | `finalize` = one-shot function; tags and signatures are accepted for exactly what they were made of; lengths and keys outside the limits never reach libsodium |
| `multipart_verify` | `VerifyIsExact` (violated) | 1 variable | finding 1 |
| `init_forged` | `CheckIsUnavoidable` (violated) | 2 threads, both CPUs | finding 4 |
| `init` | `InitInv`, `NoSeedingRace`, `NoIllegalInstruction`, `InitIsAtomic`, `NewIsExactAfterInit`, `InitReturns` | 2 threads, both CPUs, init may fail | racing first use; refinement of `OnceInit`; no call of `init` waits forever |
| `authenc` | `Restorable`, `OpensWhatWasSealed`, `OpenIsExact`, `VecFits` | two programs in place: 2 slices, `secretbox` and `aead`, or `box_` with and without precomputed keys and a refused key, 3 tags, 2 seals on a slice; one program that sends: all 5 interfaces, 2 people and a refused key, an empty and an ordinary message, noise of 3 lengths, 2 ephemeral keys | nested seals opened in any order with right and wrong tags, keys and interfaces; `open` succeeds exactly on what was sealed for it, and its buffer fits |
| `authenc_refused` | `SealsInPlace` (violated) | `box_` in place | finding 2 |
| `authenc_aead` | `StillSealed` (violated) | `aead` in place | finding 3 |
| `keystream` | `CountInv`, `NoReuse`, `PartsMakeTheWhole`, `Restores` | 2 peers in steps of 2, nonces of 2 bits, so 2 per peer and a wrap-around within 3 messages, blocks of 2 bytes, messages of 1 and 3 | peers never meet, not across the wrap; a peer repeats itself exactly when its nonces are used up; parts are like the whole; the receiver stays in step |
| `encodings` | `Unpads`, `TextIsExact`, `EqMatchesOrd` | bytes of 4 bits, a buffer of 7, block sizes 0 to 4, 3 nested paddings, messages of up to 4 bytes, all texts of up to 4 of 7 characters | round trips and nothing but round trips, through newtypes too |
| `keys` | `SessionsAgree`, `LockedStaysInRam`, `SameIdentity`, `LoginIsExact`, `KeyInv` | 7 kinds of program with 3 slots, one of them with 4, on 2 pages, 2 random draws, 2 passwords, one page may be locked | key exchange between two key pairs and of one with itself, memory and passwords, with restarts and failures |
| `build` | `LinkFollowsEnv`, `OwnLibrary`, `BuildInv` | 3 checkouts of which 2 share the fallback directory, 2 source files, of which one may be read-only, 2 versions, all 48 environments, 4 targets on 3 hosts, up to 3 calls of cargo | interrupted and repeated builds; environments and sources that change between builds |

*Bounds.* `MaxLog`, `MaxRekeys`, `MaxInits`, `MaxFed`, `MaxTags`, `MaxLayers`,
`MaxWire`, `MaxMsgs`, `MaxPads`, `MaxPubs`, `MaxSessions` and the `runs` of a setup
cap counters. Two messages are enough for reordering and duplication; two streams
for a replay from one into the other; two seals on a slice to open them in the
wrong order or with each other's tags; two sent ciphertexts to take one for the
other; three messages of a peer with two nonces for a repetition; a message of two
blocks, the last one short, for all ways to cut it; three builds for a failed one
between two of different versions; four places for the secret keys of two peers
and the two keys of a session. Lengths matter only in comparison with
`ABYTES`, `MACBYTES`, `SEALBYTES`, `messagebytes_max()`, block sizes and the limits
of `generichash` and `kdf`, so the instances use small numbers on both sides of
each. In `Encodings` a byte is four crumbs, of one bit instead of two, which keeps
the number of digits per byte: 2 in hex, 4 digits for 3 bytes in Base64. The proofs do
not depend on any of these bounds. The passing runs reach between 45 000 and
a million states.

*Fairness.* `stream` assumes that the pulling program keeps pulling (the
`while stream.is_not_finalized()` loop of the documentation) as long as some
datagram in `net` advances it, and that it follows the pusher's rekeys
(`RekeyInStep`, the "synchronized manner" that `rekey` asks for); it may rekey more
often, and then the property promises nothing. Nothing is assumed of the
pusher: the property speaks of streams whose final message was sent. Datagrams
never leave `net`, because loss is "not pulled"; the property is about streams of
which nothing was lost for good. `init` assumes that a thread inside a call keeps
running and that the lock is granted to a waiting thread in the end (strong
fairness of entering), as for a mutex that does not starve its waiters.

*Deadlock* is checked in every run but two: in `keystream` the peers stop after
`MaxMsgs` messages, in `build` the user after a number of calls of cargo.

## 4. Findings

1. `sign::State::verify(&mut self)` finalizes the State in place and leaves it to
   the caller. A second `verify`, or an `update` and `verify`, on it refuses valid
   signatures. `finalize` takes `self` by value for this very reason
   (`ed25519.rs:209`).
2. `box_::seal_detached` returns normally, with the message unencrypted in the
   slice, if libsodium refuses the public key (`curve25519xsalsa20poly1305.rs:150`).
   The zero tag verifies nothing, so `open_detached` with it fails.
3. A failed `aead::open_detached` leaves zeros in the slice, where
   `aead_macros.rs:138-139` and `aes256gcm.rs:148-149` say that the ciphertext is not
   modified. After one attempt with a wrong tag, the right one fails as well.
4. `Aes256Gcm` is a public unit struct (`aes256gcm.rs:90`), so a program can have one
   without `new` and thus without the runtime check that `README.md:80-82` of the
   repository says the API makes unavoidable.

Remarks, about behaviour of which the documentation says nothing and which the
properties have to except:

- The sequence visitor of serde fills short sequences with zeros. `TextIsExact` speaks
  of newtypes of as many bytes as were encoded.
- `kdf::Key` is a public newtype and not zeroed; no secret is zeroed at the places it
  was moved from, nor in the arrays of `clone` and `scalarmult`.
- `munlock` of a value unlocks its neighbours on the page (`LockedStaysInRam`).
- `SODIUM_STATIC` is read but not watched, so setting it after a build goes unnoticed
  (`LinkFollowsEnv`).
- The script names no files to watch, so after a change of libsodium's sources a
  build that finds its record up to date links the library of the old ones
  (`OwnLibrary` says which).
- A read-only file of the source tree other than `.git` makes the second build fail.
- Builds that share the fallback directory at the same time disturb each other;
  entries that cannot be read are passed over in silence (`OwnLibrary`).
- `unpad` takes the padded length as it is, also beyond the slice.

## 5. Proofs

All theorems hold for every value of the constants that satisfies the named
assumptions (`ConstantsAssumption`, `PartsAssumption`, `InitAssumption`,
`EncAssumption`, `KeystreamAssumption`, `KeyAssumption`, `EncodingAssumption`,
`BuildAssumption`), which TLC evaluates on every run. `WholeFromParts` and
`ExactVerify` also assume a program that lets go of a State after `verify`.

*SecretStreamProofs.* `InOrderDelivery` and `NoTruncation` are not inductive:
that the puller accepts only the next message depends on what the datagrams in
`net` and `cbuf` can be. `IndInv` adds that every sealed datagram is an entry of
its stream's log, sealed in the state before that entry (`Genuine`), that the
puller's log is a prefix of its stream's (`RxFollows`), and that nothing follows a
final entry (`FinalIsLast`). It is proved inductive action by action
(`IndInvHolds`), and the following rest on it: `TypeCorrect`, `DeliveryInOrder`,
`NotTruncated`, `FinalLast`, `BufferIsAuthentic`, `AstrayForGood`, and
`RefinesChannel`: every step of the detailed specification is a step of
`OrderedChannel` or leaves it unchanged.

*MultiPartProofs.* `PartsInv` says that in each State the program still holds,
libsodium has absorbed what was fed, under the key given, with a digest length
within the limits, and that only `verify` ruins it. `WholeFromParts` and `ExactVerify`
follow for programs with `~ReuseAfterVerify`; without that, `multipart_verify` refutes the second.
`OpensExactly` rests on lemmas about cutting sequences: a signed message that was
cut or extended has another message behind its signature.

*LibraryInitProofs.* `InitInv` describes who holds the lock (`LockInv`), what is
known of the library at each place of `sodium_init` (`SodiumInv`) and what a thread
may conclude from its results (`ThreadInv`), for any set of threads. From it:
`SeedingExclusive`, `NoSigill`, `InitStaysOk`, `NewIsExact`, and `RefinesOnce`: every
step is a step of `OnceInit` or leaves it unchanged. A call takes effect where
`sodium_init` fixes its code: in `SodiumDone`, in `SodiumFail`, or in the
`SodiumEnter` that finds the work done; `SodiumInv` is what makes a failure
impossible once the library is ready.

*AuthEncProofs.* `InPlaceInv` joins `Restorable` and `OpensWhatWasSealed` with the
fact that every tag the program holds decrypts to what it was made from, without
which a tag of another seal that fits the same bytes could not be dealt with. It is
proved inductive with lemmas on the keystreams (`Xor` is its own inverse) and on
chains of seals, which grow and shrink at the end. The seals stay on record when an
`aead` failure leaves zeros; that the slice then holds zeros and no other bytes is
part of the invariant. From it: `SealsComeOff` and `OpenUndoesSeal`. `SealedInv` is the same for what is sent: every ciphertext on
`wire` is noise or was sealed with parameters on record, and none under a refused
key. From it: `OpenExactly` and `VecSize`.

*KeystreamProofs.* `CountInv` places every nonce in the sequence of all nonces:
`base + Lane[p] + Stride * k`, reduced, and says which bytes are encrypted. It is
inductive together with `TypeOK` and `Restores` (`IndInvHolds`); the lemmas are
about remainders, which wrap at `Stride * PerPeer`. `Unique` then is arithmetic:
equal nonces mean equal lanes and numbers equal modulo `PerPeer`. `OncePerMessage`
needs that a message fits the block counter.

*KeyMaterialProofs.* `KeyInv` ties each history to the state: what is not in a live
secret newtype is zero or counts as exposed, guarded slots are on locked pages, sessions are those of
their arguments, what is said to come from a password does, and the stored hash is
that of the last success. The properties follow; `Sessions` also needs that
Diffie-Hellman commutes.

*EncodingsProofs.* `PadInv` says that every nested padding comes off; a new padding
must not disturb the ones inside, which are kept as they were (`PaddingsComeOff`).
`Refusals` and `LengthsAreSafe` (no overflow for any slice, with
`usize` of any width) need no state beyond the last result.

`TextsAreExact` says for texts and messages of any length, and bytes of any size,
that hex and the four Base64 variants give back what was encoded and accept only
what encodes something. A digit is determined by its crumbs
(`DigitsAreCrumbs`, from the division theorem), a sequence of digits by the stream of
its crumbs (`StreamEqual`), and regrouping keeps the stream up to a tail of zeros
(`RegroupStream`), so regrouping there and back is the identity (`RegroupBack`).
`HexBack`, `HexExact`, `B64Back` and `B64Exact` follow by arithmetic on lengths:
how many digits a partial group has, how much padding, and that `decoded_len` has
room (`RoomForBytes`). The inductive invariant `TextInv` only says where the text
is from. `ComparisonsAgree` rests on `Less` being a strict total order, whose lemmas
look at the first place where two slices differ. Both use the existence of a least
element (`LeastElement`, from the library's `WFMin`) where one would use induction.
`EncodingAssumption` bounds `MaxMsg` and the foreign texts by `USIZE \div 2`, the limit
that Rust sets for slices (`isize::MAX` bytes); beyond it `hex::encode` would panic.

*BuildProofs.* `BuildInv` says what an undisturbed script has achieved at each step,
whatever it found, and that cargo's record names what the script would name for
these variables. Its core is `Progress`: copied files are all new, so `make` compiles
all of them with the present configuration. `LinksOwnLibrary` and `WatchedIsEnough`
follow for what is linked; the former needs that the record of a script that just
ran is of the present sources, and says of a reused one only what it was made of.

*Also proved, without a run of their own*: the type invariants and the inductive invariants
of `AuthEnc` and `Encodings`, `RefusedOnlyIfFull`, `NoReuseWithin`,
`InitIsIdempotent`.

*Only model-checked*: the liveness properties `FinalReaches` and `InitReturns`
(fairness is out of the prover's reach). Every safety property of a passing run is
proved.

## 6. Not modelled, and the plan

Not modelled: the bindings (generated declarations), `version` and `shorthash` (one
call without a decision), the test crate, `Debug` output, indexing and conversions
of the newtypes, constants, timing and memory layout. libsodium, cargo, configure,
make, the operating system and the network are external. The tests in the source
files are used as documentation only.

Of about 13,700 lines of Rust, 3,400 are the bindings and 5,000 are tests inside the
source files; of the rest, some 2,900 lines are code and not comments, and the map
covers about two thirds of those. What it leaves out are imports, constants, macro
invocations, trait boilerplate and the parts named above; there is no further code
that makes a decision.

What could be added:

1. `KeyMaterial` composed with `SecretStream`: two peers that exchange keys by `kx` and
   open a stream in each direction.
2. `generichash` with `update` and `finalize` that fail.
3. A liveness property of `Build`: a build that nobody interrupts ends.
