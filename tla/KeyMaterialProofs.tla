-------------------------- MODULE KeyMaterialProofs --------------------------
(***************************************************************************)
(* Proofs about KeyMaterial, for every number of slots, pages, draws and   *)
(* sessions, and for programs that use any of the modules.                 *)
(***************************************************************************)
EXTENDS KeyMaterial, TLAPS

\* The part of the invariant that is about memory.
MemInv(m, x) ==
  /\ m = [s \in Slots |-> m[s]]
  /\ \A s \in Slots : /\ m[s].live \in BOOLEAN /\ m[s].ty \in Types
                      /\ m[s].origin # None => m[s].val = PwKey(m[s].origin)
                      /\ (~m[s].live \/ m[s].ty \notin SecretTypes) => m[s].val \in x \cup {Zero}

Updated(m, s, c) == [m EXCEPT ![s] = c]

IdsInv == \A i \in ids : i.pk = PkOf(SkType(i.api), SkOf(i.api, PwKey(i.origin)))

GuardInv == guarded \subseteq Slots /\ \A s \in guarded : PageOf[s] \in locked

LEMMA KeyInvParts ==
  KeyInv <=> /\ MemInv(mem, exposed) /\ SessionsInv /\ IdsInv /\ GuardInv
             /\ disk.hashed = disk.current /\ LockedStaysInRam /\ LoginIsExact
  BY DEF KeyInv, TypeOK, OriginInv, ExposedInv, MemInv, IdsInv, GuardInv

LEMMA CellFields ==
  \A ty, v, o : /\ Cell(ty, v, o).ty = ty /\ Cell(ty, v, o).val = v
                /\ Cell(ty, v, o).origin = o /\ Cell(ty, v, o).live = TRUE
  BY DEF Cell

\* A slot is overwritten with a cell that respects the invariant.
LEMMA Overwrite ==
  ASSUME NEW m, NEW x, MemInv(m, x), NEW t \in Slots, NEW c,
         c.live \in BOOLEAN, c.ty \in Types, c.origin # None => c.val = PwKey(c.origin),
         (~c.live \/ c.ty \notin SecretTypes) => c.val \in x \cup {Zero}
  PROVE  MemInv([m EXCEPT ![t] = c], x)
<1>1. [m EXCEPT ![t] = c] = [s \in Slots |-> IF s = t THEN c ELSE m[s]]
  BY DEF MemInv
<1>2. \A s \in Slots : [m EXCEPT ![t] = c][s] = IF s = t THEN c ELSE m[s]
  BY <1>1
<1> QED
  BY <1>1, <1>2 DEF MemInv

LEMMA MoreExposed ==
  ASSUME NEW m, NEW x, NEW y, MemInv(m, x), x \subseteq y PROVE MemInv(m, y)
  BY DEF MemInv

\* A result is put into a slot, directly or by way of an array.
Puts(t, ty, v, o) == Put(t, ty, v, o) \/ PutByArray(t, ty, v, o)

LEMMA PutPreserves ==
  ASSUME MemInv(mem, exposed), NEW t \in Slots, NEW ty \in Types, NEW v, NEW o,
         o # None => v = PwKey(o), Puts(t, ty, v, o)
  PROVE  MemInv(mem', exposed')
<1>1. PICK c : c = Cell(ty, v, o)
  OBVIOUS
<1>2. c.ty = ty /\ c.val = v /\ c.origin = o /\ c.live = TRUE
  BY <1>1, CellFields
<1>3. MemInv(mem, exposed') /\ (ty \notin SecretTypes => v \in exposed')
  BY MoreExposed DEF Puts, Put, PutByArray, Exposure
<1>4. PICK x, m : x = exposed' /\ m = mem
  OBVIOUS
<1>5. MemInv([m EXCEPT ![t] = c], x)
  <2>1. MemInv(m, x) /\ ((~c.live \/ c.ty \notin SecretTypes) => c.val \in x \cup {Zero})
    BY <1>2, <1>3, <1>4
  <2>2. c.live \in BOOLEAN /\ c.ty \in Types /\ (c.origin # None => c.val = PwKey(c.origin))
    BY <1>2
  <2> QED
    BY <2>1, <2>2, Overwrite
<1> QED
  BY <1>1, <1>4, <1>5 DEF Puts, Put, PutByArray

\* Most calls leave the histories, the disk and the locks alone, and their
\* results are not about swapping or logins.
LEMMA Frame ==
  ASSUME KeyInv, MemInv(mem', exposed'), SessionsInv', IdsInv', GuardInv',
         disk'.hashed = disk'.current, out'.op \notin {"swap", "pwhash_verify"}
  PROVE  KeyInv'
<1>1. LockedStaysInRam' /\ LoginIsExact'
  BY DEF LockedStaysInRam, LoginIsExact
<1>2. disk.hashed' = disk.current'
  OBVIOUS
<1> QED
  BY <1>1, <1>2 DEF KeyInv, TypeOK, OriginInv, ExposedInv, MemInv, IdsInv, GuardInv

LEMMA QuietOut == Quiet => out'.op \notin {"swap", "pwhash_verify"}
  BY DEF Quiet, NoOut

LEMMA SameSessions == sessions' = sessions /\ SessionsInv => SessionsInv'
  BY DEF SessionsInv

LEMMA SameIds == ids' = ids /\ IdsInv => IdsInv'
  BY DEF IdsInv

LEMMA SameGuard == guarded' = guarded /\ locked' = locked /\ GuardInv => GuardInv'
  BY DEF GuardInv

\* Calls that only put a result into a slot, or only publish a key.
LEMMA PlainCall ==
  ASSUME KeyInv, MemInv(mem', exposed'), out'.op \notin {"swap", "pwhash_verify"},
         UNCHANGED <<sessions, ids, guarded, locked>>, disk'.hashed = disk'.current
  PROVE  KeyInv'
<1>1. SessionsInv /\ IdsInv /\ GuardInv
  BY KeyInvParts
<1> QED
  BY <1>1, SameSessions, SameIds, SameGuard, Frame

\* The result of a call without an origin.
LEMMA PutCall ==
  ASSUME KeyInv, NEW t \in Slots, NEW ty \in Types, NEW v, NEW o, o # None => v = PwKey(o),
         Puts(t, ty, v, o), out'.op \notin {"swap", "pwhash_verify"},
         UNCHANGED <<sessions, ids, guarded, locked, disk>>
  PROVE  KeyInv'
<1>1. MemInv(mem, exposed) /\ disk.hashed = disk.current
  BY KeyInvParts
<1>2. MemInv(mem', exposed')
  BY <1>1, PutPreserves
<1> QED
  BY <1>1, <1>2, PlainCall

-----------------------------------------------------------------------------
(* Newtypes and utils                                                      *)

\* A slot's content is replaced, and its bytes are gone or exposed; it may have
\* lost its guard, or the page its lock.
LEMMA Replace ==
  ASSUME KeyInv, NEW s \in Slots, NEW c, c.live \in BOOLEAN, c.ty \in Types, c.origin = None,
         (~c.live \/ c.ty \notin SecretTypes) => c.val \in exposed' \cup {Zero}, exposed \subseteq exposed',
         mem' = Updated(mem, s, c), GuardInv', UNCHANGED <<sessions, ids, disk>>,
         out'.op \notin {"swap", "pwhash_verify"}
  PROVE  KeyInv'
<1>1. MemInv(mem, exposed') /\ disk.hashed = disk.current /\ SessionsInv /\ IdsInv
  BY KeyInvParts, MoreExposed
<1>2. PICK x, m : x = exposed' /\ m = mem
  OBVIOUS
<1>3. MemInv([m EXCEPT ![s] = c], x)
  <2>1. MemInv(m, x) /\ ((~c.live \/ c.ty \notin SecretTypes) => c.val \in x \cup {Zero})
    BY <1>1, <1>2
  <2> QED
    BY <2>1, Overwrite
<1>4. MemInv(mem', exposed')
  BY <1>2, <1>3 DEF Updated
<1> QED
  BY <1>1, <1>4, SameSessions, SameIds, Frame

\* Fewer guards, and the locks as they were.
LEMMA FewerGuards ==
  ASSUME GuardInv, guarded' \subseteq guarded, locked' = locked PROVE GuardInv'
  BY DEF GuardInv

LEMMA SlotFacts ==
  ASSUME KeyInv, NEW s \in Slots
  PROVE  /\ mem[s].live \in BOOLEAN /\ mem[s].ty \in Types
         /\ mem[s].origin # None => mem[s].val = PwKey(mem[s].origin)
         /\ mem[s].ty \notin SecretTypes => mem[s].val \in exposed \cup {Zero}
         /\ MemInv(mem, exposed) /\ GuardInv /\ SessionsInv /\ IdsInv
         /\ disk.hashed = disk.current
  BY KeyInvParts DEF MemInv

LEMMA DropPreserves == ASSUME KeyInv, NEW s \in Slots, Drop(s) PROVE KeyInv'
<1>1. PICK c : c = Dropped(mem[s])
  OBVIOUS
<1>2. c.live = FALSE /\ c.ty \in Types /\ c.origin = None /\ c.val \in exposed \cup {Zero}
  BY <1>1, SlotFacts DEF Dropped
<1>3. /\ mem' = Updated(mem, s, c) /\ exposed' = exposed /\ UNCHANGED <<sessions, ids, disk>>
      /\ guarded' \subseteq guarded /\ locked' = locked
  BY <1>1, SlotFacts DEF Drop, MemInv, history, Updated
<1>4. out'.op \notin {"swap", "pwhash_verify"}
  BY QuietOut DEF Drop
<1>5. GuardInv'
  BY <1>3, SlotFacts, FewerGuards
<1>6. /\ c.live \in BOOLEAN /\ c.ty \in Types /\ c.origin = None
      /\ ((~c.live \/ c.ty \notin SecretTypes) => c.val \in exposed' \cup {Zero})
      /\ exposed \subseteq exposed' /\ out'.op \notin {"swap", "pwhash_verify"}
  BY <1>2, <1>3, <1>4
<1> QED
  BY <1>3, <1>4, <1>5, <1>6, Replace

\* What memzero and munlock do to a slot.
LEMMA ZeroedFacts ==
  ASSUME KeyInv, NEW s \in Slots, NEW c, c = Zeroed(mem[s])
  PROVE  c.live \in BOOLEAN /\ c.ty \in Types /\ c.origin = None /\ c.val = Zero
  BY SlotFacts DEF Zeroed

LEMMA MemzeroPreserves == ASSUME KeyInv, NEW s \in Slots, Memzero(s) PROVE KeyInv'
<1>1. PICK c : c = Zeroed(mem[s])
  OBVIOUS
<1>2. /\ mem' = Updated(mem, s, c) /\ exposed' = exposed /\ UNCHANGED <<sessions, ids, disk>>
      /\ guarded' = guarded /\ locked' = locked
  BY <1>1, SlotFacts DEF Memzero, MemInv, history, Updated
<1>3. out'.op \notin {"swap", "pwhash_verify"}
  BY QuietOut DEF Memzero
<1>4. GuardInv'
  BY <1>2, SlotFacts, FewerGuards
<1>5. /\ c.live \in BOOLEAN /\ c.ty \in Types /\ c.origin = None
      /\ ((~c.live \/ c.ty \notin SecretTypes) => c.val \in exposed' \cup {Zero})
      /\ exposed \subseteq exposed' /\ out'.op \notin {"swap", "pwhash_verify"}
  BY <1>1, <1>2, <1>3, ZeroedFacts
<1> QED
  BY <1>2, <1>3, <1>4, <1>5, Replace

LEMMA MunlockPreserves ==
  ASSUME KeyInv, NEW s \in Slots, NEW ok \in BOOLEAN, Munlock(s, ok) PROVE KeyInv'
<1>1. PICK c : c = Zeroed(mem[s])
  OBVIOUS
<1>2. /\ mem' = Updated(mem, s, c) /\ exposed' = exposed /\ UNCHANGED <<sessions, ids, disk>>
      /\ out'.op = "munlock"
  BY <1>1, SlotFacts DEF Munlock, MemInv, history, Updated
<1>3. GuardInv'
  BY SlotFacts DEF Munlock, GuardInv
<1>4. /\ c.live \in BOOLEAN /\ c.ty \in Types /\ c.origin = None
      /\ ((~c.live \/ c.ty \notin SecretTypes) => c.val \in exposed' \cup {Zero})
      /\ exposed \subseteq exposed' /\ out'.op \notin {"swap", "pwhash_verify"}
  BY <1>1, <1>2, ZeroedFacts
<1> QED
  BY <1>2, <1>3, <1>4, Replace

LEMMA MlockPreserves == ASSUME KeyInv, NEW s \in Slots, Mlock(s) PROVE KeyInv'
<1>1. GuardInv'
  BY SlotFacts DEF Mlock, MlockOk, CanLock, GuardInv
<1>2. UNCHANGED <<mem, exposed, sessions, ids, disk>> /\ out'.op = "mlock"
  BY DEF Mlock, history
<1>3. MemInv(mem', exposed') /\ SessionsInv' /\ IdsInv' /\ disk'.hashed = disk'.current
  BY <1>2, SlotFacts, SameSessions, SameIds
<1> QED
  BY <1>1, <1>2, <1>3, Frame

LEMMA SwapPreserves == ASSUME KeyInv, NEW s \in Slots, Swap(PageOf[s]) PROVE KeyInv'
<1>1. UNCHANGED <<mem, sessions, ids, disk, guarded, locked>> /\ exposed \subseteq exposed'
  BY DEF Swap, history
<1>2. /\ MemInv(mem', exposed') /\ SessionsInv' /\ IdsInv' /\ GuardInv'
      /\ disk'.hashed = disk'.current
  BY <1>1, SlotFacts, SameSessions, SameIds, SameGuard, MoreExposed
<1>3. out'.op = "swap" /\ out'.slots = {t \in Slots : PageOf[t] = PageOf[s]}
  BY DEF Swap
<1>4. LockedStaysInRam'
  BY <1>1, <1>3, SlotFacts DEF LockedStaysInRam, GuardInv, Swap
<1>5. LoginIsExact'
  BY <1>3 DEF LoginIsExact
<1>6. disk.hashed' = disk.current'
  BY <1>2
<1> QED
  BY <1>2, <1>4, <1>5, <1>6 DEF KeyInv, TypeOK, OriginInv, ExposedInv, MemInv, IdsInv, GuardInv

LEMMA ClonePreserves == ASSUME KeyInv, NEW s \in Slots, NEW t \in Slots, Clone(s, t) PROVE KeyInv'
<1>1. PICK ty, v, o : ty = mem[s].ty /\ v = mem[s].val /\ o = mem[s].origin
  OBVIOUS
<1>2. ty \in Types /\ (o # None => v = PwKey(o))
  BY <1>1, SlotFacts
<1>3. Puts(t, ty, v, o) /\ UNCHANGED <<sessions, ids, guarded, locked, disk>> /\ Quiet
  BY <1>1 DEF Clone, Puts, history
<1> QED
  BY <1>2, <1>3, QuietOut, PutCall

\* Two slots are overwritten.
LEMMA TwoSlots ==
  ASSUME KeyInv, NEW t \in Slots, NEW u \in Slots, NEW c, NEW d,
         c.live \in BOOLEAN, c.ty \in Types, c.origin # None => c.val = PwKey(c.origin),
         (~c.live \/ c.ty \notin SecretTypes) => c.val \in exposed' \cup {Zero},
         d.live \in BOOLEAN, d.ty \in Types, d.origin # None => d.val = PwKey(d.origin),
         (~d.live \/ d.ty \notin SecretTypes) => d.val \in exposed' \cup {Zero},
         exposed \subseteq exposed', mem' = Updated(Updated(mem, t, c), u, d)
  PROVE  MemInv(mem', exposed')
<1>1. PICK x, m : x = exposed' /\ m = mem
  OBVIOUS
<1>2. MemInv(m, x)
  BY <1>1, KeyInvParts, MoreExposed
<1>3. /\ (~c.live \/ c.ty \notin SecretTypes) => c.val \in x \cup {Zero}
      /\ (~d.live \/ d.ty \notin SecretTypes) => d.val \in x \cup {Zero}
  BY <1>1
<1>4. MemInv([m EXCEPT ![t] = c], x)
  BY <1>2, <1>3, Overwrite
<1>5. PICK m2 : m2 = [m EXCEPT ![t] = c]
  OBVIOUS
<1>6. MemInv(m2, x)
  BY <1>4, <1>5
<1>7. MemInv([m2 EXCEPT ![u] = d], x)
  BY <1>3, <1>6, Overwrite
<1> QED
  BY <1>1, <1>5, <1>7 DEF Updated

LEMMA MovePreserves == ASSUME KeyInv, NEW s \in Slots, NEW t \in Slots, Move(s, t) PROVE KeyInv'
<1>1. PICK c, d : c = mem[s] /\ d = MovedFrom(mem[s])
  OBVIOUS
<1>2. mem' = Updated(Updated(mem, t, c), s, d)
  <2>1. mem' = [mem EXCEPT ![t] = mem[s], ![s] = MovedFrom(mem[s])]
    BY DEF Move
  <2> QED
    BY <1>1, <2>1 DEF Updated
<1>3. /\ exposed' = exposed \cup {c.val} /\ UNCHANGED <<sessions, ids, disk>>
      /\ guarded' \subseteq guarded /\ locked' = locked /\ Quiet
  BY <1>1 DEF Move, history
<1>4. /\ c.live \in BOOLEAN /\ c.ty \in Types /\ (c.origin # None => c.val = PwKey(c.origin))
      /\ ((~c.live \/ c.ty \notin SecretTypes) => c.val \in exposed' \cup {Zero})
  BY <1>1, <1>3, SlotFacts
<1>5. d.ty = c.ty /\ d.val = c.val /\ d.origin = None /\ d.live = FALSE
  BY <1>1 DEF MovedFrom
<1>6. /\ d.live \in BOOLEAN /\ d.ty \in Types /\ (d.origin # None => d.val = PwKey(d.origin))
      /\ ((~d.live \/ d.ty \notin SecretTypes) => d.val \in exposed' \cup {Zero})
      /\ exposed \subseteq exposed'
  BY <1>3, <1>4, <1>5
<1>7. MemInv(mem', exposed')
  BY <1>2, <1>4, <1>6, TwoSlots
<1>8. SessionsInv' /\ IdsInv' /\ GuardInv' /\ disk'.hashed = disk'.current
  BY <1>3, SlotFacts, SameSessions, SameIds, FewerGuards
<1> QED
  BY <1>3, <1>7, <1>8, QuietOut, Frame

LEMMA SeedFromSlicePreserves ==
  ASSUME KeyInv, NEW s \in Slots, NEW t \in Slots, SeedFromSlice(s, t) PROVE KeyInv'
<1>1. PICK ty, v, o : ty = "Seed" /\ v = mem[s].val /\ o = mem[s].origin
  OBVIOUS
<1>2. ty \in Types /\ (o # None => v = PwKey(o))
  BY <1>1, SlotFacts DEF Types, SecretTypes
<1>3. Puts(t, ty, v, o) /\ UNCHANGED <<sessions, ids, guarded, locked, disk>> /\ Quiet
  BY <1>1 DEF SeedFromSlice, Puts, history
<1> QED
  BY <1>2, <1>3, QuietOut, PutCall

-----------------------------------------------------------------------------
(* Keys and key pairs                                                      *)

\* A result that does not come from a password.
LEMMA PutFresh ==
  ASSUME KeyInv, NEW t \in Slots, NEW ty \in Types, NEW v, Puts(t, ty, v, None),
         out'.op \notin {"swap", "pwhash_verify"},
         UNCHANGED <<sessions, ids, guarded, locked, disk>>
  PROVE  KeyInv'
<1>1. PICK o : o = None
  OBVIOUS
<1> QED
  BY <1>1, PutCall

LEMMA TypesFacts ==
  /\ {"Seed", "kdf_key", "slice", "GroupElement", "SessionKey", "box_sk"} \subseteq Types
  /\ \A api : SkType(api) \in Types
  BY DEF Types, SecretTypes, PublicTypes, SkType

LEMMA GenKeyPreserves ==
  ASSUME KeyInv, NEW ty \in {"Seed", "kdf_key"}, NEW t \in Slots, NEW r, GenKey(ty, t, r)
  PROVE  KeyInv'
<1>1. Puts(t, ty, Random(r), None) /\ Quiet /\ UNCHANGED <<sessions, ids, guarded, locked, disk>>
  BY DEF GenKey, Puts, history
<1>2. ty \in Types
  BY TypesFacts
<1> QED
  BY <1>1, <1>2, QuietOut, PutFresh

LEMMA GenKeypairPreserves ==
  ASSUME KeyInv, NEW api, NEW t \in Slots, NEW r, GenKeypair(api, t, r)
  PROVE  KeyInv'
<1>1. PICK sk : Puts(t, SkType(api), sk, None)
  BY DEF GenKeypair, Puts
<1>2. Quiet /\ UNCHANGED <<sessions, ids, guarded, locked, disk>>
  BY DEF GenKeypair, history
<1> QED
  BY <1>1, <1>2, TypesFacts, QuietOut, PutFresh

LEMMA KeypairFromSeedPreserves ==
  ASSUME KeyInv, NEW api, NEW s \in Slots, NEW t \in Slots, KeypairFromSeed(api, s, t)
  PROVE  KeyInv'
<1>1. PICK sk, pk : sk = SkOf(api, mem[s].val) /\ pk = PkOf(SkType(api), sk)
  OBVIOUS
<1>2. /\ Put(t, SkType(api), sk, None) /\ Quiet /\ UNCHANGED <<sessions, guarded, locked, disk>>
      /\ ids' = IF mem[s].origin = None THEN ids
                ELSE ids \cup {[api |-> api, origin |-> mem[s].origin, pk |-> pk]}
  BY <1>1 DEF KeypairFromSeed
<1>3. IdsInv'
  <2>1. SUFFICES ASSUME NEW i \in ids'
                 PROVE  i.pk = PkOf(SkType(i.api), SkOf(i.api, PwKey(i.origin)))
    BY DEF IdsInv
  <2>2. CASE i \in ids
    BY <2>2, SlotFacts DEF IdsInv
  <2>3. CASE mem[s].origin # None /\ i = [api |-> api, origin |-> mem[s].origin, pk |-> pk]
    <3>1. i.api = api /\ i.origin = mem[s].origin /\ i.pk = pk
      BY <2>3
    <3>2. mem[s].val = PwKey(mem[s].origin)
      BY <2>3, SlotFacts
    <3> QED
      BY <1>1, <3>1, <3>2
  <2> QED
    BY <1>2, <2>1, <2>2, <2>3
<1>4. PICK ty, o : ty = SkType(api) /\ o = None
  OBVIOUS
<1>5. ty \in Types /\ (o # None => sk = PwKey(o)) /\ Puts(t, ty, sk, o)
  BY <1>2, <1>4, TypesFacts DEF Puts
<1>6. MemInv(mem', exposed')
  BY <1>5, SlotFacts, PutPreserves
<1>7. SessionsInv' /\ GuardInv' /\ disk'.hashed = disk'.current
  BY <1>2, SlotFacts, SameSessions, SameGuard
<1> QED
  BY <1>2, <1>3, <1>6, <1>7, QuietOut, Frame

\* Calls that touch no slot, no history and not the disk.
LEMMA NoSlot ==
  ASSUME KeyInv, UNCHANGED <<mem, exposed, sessions, ids, guarded, locked>>,
         disk'.hashed = disk'.current, out'.op \notin {"swap", "pwhash_verify"}
  PROVE  KeyInv'
<1>1. MemInv(mem, exposed)
  BY KeyInvParts
<1>2. MemInv(mem', exposed')
  BY <1>1
<1> QED
  BY <1>2, PlainCall

LEMMA CurrentHash == KeyInv => disk.hashed = disk.current
  BY KeyInvParts

LEMMA PublicKeyPreserves == ASSUME KeyInv, NEW s \in Slots, PublicKey(s) PROVE KeyInv'
  BY CurrentHash, QuietOut, NoSlot DEF PublicKey, history

LEMMA ToCurve25519PkPreserves == ASSUME KeyInv, NEW pk, ToCurve25519Pk(pk) PROVE KeyInv'
<1>1. out'.op = "to_curve25519_pk" /\ UNCHANGED <<mem, exposed, sessions, ids, guarded, locked, disk>>
  BY DEF ToCurve25519Pk, history
<1> QED
  BY <1>1, CurrentHash, NoSlot

LEMMA ToCurve25519SkPreserves ==
  ASSUME KeyInv, NEW s \in Slots, NEW t \in Slots, NEW ok \in BOOLEAN,
         ToCurve25519Sk(s, t, ok)
  PROVE  KeyInv'
<1>1. /\ out'.op \notin {"swap", "pwhash_verify"}
      /\ UNCHANGED <<sessions, ids, guarded, locked, disk>>
  BY DEF ToCurve25519Sk, history
<1>2. "box_sk" \in Types /\ "box_sk" \in SecretTypes
  BY TypesFacts DEF SecretTypes
<1>3. CASE ok
  <2>1. PICK v : Puts(t, "box_sk", v, None)
    BY <1>3 DEF ToCurve25519Sk, Puts
  <2> QED
    BY <1>1, <1>2, <2>1, PutFresh
<1>4. CASE ~ok
  <2>1. PICK c : c = Dropped(Cell("box_sk", Zero, None))
    OBVIOUS
  <2>2. /\ c.live = FALSE /\ c.ty = "box_sk" /\ c.origin = None /\ c.val = Zero
        /\ mem' = Updated(mem, t, c) /\ exposed' = exposed
    BY <1>2, <1>4, <2>1, CellFields DEF ToCurve25519Sk, Dropped, Updated
  <2>3. /\ c.live \in BOOLEAN /\ c.ty \in Types
        /\ ((~c.live \/ c.ty \notin SecretTypes) => c.val \in exposed' \cup {Zero})
        /\ exposed \subseteq exposed'
    BY <1>2, <2>2
  <2>4. GuardInv'
    BY <1>1, KeyInvParts, SameGuard
  <2> QED
    BY <1>1, <2>2, <2>3, <2>4, Replace
<1> QED
  BY <1>3, <1>4

-----------------------------------------------------------------------------
(* kx, scalarmult, kdf and pwhash                                          *)

LEMMA SessionKeysPreserves ==
  ASSUME KeyInv, NEW role \in {"server", "client"}, NEW s \in Slots, NEW pk, NEW peer,
         NEW t \in Slots, NEW u \in Slots, SessionKeys(role, s, pk, peer, t, u)
  PROVE  KeyInv'
<1>1. PICK keys : keys = CASE peer = BadPk    -> NoKeys
                          [] role = "server" -> ServerKeys(pk, mem[s].val, peer)
                          [] role = "client" -> ClientKeys(pk, mem[s].val, peer)
  OBVIOUS
<1>2. /\ UNCHANGED <<locked, disk, ids, guarded, exposed>> /\ t # u
      /\ out'.op \notin {"swap", "pwhash_verify"}
  BY DEF SessionKeys
<1>3. SessionsInv /\ IdsInv' /\ GuardInv' /\ disk'.hashed = disk'.current
  BY <1>2, SlotFacts, SameIds, SameGuard
<1>4. CASE Accepted(peer)
  <2>1. peer # BadPk
    BY <1>4 DEF Accepted
  <2>2. PICK c, d : c = Cell("SessionKey", keys.rx, None) /\ d = Cell("SessionKey", keys.tx, None)
    OBVIOUS
  <2>3. /\ c.live = TRUE /\ c.ty = "SessionKey" /\ c.origin = None
        /\ d.live = TRUE /\ d.ty = "SessionKey" /\ d.origin = None
        /\ "SessionKey" \in Types /\ "SessionKey" \in SecretTypes
    BY <2>2, CellFields, TypesFacts DEF SecretTypes
  <2>4. /\ c.live \in BOOLEAN /\ c.ty \in Types /\ (c.origin # None => c.val = PwKey(c.origin))
        /\ ((~c.live \/ c.ty \notin SecretTypes) => c.val \in exposed' \cup {Zero})
        /\ d.live \in BOOLEAN /\ d.ty \in Types /\ (d.origin # None => d.val = PwKey(d.origin))
        /\ ((~d.live \/ d.ty \notin SecretTypes) => d.val \in exposed' \cup {Zero})
        /\ exposed \subseteq exposed'
    BY <1>2, <2>3
  <2>5. /\ mem' = [mem EXCEPT ![t] = c, ![u] = d]
        /\ sessions' = sessions \cup
             {[role |-> role, pk |-> pk, sk |-> mem[s].val, peer |-> peer,
               rx |-> keys.rx, tx |-> keys.tx]}
    BY <1>1, <1>4, <2>2 DEF SessionKeys
  <2>6. mem' = Updated(Updated(mem, t, c), u, d)
    BY <2>5 DEF Updated
  <2>7. MemInv(mem', exposed')
    BY <2>4, <2>6, TwoSlots
  <2>8. SessionsInv'
    <3> SUFFICES ASSUME NEW x \in sessions'
                 PROVE  /\ x.peer # BadPk
                        /\ \/ /\ x.role = "server"
                              /\ x.rx = ServerKeys(x.pk, x.sk, x.peer).rx
                              /\ x.tx = ServerKeys(x.pk, x.sk, x.peer).tx
                           \/ /\ x.role = "client"
                              /\ x.rx = ClientKeys(x.pk, x.sk, x.peer).rx
                              /\ x.tx = ClientKeys(x.pk, x.sk, x.peer).tx
      BY DEF SessionsInv
    <3>1. CASE x \in sessions
      BY <1>3, <3>1 DEF SessionsInv
    <3>2. CASE x = [role |-> role, pk |-> pk, sk |-> mem[s].val, peer |-> peer,
                    rx |-> keys.rx, tx |-> keys.tx]
      <4>1. /\ x.role = role /\ x.pk = pk /\ x.sk = mem[s].val /\ x.peer = peer
            /\ x.rx = keys.rx /\ x.tx = keys.tx
        BY <3>2
      <4>2. \/ role = "server" /\ keys = ServerKeys(pk, mem[s].val, peer)
            \/ role = "client" /\ keys = ClientKeys(pk, mem[s].val, peer)
        BY <1>1, <2>1
      <4> QED
        BY <2>1, <4>1, <4>2
    <3> QED
      BY <2>5, <3>1, <3>2
  <2> QED
    BY <1>2, <1>3, <2>7, <2>8, Frame
<1>5. CASE ~Accepted(peer)
  <2>1. PICK c, d : /\ c = Dropped(Cell("SessionKey", keys.rx, None))
                    /\ d = Dropped(Cell("SessionKey", keys.tx, None))
    OBVIOUS
  <2>2. /\ c.live = FALSE /\ c.ty = "SessionKey" /\ c.origin = None /\ c.val = Zero
        /\ d.live = FALSE /\ d.ty = "SessionKey" /\ d.origin = None /\ d.val = Zero
        /\ "SessionKey" \in Types
    BY <2>1, CellFields, TypesFacts DEF SecretTypes, Dropped
  <2>3. /\ c.live \in BOOLEAN /\ c.ty \in Types /\ (c.origin # None => c.val = PwKey(c.origin))
        /\ ((~c.live \/ c.ty \notin SecretTypes) => c.val \in exposed' \cup {Zero})
        /\ d.live \in BOOLEAN /\ d.ty \in Types /\ (d.origin # None => d.val = PwKey(d.origin))
        /\ ((~d.live \/ d.ty \notin SecretTypes) => d.val \in exposed' \cup {Zero})
        /\ exposed \subseteq exposed'
    BY <1>2, <2>2
  <2>4. mem' = [mem EXCEPT ![t] = c, ![u] = d] /\ sessions' = sessions
    BY <1>1, <1>5, <2>1 DEF SessionKeys
  <2>5. mem' = Updated(Updated(mem, t, c), u, d)
    BY <2>4 DEF Updated
  <2>6. MemInv(mem', exposed')
    BY <2>3, <2>5, TwoSlots
  <2>7. SessionsInv'
    BY <1>3, <2>4, SameSessions
  <2> QED
    BY <1>2, <1>3, <2>6, <2>7, Frame
<1> QED
  BY <1>4, <1>5

LEMMA ScalarmultPreserves ==
  ASSUME KeyInv, NEW s \in Slots, NEW p, NEW t \in Slots, Scalarmult(s, p, t) PROVE KeyInv'
<1>1. /\ out'.op \notin {"swap", "pwhash_verify"}
      /\ UNCHANGED <<sessions, ids, guarded, locked, disk>>
  BY DEF Scalarmult, history
<1>2. CASE p = BadPk
  <2>1. UNCHANGED <<mem, exposed>>
    BY <1>2 DEF Scalarmult
  <2> QED
    BY <1>1, <2>1, CurrentHash, NoSlot
<1>3. CASE p # BadPk
  <2>1. PICK v : Puts(t, "GroupElement", v, None)
    BY <1>3 DEF Scalarmult, Puts
  <2>2. "GroupElement" \in Types
    BY TypesFacts
  <2> QED
    BY <1>1, <2>1, <2>2, PutFresh
<1> QED
  BY <1>2, <1>3

LEMMA ScalarmultBasePreserves ==
  ASSUME KeyInv, NEW s \in Slots, NEW t \in Slots, ScalarmultBase(s, t) PROVE KeyInv'
<1>1. PICK v : Puts(t, "GroupElement", v, None)
  BY DEF ScalarmultBase, Puts
<1>2. Quiet /\ UNCHANGED <<sessions, ids, guarded, locked, disk>>
  BY DEF ScalarmultBase, history
<1>3. "GroupElement" \in Types
  BY TypesFacts
<1> QED
  BY <1>1, <1>2, <1>3, QuietOut, PutFresh

LEMMA DeriveFromKeyPreserves ==
  ASSUME KeyInv, NEW s \in Slots, NEW t \in Slots, NEW n, DeriveFromKey(s, t, n) PROVE KeyInv'
<1>1. /\ out'.op \notin {"swap", "pwhash_verify"}
      /\ UNCHANGED <<sessions, ids, guarded, locked, disk>>
  BY DEF DeriveFromKey, history
<1>2. CASE UNCHANGED <<mem, exposed>>
  BY <1>1, <1>2, CurrentHash, NoSlot
<1>3. CASE Put(t, "slice", Subkey(mem[s].val, n), None)
  <2>1. PICK v : Puts(t, "slice", v, None)
    BY <1>3 DEF Puts
  <2>2. "slice" \in Types
    BY TypesFacts
  <2> QED
    BY <1>1, <2>1, <2>2, PutFresh
<1> QED
  BY <1>2, <1>3 DEF DeriveFromKey

LEMMA GenSaltPreserves == ASSUME KeyInv, NEW r, GenSalt(r) PROVE KeyInv'
<1>1. disk'.hashed = disk'.current
  BY CurrentHash DEF GenSalt
<1> QED
  BY <1>1, QuietOut, NoSlot DEF GenSalt, history

LEMMA DeriveKeyPreserves ==
  ASSUME KeyInv, NEW alg, NEW pw, NEW lim, NEW t \in Slots, NEW enough \in BOOLEAN,
         DeriveKey(alg, pw, lim, t, enough)
  PROVE  KeyInv'
<1>1. PICK o : o = [of |-> "password", alg |-> alg, pw |-> pw, salt |-> disk.salt, lim |-> lim]
  OBVIOUS
<1>2. /\ out'.op \notin {"swap", "pwhash_verify"}
      /\ UNCHANGED <<sessions, ids, guarded, locked, disk>>
  BY DEF DeriveKey, history
<1>3. CASE enough
  <2>1. Puts(t, "slice", PwKey(o), o)
    BY <1>1, <1>3 DEF DeriveKey, Derived, Puts
  <2>2. "slice" \in Types
    BY TypesFacts
  <2> QED
    BY <1>2, <2>1, <2>2, PutCall
<1>4. CASE ~enough
  <2>1. PICK c : c = Fresh
    OBVIOUS
  <2>2. /\ c.live = FALSE /\ c.ty = "slice" /\ c.origin = None /\ c.val = Zero
        /\ mem' = Updated(mem, t, c) /\ exposed' = exposed
    BY <1>4, <2>1 DEF DeriveKey, Derived, Updated, Fresh
  <2>3. /\ c.live \in BOOLEAN /\ c.ty \in Types /\ c.origin = None
        /\ ((~c.live \/ c.ty \notin SecretTypes) => c.val \in exposed' \cup {Zero})
        /\ exposed \subseteq exposed'
    BY <2>2, TypesFacts
  <2>4. GuardInv'
    BY <1>2, KeyInvParts, SameGuard
  <2> QED
    BY <1>2, <2>2, <2>3, <2>4, Replace
<1> QED
  BY <1>3, <1>4

LEMMA PwhashPreserves ==
  ASSUME KeyInv, NEW alg, NEW pw, NEW enough \in BOOLEAN, Pwhash(alg, pw, enough)
  PROVE  KeyInv'
<1>1. disk'.hashed = disk'.current
  BY CurrentHash DEF Pwhash, Derived
<1>2. /\ out'.op \notin {"swap", "pwhash_verify"}
      /\ UNCHANGED <<mem, exposed, sessions, ids, guarded, locked>>
  BY DEF Pwhash, history
<1> QED
  BY <1>1, <1>2, NoSlot

LEMMA PwhashVerifyPreserves ==
  ASSUME KeyInv, NEW alg, NEW pw, NEW enough \in BOOLEAN, PwhashVerify(alg, pw, enough)
  PROVE  KeyInv'
<1>1. UNCHANGED <<mem, exposed, sessions, ids, guarded, locked, disk>>
  BY DEF PwhashVerify, history
<1>2. /\ out'.op = "pwhash_verify" /\ out'.enough = enough
      /\ out'.login = [alg |-> alg, pw |-> pw]
      /\ out'.ok = (enough /\ disk.hashed = [alg |-> alg, pw |-> pw])
  BY DEF PwhashVerify
<1>3. LoginIsExact'
  BY <1>1, <1>2, CurrentHash DEF LoginIsExact
<1>4. LockedStaysInRam'
  BY <1>2 DEF LockedStaysInRam
<1> QED
  BY <1>1, <1>3, <1>4 DEF KeyInv, TypeOK, SessionsInv, OriginInv, ExposedInv

LEMMA RestartPreserves == ASSUME KeyInv, Restart PROVE KeyInv'
<1>1. mem' = [s \in Slots |-> Fresh] /\ \A s \in Slots : mem'[s] = Fresh
  BY DEF Restart
<1>2. MemInv(mem', exposed')
  <2>1. /\ Fresh.live = FALSE /\ Fresh.ty = "slice" /\ Fresh.origin = None /\ Fresh.val = Zero
        /\ "slice" \in Types
    BY TypesFacts DEF Fresh
  <2> QED
    BY <1>1, <2>1 DEF MemInv
<1>3. UNCHANGED <<sessions, ids, disk>> /\ Quiet /\ guarded' = {}
  BY DEF Restart, history
<1>4. GuardInv'
  BY <1>3 DEF GuardInv
<1>5. SessionsInv' /\ IdsInv' /\ disk'.hashed = disk'.current
  BY <1>3, KeyInvParts, SameSessions, SameIds
<1> QED
  BY <1>2, <1>3, <1>4, <1>5, QuietOut, Frame

-----------------------------------------------------------------------------
(* The theorems                                                            *)

\* The invariant that ties memory, locks, sessions and the disk to what the
\* calls returned holds in every program.
THEOREM KeyInvHolds == Spec => []KeyInv
<1>1. Init => KeyInv
  <2> SUFFICES ASSUME Init PROVE KeyInv
    OBVIOUS
  <2>1. MemInv(mem, exposed)
    <3>1. /\ Fresh.live = FALSE /\ Fresh.ty = "slice" /\ Fresh.origin = None /\ Fresh.val = Zero
          /\ "slice" \in Types
      BY TypesFacts DEF Fresh
    <3> QED
      BY <3>1 DEF MemInv, Init
  <2>2. SessionsInv /\ IdsInv /\ GuardInv /\ disk.hashed = disk.current
    BY DEF Init, SessionsInv, IdsInv, GuardInv
  <2>3. LockedStaysInRam /\ LoginIsExact
    BY DEF Init, NoOut, LockedStaysInRam, LoginIsExact
  <2> QED
    BY <2>1, <2>2, <2>3, KeyInvParts
<1>2. KeyInv /\ [Next]_vars => KeyInv'
  <2> SUFFICES ASSUME KeyInv, [Next]_vars PROVE KeyInv'
    OBVIOUS
  <2>1. CASE Memory
    BY <2>1, DropPreserves, MemzeroPreserves, MlockPreserves, SwapPreserves, MunlockPreserves,
       ClonePreserves, MovePreserves, SeedFromSlicePreserves DEF Memory
  <2>2. CASE KeyPairs
    BY <2>2, GenKeyPreserves, GenKeypairPreserves, KeypairFromSeedPreserves,
       ToCurve25519SkPreserves, ToCurve25519PkPreserves, PublicKeyPreserves DEF KeyPairs
  <2>3. CASE Exchange
    BY <2>3, SessionKeysPreserves, ScalarmultPreserves, ScalarmultBasePreserves,
       DeriveFromKeyPreserves DEF Exchange
  <2>4. CASE PasswordUse
    BY <2>4, GenSaltPreserves, DeriveKeyPreserves, PwhashPreserves,
       PwhashVerifyPreserves DEF PasswordUse
  <2>5. CASE Restart
    BY <2>5, RestartPreserves
  <2>6. CASE UNCHANGED vars
    BY <2>6 DEF vars, KeyInv, TypeOK, SessionsInv, OriginInv, ExposedInv,
                LockedStaysInRam, LoginIsExact
  <2> QED
    BY <2>1, <2>2, <2>3, <2>4, <2>5, <2>6 DEF Next
<1> QED
  BY <1>1, <1>2, PTL DEF Spec

LEMMA KxHalfEqual ==
  \A i, j, q, r, a, b, c, d :
    KxHalf(i, q, a, b) = KxHalf(j, r, c, d) => i = j /\ a = c /\ b = d
  BY DEF KxHalf

\* The Diffie-Hellman function commutes.
LEMMA DHCommutes == \A a, b : DH(a, Pub(b)) = DH(b, Pub(a))
  BY DEF DH, Pub

\* Sessions agree exactly if both sides saw the same two keys, in every program.
THEOREM Sessions == Spec => []SessionsAgree
<1>1. SessionsInv => SessionsAgree
  <2> SUFFICES ASSUME SessionsInv, NEW c \in sessions, NEW d \in sessions
               PROVE  /\ c.rx # c.tx /\ c.peer # BadPk
                      /\ (/\ c.role = "client" /\ d.role = "server"
                          /\ c.pk = Pub(c.sk) /\ d.pk = Pub(d.sk)
                          /\ c.peer = d.pk /\ d.peer = c.pk)
                         => c.rx = d.tx /\ c.tx = d.rx
                      /\ c.rx = d.tx => c.role # d.role /\ c.pk = d.peer /\ c.peer = d.pk
    BY DEF SessionsAgree
  <2>1. ASSUME NEW x \in sessions
        PROVE  /\ x.peer # BadPk
               /\ \/ /\ x.role = "server"
                     /\ x.rx = KxHalf(2, DH(x.sk, x.peer), x.peer, x.pk)
                     /\ x.tx = KxHalf(1, DH(x.sk, x.peer), x.peer, x.pk)
                  \/ /\ x.role = "client"
                     /\ x.rx = KxHalf(1, DH(x.sk, x.peer), x.pk, x.peer)
                     /\ x.tx = KxHalf(2, DH(x.sk, x.peer), x.pk, x.peer)
    BY DEF SessionsInv, ServerKeys, ClientKeys
  <2>2. c.rx # c.tx /\ c.peer # BadPk
    BY <2>1, KxHalfEqual
  <2>3. ASSUME c.role = "client", d.role = "server", c.pk = Pub(c.sk), d.pk = Pub(d.sk),
               c.peer = d.pk, d.peer = c.pk
        PROVE  c.rx = d.tx /\ c.tx = d.rx
    <3>1. DH(c.sk, c.peer) = DH(d.sk, d.peer)
      BY <2>3, DHCommutes
    <3> QED
      BY <2>1, <2>3, <3>1
  <2>4. ASSUME c.rx = d.tx PROVE c.role # d.role /\ c.pk = d.peer /\ c.peer = d.pk
    BY <2>1, <2>4, KxHalfEqual
  <2> QED
    BY <2>2, <2>3, <2>4
<1>2. KeyInv => SessionsAgree
  BY <1>1 DEF KeyInv
<1> QED
  BY <1>2, KeyInvHolds, PTL

\* Locked slots are not swapped, for any layout of slots on pages.
THEOREM LocksHold == Spec => []LockedStaysInRam
<1>1. KeyInv => LockedStaysInRam
  BY DEF KeyInv
<1> QED
  BY <1>1, KeyInvHolds, PTL

\* A password gives one key pair per salt and limits, in every program.
THEOREM Identity == Spec => []SameIdentity
<1>1. KeyInv => SameIdentity
  BY DEF KeyInv, OriginInv, SameIdentity
<1> QED
  BY <1>1, KeyInvHolds, PTL

\* Logins are decided by the last password that was hashed, in every program.
THEOREM Logins == Spec => []LoginIsExact
<1>1. KeyInv => LoginIsExact
  BY DEF KeyInv
<1> QED
  BY <1>1, KeyInvHolds, PTL

=============================================================================
