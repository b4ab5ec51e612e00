-------------------------- MODULE LibraryInitProofs --------------------------
(***************************************************************************)
(* LibraryInit for any set of threads: InitInv is inductive, the safety    *)
(* properties follow from it, and `init` implements OnceInit.              *)
(***************************************************************************)
EXTENDS LibraryInit, TLAPS

USE DEF Results

\* Before the first call nothing is held, known or seeded.
LEMMA InitEstablishes == Init => InitInv
<1> SUFFICES ASSUME Init PROVE InitInv
  OBVIOUS
<1> USE DEF Init
<1>1. TypeOK
  <2>1. rc \in [Threads -> -1..1]
    BY SMT
  <2>2. token \in [Threads -> BOOLEAN]
    BY Zenon
  <2> QED
    BY <2>1, <2>2 DEF TypeOK
<1>2. LockInv /\ SodiumInv
  BY DEF LockInv, SodiumInv
<1>3. ThreadInv /\ NoIllegalInstruction
  BY DEF ThreadInv, NoIllegalInstruction
<1> QED
  BY <1>1, <1>2, <1>3 DEF InitInv

\* Types are kept by every operation.
LEMMA TypeStep == TypeOK /\ [Next]_vars => TypeOK'
<1> SUFFICES ASSUME TypeOK, [Next]_vars PROVE TypeOK'
  OBVIOUS
<1> USE DEF TypeOK
<1>1. CASE UNCHANGED vars
  BY <1>1 DEF vars
<1>2. ASSUME NEW t \in Threads, InitCall(t) PROVE TypeOK'
  BY <1>2 DEF InitCall, Goto, sodium, conduct
<1>3. ASSUME NEW t \in Threads, InSodium(t) PROVE TypeOK'
  <2>1. CASE SodiumEnter(t)
    BY <2>1 DEF SodiumEnter, Goto, sodium, conduct
  <2>2. CASE SodiumDetect(t)
    BY <2>2 DEF SodiumDetect, Goto, conduct
  <2>3. CASE SodiumSeed(t)
    BY <2>3 DEF SodiumSeed, Goto, conduct
  <2>4. CASE SodiumDone(t)
    BY <2>4 DEF SodiumDone, Goto, conduct
  <2>5. CASE SodiumFail(t)
    BY <2>5 DEF SodiumFail, Goto, sodium, conduct
  <2>6. CASE SodiumLeave(t)
    BY <2>6 DEF SodiumLeave, Goto, sodium, conduct
  <2> QED
    BY <1>3, <2>1, <2>2, <2>3, <2>4, <2>5, <2>6 DEF InSodium
<1>4. ASSUME NEW t \in Threads, InitReturn(t) PROVE TypeOK'
  BY <1>4 DEF InitReturn, Goto, sodium, conduct
<1>5. ASSUME NEW t \in Threads, RandomCall(t) \/ RandomStirred(t) PROVE TypeOK'
  BY <1>5 DEF RandomCall, RandomStirred, Goto, sodium, conduct
<1>6. ASSUME NEW t \in Threads, AesNew(t) PROVE TypeOK'
  BY <1>6 DEF AesNew, IsAvailable, sodium, conduct
<1>7. ASSUME NEW t \in Threads, AesLiteral(t) \/ AesUse(t) PROVE TypeOK'
  BY <1>7 DEF AesLiteral, AesUse, sodium, conduct
<1>8. ASSUME NEW t \in Threads, NEW u \in Threads, AesShare(t, u) PROVE TypeOK'
  BY <1>8 DEF AesShare, sodium, conduct
<1> QED
  BY <1>1, <1>2, <1>3, <1>4, <1>5, <1>6, <1>7, <1>8 DEF Next

\* The lock is taken only when it is free, and by who enters.
LEMMA LockStep == InitInv /\ [Next]_vars => LockInv'
<1> SUFFICES ASSUME InitInv, [Next]_vars PROVE LockInv'
  OBVIOUS
<1> USE DEF InitInv, TypeOK, LockInv
<1>1. CASE UNCHANGED vars
  BY <1>1 DEF vars
<1>2. ASSUME NEW t \in Threads, InitCall(t) PROVE LockInv'
  BY <1>2 DEF InitCall, Goto, sodium, conduct
<1>3. ASSUME NEW t \in Threads, SodiumEnter(t) PROVE LockInv'
  BY <1>3 DEF SodiumEnter, Goto, sodium, conduct
<1>4. ASSUME NEW t \in Threads,
             SodiumDetect(t) \/ SodiumSeed(t) \/ SodiumDone(t) \/ SodiumFail(t)
      PROVE  LockInv'
  BY <1>4 DEF SodiumDetect, SodiumSeed, SodiumDone, SodiumFail, Goto, sodium, conduct
<1>5. ASSUME NEW t \in Threads, SodiumLeave(t) PROVE LockInv'
  BY <1>5 DEF SodiumLeave, Goto, sodium, conduct
<1>6. ASSUME NEW t \in Threads,
             InitReturn(t) \/ RandomCall(t) \/ RandomStirred(t)
      PROVE  LockInv'
  BY <1>6 DEF InitReturn, RandomCall, RandomStirred, Goto, sodium, conduct
<1>7. ASSUME NEW t \in Threads, AesNew(t) \/ AesLiteral(t) \/ AesUse(t)
      PROVE  LockInv'
  BY <1>7 DEF AesNew, AesLiteral, AesUse, conduct
<1>8. ASSUME NEW t \in Threads, NEW u \in Threads, AesShare(t, u)
      PROVE  LockInv'
  BY <1>8 DEF AesShare, conduct
<1> QED
  BY <1>1, <1>2, <1>3, <1>4, <1>5, <1>6, <1>7, <1>8 DEF Next, InSodium

\* One thread at a time works on the library, so what it has done stays done.
LEMMA SodiumStep == InitInv /\ [Next]_vars => SodiumInv'
<1> SUFFICES ASSUME InitInv, [Next]_vars PROVE SodiumInv'
  OBVIOUS
<1> USE DEF InitInv, TypeOK, SodiumInv
<1>1. CASE UNCHANGED vars
  BY <1>1 DEF vars
<1>2. ASSUME NEW t \in Threads, InitCall(t) PROVE SodiumInv'
  BY <1>2 DEF InitCall, Goto, sodium, conduct
<1>3. ASSUME NEW t \in Threads, SodiumEnter(t) PROVE SodiumInv'
  BY <1>3 DEF SodiumEnter, Goto, sodium, conduct
<1>4. ASSUME NEW t \in Threads, SodiumDetect(t) PROVE SodiumInv'
  BY <1>4 DEF SodiumDetect, Goto, conduct, LockInv
<1>5. ASSUME NEW t \in Threads, SodiumSeed(t) PROVE SodiumInv'
  BY <1>5 DEF SodiumSeed, Goto, conduct, LockInv
<1>6. ASSUME NEW t \in Threads, SodiumDone(t) PROVE SodiumInv'
  BY <1>6 DEF SodiumDone, Goto, conduct, LockInv
<1>7. ASSUME NEW t \in Threads, SodiumFail(t) \/ SodiumLeave(t)
      PROVE  SodiumInv'
  BY <1>7 DEF SodiumFail, SodiumLeave, Goto, sodium, conduct
<1>8. ASSUME NEW t \in Threads,
             InitReturn(t) \/ RandomCall(t) \/ RandomStirred(t)
      PROVE  SodiumInv'
  BY <1>8 DEF InitReturn, RandomCall, RandomStirred, Goto, sodium, conduct
<1>9. ASSUME NEW t \in Threads, AesNew(t) \/ AesLiteral(t) \/ AesUse(t)
      PROVE  SodiumInv'
  BY <1>9 DEF AesNew, AesLiteral, AesUse, sodium, conduct
<1>10. ASSUME NEW t \in Threads, NEW u \in Threads, AesShare(t, u)
       PROVE  SodiumInv'
  BY <1>10 DEF AesShare, sodium, conduct
<1> QED
  BY <1>1, <1>2, <1>3, <1>4, <1>5, <1>6, <1>7, <1>8, <1>9, <1>10
     DEF Next, InSodium

\* What a thread was told stays true.
LEMMA ThreadStep == InitInv /\ [Next]_vars => ThreadInv' /\ NoIllegalInstruction'
<1> SUFFICES ASSUME InitInv, [Next]_vars PROVE (ThreadInv /\ NoIllegalInstruction)'
  OBVIOUS
<1> USE DEF InitInv, TypeOK, ThreadInv, NoIllegalInstruction
<1>1. CASE UNCHANGED vars
  BY <1>1 DEF vars
<1>2. ASSUME NEW t \in Threads, InitCall(t) PROVE (ThreadInv /\ NoIllegalInstruction)'
  BY <1>2 DEF InitCall, Goto, sodium, conduct
<1>3. ASSUME NEW t \in Threads, SodiumEnter(t) PROVE (ThreadInv /\ NoIllegalInstruction)'
  BY <1>3 DEF SodiumEnter, Goto, sodium, conduct
<1>4. ASSUME NEW t \in Threads,
             SodiumDetect(t) \/ SodiumSeed(t) \/ SodiumDone(t)
      PROVE  (ThreadInv /\ NoIllegalInstruction)'
  BY <1>4 DEF SodiumDetect, SodiumSeed, SodiumDone, Goto, conduct
<1>5. ASSUME NEW t \in Threads, SodiumFail(t) \/ SodiumLeave(t)
      PROVE  (ThreadInv /\ NoIllegalInstruction)'
  BY <1>5 DEF SodiumFail, SodiumLeave, Goto, sodium, conduct, SodiumInv
<1>6. ASSUME NEW t \in Threads, InitReturn(t) PROVE (ThreadInv /\ NoIllegalInstruction)'
  BY <1>6 DEF InitReturn, InitOk, Goto, sodium, conduct, SodiumInv
<1>7. ASSUME NEW t \in Threads, RandomCall(t) \/ RandomStirred(t)
      PROVE  (ThreadInv /\ NoIllegalInstruction)'
  <2>1. CASE RandomCall(t)
    <3>1. ~early' => ~early /\ \E u \in Threads : inited[u] = "Ok"
      BY <2>1, Zenon DEF RandomCall
    <3>2. ~early' => seeded
      BY <3>1 DEF SodiumInv
    <3>3. ~early' => \A u \in Threads : pc'[u] # "stir"
      BY <2>1, <3>1, <3>2 DEF RandomCall, Goto
    <3> QED
      BY <2>1, <3>3 DEF RandomCall, sodium
  <2>2. CASE RandomStirred(t)
    BY <2>2 DEF RandomStirred, Goto, conduct
  <2> QED
    BY <1>7, <2>1, <2>2
<1>8. ASSUME NEW t \in Threads, AesNew(t) PROVE (ThreadInv /\ NoIllegalInstruction)'
  BY <1>8 DEF AesNew, IsAvailable, sodium, conduct, SodiumInv
<1>9. ASSUME NEW t \in Threads, AesLiteral(t) \/ AesUse(t) PROVE (ThreadInv /\ NoIllegalInstruction)'
  BY <1>9 DEF AesLiteral, AesUse, sodium, conduct
<1>10. ASSUME NEW t \in Threads, NEW u \in Threads, AesShare(t, u)
       PROVE  (ThreadInv /\ NoIllegalInstruction)'
  BY <1>10 DEF AesShare, sodium, conduct
<1> QED
  BY <1>1, <1>2, <1>3, <1>4, <1>5, <1>6, <1>7, <1>8, <1>9, <1>10
     DEF Next, InSodium

\* At every point of racing initializations, the results threads hold of `init`
\* and `Aes256Gcm::new` agree with the library's state.
THEOREM InitInvHolds == Spec => []InitInv
<1>1. InitInv /\ [Next]_vars => InitInv'
  BY TypeStep, LockStep, SodiumStep, ThreadStep DEF InitInv
<1> QED
  BY InitEstablishes, <1>1, PTL DEF Spec

\* Types of all variables, always.
THEOREM TypeCorrect == Spec => []TypeOK
<1>1. InitInv => TypeOK
  BY DEF InitInv
<1> QED
  BY InitInvHolds, <1>1, PTL

\* As long as random numbers are drawn only after an Ok of `init`, the generator
\* is never seeded by two threads at a time.
THEOREM SeedingExclusive == Spec => []NoSeedingRace
<1>1. InitInv => NoSeedingRace
  BY DEF InitInv, TypeOK, LockInv, ThreadInv, NoSeedingRace
<1> QED
  BY InitInvHolds, <1>1, PTL

\* As long as every Aes256Gcm comes from `new`, no AES instruction is executed
\* on a CPU that lacks them.
THEOREM NoSigill == Spec => []NoIllegalInstruction
<1>1. InitInv => NoIllegalInstruction
  BY DEF InitInv
<1> QED
  BY InitInvHolds, <1>1, PTL

\* A thread that has seen `init` succeed never sees it fail.
THEOREM InitStaysOk == Spec => InitIsIdempotent
<1>1. ASSUME InitInv, [Next]_vars
      PROVE  [\A t \in Threads : inited[t] = "Ok" => inited'[t] = "Ok"]_vars
  <2> SUFFICES ASSUME NEW u \in Threads, inited[u] = "Ok"
               PROVE  inited'[u] = "Ok"
    BY <1>1 DEF vars
  <2>1. CASE inited' = inited
    BY <2>1
  <2>2. ASSUME NEW t \in Threads, InitReturn(t) PROVE inited'[u] = "Ok"
    BY <1>1, <2>2 DEF InitReturn, InitOk, InitInv, TypeOK, ThreadInv
  <2> QED
    BY <1>1, <2>1, <2>2
       DEF Next, vars, InSodium, InitCall, SodiumEnter, SodiumDetect, SodiumSeed,
           SodiumDone, SodiumFail, SodiumLeave, RandomCall, RandomStirred, AesNew,
           AesLiteral, AesUse, AesShare
<1> QED
  BY InitInvHolds, <1>1, PTL DEF Spec, InitIsIdempotent

\* After an Ok of `init`, `Aes256Gcm::new` says what the CPU can do.
THEOREM NewIsExact == Spec => NewIsExactAfterInit
<1>1. ASSUME InitInv, [Next]_vars
      PROVE  [\A t \in Threads :
                (inited[t] = "Ok" /\ AesNew(t)) => (answer'[t] = "Ok" <=> hw)]_vars
  BY <1>1 DEF InitInv, TypeOK, SodiumInv, ThreadInv, AesNew, IsAvailable
<1> QED
  BY InitInvHolds, <1>1, PTL DEF Spec, NewIsExactAfterInit

\* Every run of the racing threads is a run of the atomic `init`: the decisive
\* step is SodiumDone, SodiumFail, or the SodiumEnter that finds the work done.
THEOREM RefinesOnce == Spec => InitIsAtomic
<1> DEFINE Ready == initialized /\ seeded /\ features = hw
           Calls == [t \in Threads |-> CallOf(t)]
<1>1. Init => Once!Init
  BY DEF Init, Once!Init, CallOf
<1>2. ASSUME InitInv, InitInv', [Next]_vars
      PROVE  Once!Next \/ (Ready' = Ready /\ Calls' = Calls /\ inited' = inited)
  <2> DEFINE Stutter == Ready' = Ready /\ Calls' = Calls /\ inited' = inited
             Alone(t) == \A u \in Threads : u # t => pc'[u] = pc[u] /\ rc'[u] = rc[u]
  <2>1. (Ready <=> initialized) /\ (Ready' <=> initialized')
    BY <1>2 DEF InitInv, TypeOK, SodiumInv
  <2>2. ASSUME pc' = pc, rc' = rc, initialized' = initialized, inited' = inited
        PROVE  Stutter
    <3>1. \A u \in Threads : CallOf(u)' = CallOf(u)
      BY <2>2 DEF CallOf
    <3> QED
      BY <2>1, <2>2, <3>1
  <2>3. ASSUME NEW t \in Threads, NEW c, CallOf(t)' = c, Alone(t)
        PROVE  Calls' = [Calls EXCEPT ![t] = c]
    <3>1. \A u \in Threads : u # t => CallOf(u)' = CallOf(u)
      BY <2>3 DEF CallOf
    <3> QED
      BY <2>3, <3>1
  <2>4. ASSUME NEW t \in Threads, CallOf(t)' = CallOf(t), Alone(t),
               initialized' = initialized, inited' = inited
        PROVE  Stutter
    <3>1. Calls' = [Calls EXCEPT ![t] = CallOf(t)]
      BY <2>3, <2>4
    <3> QED
      BY <2>1, <2>4, <3>1
  <2>5. ASSUME NEW t \in Threads, InitCall(t) PROVE Once!Call(t)
    <3>1. CallOf(t) = "none" /\ CallOf(t)' = "pending"
      BY <1>2, <2>5 DEF InitCall, Goto, CallOf, InitInv, TypeOK
    <3>2. Alone(t)
      BY <1>2, <2>5 DEF InitCall, Goto, InitInv, TypeOK
    <3>3. Calls' = [Calls EXCEPT ![t] = "pending"]
      BY <2>3, <3>1, <3>2
    <3> QED
      BY <2>1, <2>5, <3>1, <3>3 DEF InitCall, sodium, Once!Call
  <2>6. ASSUME NEW t \in Threads, SodiumEnter(t) PROVE Once!Succeed(t) \/ Stutter
    <3>1. Alone(t) /\ CallOf(t) = "pending"
      BY <1>2, <2>6 DEF SodiumEnter, Goto, CallOf, InitInv, TypeOK
    <3>2. initialized' = initialized /\ inited' = inited
      BY <2>6 DEF SodiumEnter, sodium
    <3>3. CASE initialized
      <4>1. CallOf(t)' = "Ok"
        BY <1>2, <2>6, <3>3 DEF SodiumEnter, Goto, CallOf, InitInv, TypeOK
      <4>2. Calls' = [Calls EXCEPT ![t] = "Ok"]
        BY <2>3, <3>1, <4>1
      <4> QED
        BY <2>1, <3>1, <3>2, <3>3, <4>2 DEF Once!Succeed
    <3>4. CASE ~initialized
      <4>1. CallOf(t)' = "pending"
        BY <1>2, <2>6, <3>4 DEF SodiumEnter, Goto, CallOf, InitInv, TypeOK
      <4> QED
        BY <2>4, <3>1, <3>2, <4>1
    <3> QED
      BY <3>3, <3>4
  <2>7. ASSUME NEW t \in Threads, SodiumDetect(t) \/ SodiumSeed(t) PROVE Stutter
    <3>1. Alone(t) /\ CallOf(t) = "pending" /\ CallOf(t)' = "pending"
      BY <1>2, <2>7 DEF SodiumDetect, SodiumSeed, Goto, CallOf, InitInv, TypeOK
    <3> QED
      BY <2>4, <2>7, <3>1 DEF SodiumDetect, SodiumSeed
  <2>8. ASSUME NEW t \in Threads, SodiumDone(t) PROVE Once!Succeed(t)
    <3>1. Alone(t) /\ CallOf(t) = "pending" /\ CallOf(t)' = "Ok"
      BY <1>2, <2>8 DEF SodiumDone, Goto, CallOf, InitInv, TypeOK, SodiumInv
    <3>2. Calls' = [Calls EXCEPT ![t] = "Ok"]
      BY <2>3, <3>1
    <3> QED
      BY <2>1, <2>8, <3>1, <3>2 DEF SodiumDone, Once!Succeed
  <2>9. ASSUME NEW t \in Threads, SodiumFail(t) PROVE Once!Fail(t)
    <3>1. Alone(t) /\ CallOf(t) = "pending" /\ CallOf(t)' = "Err"
      BY <1>2, <2>9 DEF SodiumFail, Goto, CallOf, InitInv, TypeOK
    <3>2. Calls' = [Calls EXCEPT ![t] = "Err"]
      BY <2>3, <3>1
    <3>3. ~initialized /\ ~initialized' /\ inited' = inited /\ SodiumFails
      BY <1>2, <2>9 DEF SodiumFail, Goto, InitInv, SodiumInv, sodium
    <3> QED
      BY <2>1, <3>1, <3>2, <3>3 DEF Once!Fail
  <2>10. ASSUME NEW t \in Threads, SodiumLeave(t) PROVE Stutter
    <3>1. Alone(t) /\ CallOf(t)' = CallOf(t)
      BY <1>2, <2>10 DEF SodiumLeave, Goto, CallOf, InitInv, TypeOK
    <3> QED
      BY <2>4, <2>10, <3>1 DEF SodiumLeave, sodium
  <2>11. ASSUME NEW t \in Threads, InitReturn(t) PROVE Once!Return(t)
    <3>1. Alone(t) /\ CallOf(t)' = "none"
      BY <1>2, <2>11 DEF InitReturn, Goto, CallOf, InitInv, TypeOK
    <3>2. Calls' = [Calls EXCEPT ![t] = "none"]
      BY <2>3, <3>1
    <3>3. /\ CallOf(t) = (IF InitOk(rc[t]) THEN "Ok" ELSE "Err")
          /\ CallOf(t) \in {"Ok", "Err"}
      BY <1>2, <2>11 DEF InitReturn, InitOk, Goto, CallOf, InitInv, TypeOK
    <3>4. inited' = [inited EXCEPT ![t] = Calls[t]]
      BY <2>11, <3>3 DEF InitReturn
    <3> QED
      BY <2>1, <2>11, <3>2, <3>3, <3>4 DEF InitReturn, sodium, Once!Return
  <2>12. ASSUME NEW t \in Threads, RandomCall(t) \/ RandomStirred(t) PROVE Stutter
    <3>1. Alone(t) /\ CallOf(t) = "none" /\ CallOf(t)' = "none"
      BY <1>2, <2>12 DEF RandomCall, RandomStirred, Goto, CallOf, InitInv, TypeOK
    <3> QED
      BY <2>4, <2>12, <3>1 DEF RandomCall, RandomStirred, sodium
  <2>13. ASSUME NEW t \in Threads,
                \/ AesNew(t) \/ AesLiteral(t) \/ AesUse(t)
                \/ \E u \in Threads : AesShare(t, u)
         PROVE  Stutter
    BY <2>2, <2>13 DEF AesNew, AesLiteral, AesUse, AesShare, sodium
  <2>14. CASE UNCHANGED vars
    BY <2>2, <2>14 DEF vars
  <2>15. ASSUME NEW t \in Threads,
                Once!Call(t) \/ Once!Succeed(t) \/ Once!Fail(t) \/ Once!Return(t)
         PROVE  Once!Next
    BY <2>15 DEF Once!Next
  <2>16. CASE Next
    <3>1. PICK t \in Threads :
            \/ InitCall(t) \/ InSodium(t) \/ InitReturn(t)
            \/ RandomCall(t) \/ RandomStirred(t)
            \/ AesNew(t) \/ AesLiteral(t) \/ AesUse(t)
            \/ \E u \in Threads : AesShare(t, u)
      BY <2>16 DEF Next
    <3>2. InSodium(t) => \/ SodiumEnter(t) \/ SodiumDetect(t) \/ SodiumSeed(t)
                         \/ SodiumDone(t)  \/ SodiumFail(t)   \/ SodiumLeave(t)
      BY DEF InSodium
    <3> QED
      BY <2>5, <2>6, <2>7, <2>8, <2>9, <2>10, <2>11, <2>12, <2>13, <2>15,
         <3>1, <3>2, Zenon
  <2> QED
    BY <1>2, <2>14, <2>16, Zenon
<1>3. ASSUME InitInv, InitInv', [Next]_vars PROVE [Once!Next]_(Once!vars)
  BY <1>2, <1>3 DEF Once!vars
<1> QED
  BY <1>1, <1>3, InitInvHolds, PTL DEF Spec, InitIsAtomic, Once!Spec
=============================================================================
