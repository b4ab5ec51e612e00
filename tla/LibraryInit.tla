----------------------------- MODULE LibraryInit -----------------------------
(***************************************************************************)
(* `sodiumoxide::init()`, and what depends on it having been called: the   *)
(* random number functions and `aead::aes256gcm`.  Threads call them in    *)
(* any order.                                                              *)
(*                                                                         *)
(* `sodium_init` is external: under a lock it detects the CPU's features,  *)
(* seeds the generator and notes that it is done, one visible write after  *)
(* the other.  Without it, the first call of the generator seeds it with   *)
(* no lock, so two first calls at a time are a data race.                  *)
(***************************************************************************)
EXTENDS Integers

CONSTANTS
  Threads,
  SodiumFails      \* sodium_init may return -1

ASSUME InitAssumption == SodiumFails \in BOOLEAN

VARIABLES
  hw,          \* the CPU has AES-NI and CLMUL
  features,    \* libsodium knows that it has
  seeded,      \* the generator is seeded
  initialized, \* libsodium's own flag
  lock,        \* the threads in sodium_init's critical section
  pc,          \* pc[t]: where thread t is
  rc,          \* rc[t]: what sodium_init returned to thread t
  inited,      \* inited[t]: the last result of `init` in t
  token,       \* token[t]: t holds a value of type Aes256Gcm
  answer,      \* answer[t]: the last result of `Aes256Gcm::new` in t
  crashed,     \* an illegal instruction was executed
  early,       \* history: random numbers were drawn before any Ok of `init`
  forged       \* history: an Aes256Gcm was written down without `new`

sodium  == <<hw, features, seeded, initialized>>
conduct == <<early, forged>>
vars    == <<hw, features, seeded, initialized, lock, pc, rc, inited, token,
             answer, crashed, early, forged>>

Results == {"none", "Ok", "Err"}

Init ==
  /\ hw \in BOOLEAN
  /\ features = FALSE /\ seeded = FALSE /\ initialized = FALSE
  /\ lock    = {}
  /\ pc      = [t \in Threads |-> "idle"]
  /\ rc      = [t \in Threads |-> 0]
  /\ inited  = [t \in Threads |-> "none"]
  /\ token   = [t \in Threads |-> FALSE]
  /\ answer  = [t \in Threads |-> "none"]
  /\ crashed = FALSE
  /\ early   = FALSE /\ forged = FALSE

Goto(t, from, to) == pc[t] = from /\ pc' = [pc EXCEPT ![t] = to]

-----------------------------------------------------------------------------
(* init()                                                                  *)

\* Fault: only the first initialization counts as a success.
InitOk_FirstOnly(code) == code = 0

\* Fault: the code is not looked at.
InitOk_Always(code) == TRUE

\* sodium_init returns 0, 1 when it was done before, or -1.
InitOk(code) == code >= 0

InitCall(t) ==
  /\ Goto(t, "idle", "enter")
  /\ UNCHANGED <<sodium, lock, rc, inited, token, answer, crashed, conduct>>

\* sodium_crit_enter
SodiumEnter(t) ==
  /\ lock = {}
  /\ lock' = {t}
  /\ Goto(t, "enter", IF initialized THEN "leave" ELSE "detect")
  /\ rc' = [rc EXCEPT ![t] = IF initialized THEN 1 ELSE 0]
  /\ UNCHANGED <<sodium, inited, token, answer, crashed, conduct>>

SodiumDetect(t) ==
  /\ Goto(t, "detect", "seed")
  /\ features' = hw
  /\ UNCHANGED <<hw, seeded, initialized, lock, rc, inited, token, answer, crashed, conduct>>

SodiumSeed(t) ==
  /\ Goto(t, "seed", "done")
  /\ seeded' = TRUE
  /\ UNCHANGED <<hw, features, initialized, lock, rc, inited, token, answer, crashed, conduct>>

SodiumDone(t) ==
  /\ Goto(t, "done", "leave")
  /\ initialized' = TRUE
  /\ UNCHANGED <<hw, features, seeded, lock, rc, inited, token, answer, crashed, conduct>>

\* sodium_init gives up before it has done anything.
SodiumFail(t) ==
  /\ SodiumFails
  /\ Goto(t, "detect", "leave")
  /\ rc' = [rc EXCEPT ![t] = -1]
  /\ UNCHANGED <<sodium, lock, inited, token, answer, crashed, conduct>>

\* sodium_crit_leave
SodiumLeave(t) ==
  /\ Goto(t, "leave", "return")
  /\ lock' = lock \ {t}
  /\ UNCHANGED <<sodium, rc, inited, token, answer, crashed, conduct>>

\* Fault: `init` calls sodium_init until it reports the first initialization.
InitReturn_Retry(t) ==
  /\ Goto(t, "return", IF rc[t] = 0 THEN "idle" ELSE "enter")
  /\ inited' = [inited EXCEPT ![t] = IF rc[t] = 0 THEN "Ok" ELSE @]
  /\ UNCHANGED <<sodium, lock, rc, token, answer, crashed, conduct>>

InitReturn(t) ==
  /\ Goto(t, "return", "idle")
  /\ inited' = [inited EXCEPT ![t] = IF InitOk(rc[t]) THEN "Ok" ELSE "Err"]
  /\ UNCHANGED <<sodium, lock, rc, token, answer, crashed, conduct>>

-----------------------------------------------------------------------------
(* randombytes, gen_key, gen_keypair, gen_random_nonce, ...                *)

\* A draw from a seeded generator changes nothing here; another one seeds it.
RandomCall(t) ==
  /\ Goto(t, "idle", IF seeded THEN "idle" ELSE "stir")
  /\ early' = (early \/ \A u \in Threads : inited[u] # "Ok")
  /\ UNCHANGED <<sodium, lock, rc, inited, token, answer, crashed, forged>>

RandomStirred(t) ==
  /\ Goto(t, "stir", "idle")
  /\ seeded' = TRUE
  /\ UNCHANGED <<hw, features, initialized, lock, rc, inited, token, answer, crashed, conduct>>

-----------------------------------------------------------------------------
(* aead::aes256gcm                                                         *)

\* Fault: the runtime check is forgotten.
IsAvailable_Always == TRUE

\* `is_available`, and the check in `Aes256Gcm::new`.
IsAvailable == features

AesNew(t) ==
  /\ pc[t] = "idle"
  /\ answer' = [answer EXCEPT ![t] = IF IsAvailable THEN "Ok" ELSE "Err"]
  /\ token'  = [token EXCEPT ![t] = @ \/ IsAvailable]
  /\ UNCHANGED <<sodium, lock, pc, rc, inited, crashed, conduct>>

\* The unit struct is public, and so is its constructor.
AesLiteral(t) ==
  /\ pc[t] = "idle"
  /\ token'  = [token EXCEPT ![t] = TRUE]
  /\ forged' = TRUE
  /\ UNCHANGED <<sodium, lock, pc, rc, inited, answer, crashed, early>>

\* The value is Copy: another thread may be given it.
AesShare(t, u) ==
  /\ token[t]
  /\ token' = [token EXCEPT ![u] = TRUE]
  /\ UNCHANGED <<sodium, lock, pc, rc, inited, answer, crashed, conduct>>

\* seal, seal_detached, open and open_detached need only the value.
AesUse(t) ==
  /\ pc[t] = "idle"
  /\ token[t]
  /\ crashed' = (crashed \/ ~hw)
  /\ UNCHANGED <<sodium, lock, pc, rc, inited, token, answer, conduct>>

-----------------------------------------------------------------------------
InSodium(t) ==
  \/ SodiumEnter(t) \/ SodiumDetect(t) \/ SodiumSeed(t) \/ SodiumDone(t)
  \/ SodiumFail(t)  \/ SodiumLeave(t)

Next ==
  \E t \in Threads :
    \/ InitCall(t) \/ InSodium(t) \/ InitReturn(t)
    \/ RandomCall(t) \/ RandomStirred(t)
    \/ AesNew(t) \/ AesLiteral(t) \/ AesUse(t)
    \/ \E u \in Threads : AesShare(t, u)

Spec == Init /\ [][Next]_vars

\* A thread that is inside a call keeps running, and whoever waits for the
\* lock gets it in the end.
FairSpec ==
  Spec /\ \A t \in Threads : /\ SF_vars(SodiumEnter(t))
                             /\ WF_vars(InSodium(t) \/ InitReturn(t))

-----------------------------------------------------------------------------
(* Properties                                                              *)

\* Types of all variables.
TypeOK ==
  /\ hw \in BOOLEAN /\ features \in BOOLEAN /\ seeded \in BOOLEAN
  /\ initialized \in BOOLEAN /\ crashed \in BOOLEAN
  /\ early \in BOOLEAN /\ forged \in BOOLEAN
  /\ lock \subseteq Threads
  /\ pc \in [Threads -> {"idle", "enter", "detect", "seed", "done", "leave",
                         "return", "stir"}]
  /\ rc \in [Threads -> -1..1]
  /\ inited \in [Threads -> Results]
  /\ token \in [Threads -> BOOLEAN]
  /\ answer \in [Threads -> Results]

\* A thread whose `init` succeeded never sees a later `init` fail, whichever
\* thread did the work: the code of a repeated initialization counts as success.
InitIsIdempotent ==
  [][\A t \in Threads : inited[t] = "Ok" => inited'[t] = "Ok"]_vars

\* The generator is never seeded by two threads at a time, inside sodium_init
\* or outside of it, as long as nobody draws random numbers before an `init` has
\* returned Ok in some thread, not necessarily in the one that draws.
NoSeedingRace ==
  ~early => \A t, u \in Threads :
    (pc[t] \in {"seed", "stir"} /\ pc[u] \in {"seed", "stir"}) => t = u

\* No AES instruction is executed on a CPU that lacks them, by any thread and
\* with any copy of the token, as long as every token comes from `new`.
NoIllegalInstruction == ~forged => ~crashed

\* "sodiumoxide exposes an API that precludes the use of the
\* `crypto_aead_aes256gcm_*` family of functions without performing the runtime
\* check": so whatever a safe program writes, it never executes an instruction
\* that the CPU lacks.
CheckIsUnavoidable == ~crashed

\* In a thread whose `init` has returned Ok, `Aes256Gcm::new` tells what the
\* CPU can do: a detection of another thread is never seen half done.
NewIsExactAfterInit ==
  [][\A t \in Threads :
       (inited[t] = "Ok" /\ AesNew(t)) => (answer'[t] = "Ok" <=> hw)]_vars

\* The lock is held by one thread, the one in sodium_init's critical section.
LockInv ==
  /\ \A t \in Threads :
       t \in lock <=> pc[t] \in {"detect", "seed", "done", "leave"}
  /\ \A t, u \in lock : t = u

\* What is known of the library at each place of sodium_init, and after it.
SodiumInv ==
  /\ features => hw
  /\ initialized => seeded /\ features = hw
  /\ \A t \in Threads :
       /\ pc[t] \in {"detect", "seed", "done"} => ~initialized /\ rc[t] = 0
       /\ pc[t] \in {"seed", "done"} => features = hw
       /\ pc[t] = "done" => seeded
       /\ pc[t] \in {"leave", "return"} /\ rc[t] >= 0 => initialized

\* What a thread may conclude from its results: an Ok of `init` that the library
\* is initialized for good, and an Aes256Gcm that the CPU has AES.
ThreadInv ==
  \A t \in Threads :
    /\ inited[t] = "Ok" => initialized /\ rc[t] >= 0
    /\ ~early => pc[t] # "stir"
    /\ ~forged => (token[t] => hw)

\* The results of `init` and `Aes256Gcm::new` that threads hold agree with the
\* library's state at every point of racing initializations; inductive.
InitInv ==
  TypeOK /\ LockInv /\ SodiumInv /\ ThreadInv /\ NoIllegalInstruction

\* Every call of `init` returns, however many threads call it at a time.
InitReturns == \A t \in Threads : pc[t] = "enter" ~> pc[t] = "idle"

\* Where thread t's call of `init` stands: its fate is decided when sodium_init
\* has the code that it will return, inside its critical section.
CallOf(t) ==
  CASE pc[t] \in {"idle", "stir"}                     -> "none"
    [] pc[t] \in {"enter", "detect", "seed", "done"}  -> "pending"
    [] pc[t] \in {"leave", "return"}                  ->
         IF rc[t] >= 0 THEN "Ok" ELSE "Err"

Once ==
  INSTANCE OnceInit
  WITH MayFail <- SodiumFails,
       ready   <- initialized /\ seeded /\ features = hw,
       call    <- [t \in Threads |-> CallOf(t)],
       result  <- inited

\* `init` acts as one atomic step: with any number of threads between its lock,
\* its writes and its return, every call succeeds or fails at one moment, what
\* it returns is what happened then, and after a success none ever fails.
InitIsAtomic == Once!Spec
=============================================================================
