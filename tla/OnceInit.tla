------------------------------ MODULE OnceInit ------------------------------
(***************************************************************************)
(* What `sodiumoxide::init()` promises to the threads that call it         *)
(* (src/src/lib.rs, lines 90-102), with nothing of libsodium in it.  Every *)
(* call takes effect at one moment between its start and its return: it    *)
(* makes the library ready, or it finds it ready, or it fails and changes  *)
(* nothing.  A ready library stays ready, and no call fails on one.        *)
(***************************************************************************)

CONSTANTS
  Threads,
  MayFail     \* an initialization may fail

VARIABLES
  ready,      \* the library can be used
  call,       \* call[t]: thread t's call of `init`, and its fate once decided
  result      \* result[t]: what the last call of thread t returned

vars == <<ready, call, result>>

Init ==
  /\ ready  = FALSE
  /\ call   = [t \in Threads |-> "none"]
  /\ result = [t \in Threads |-> "none"]

Call(t) ==
  /\ call[t] = "none"
  /\ call' = [call EXCEPT ![t] = "pending"]
  /\ UNCHANGED <<ready, result>>

Succeed(t) ==
  /\ call[t] = "pending"
  /\ call' = [call EXCEPT ![t] = "Ok"]
  /\ ready' = TRUE
  /\ UNCHANGED result

Fail(t) ==
  /\ MayFail
  /\ ~ready
  /\ call[t] = "pending"
  /\ call' = [call EXCEPT ![t] = "Err"]
  /\ UNCHANGED <<ready, result>>

Return(t) ==
  /\ call[t] \in {"Ok", "Err"}
  /\ result' = [result EXCEPT ![t] = call[t]]
  /\ call' = [call EXCEPT ![t] = "none"]
  /\ UNCHANGED ready

Next == \E t \in Threads : Call(t) \/ Succeed(t) \/ Fail(t) \/ Return(t)

Spec == Init /\ [][Next]_vars
=============================================================================
