------------------------------ MODULE VmBudget ------------------------------
(***************************************************************************)
(* What the VM jobserver of the test harness promises: the host's memory   *)
(* for VMs is cut into tokens, a test gets all the tokens of its VM at     *)
(* once, nobody else has one of them, and it gives them all back.          *)
(***************************************************************************)
CONSTANTS
  Tests,      \* the tests that start a VM
  Tokens,     \* the host's memory for VMs, in pieces of 128 MiB
  Allotments  \* Allotments[t]: the sets of tokens that make up the VM of test t

VARIABLES
  free,   \* the tokens nobody has a permit for
  permit  \* permit[t]: the tokens of test t

vars == <<free, permit>>

Init ==
  /\ free = Tokens
  /\ permit = [t \in Tests |-> {}]

Acquire(t) ==
  /\ permit[t] = {}
  /\ \E S \in Allotments[t] :
       /\ S \subseteq free
       /\ free' = free \ S
       /\ permit' = [permit EXCEPT ![t] = S]

Release(t) ==
  /\ permit[t] # {}
  /\ free' = free \cup permit[t]
  /\ permit' = [permit EXCEPT ![t] = {}]

\* A process that is killed may take free tokens with it.  A permit it has
\* stays with its VM.
Lose ==
  /\ free' \in SUBSET free
  /\ UNCHANGED permit

Next == (\E t \in Tests : Acquire(t) \/ Release(t)) \/ Lose

Spec == Init /\ [][Next]_vars
=============================================================================
