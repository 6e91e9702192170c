-------------------------- MODULE EphemeralLease ----------------------------
(***************************************************************************)
(* What a command that works in an ephemeral VM promises: it is let in     *)
(* only when the VM's sshd has answered, and when it has ended its VM has  *)
(* gone, unless the command itself was killed.                             *)
(***************************************************************************)
VARIABLES
  vm,        \* the VM: absent, on, off
  answered,  \* whether its sshd has answered
  user       \* the command: out, waiting, in, left, killed

vars == <<vm, answered, user>>

Init ==
  /\ vm = "absent"
  /\ answered = FALSE
  /\ user = "out"

\* There is a VM, or there is none and the command has failed.
Start ==
  /\ user = "out"
  /\ \/ user' = "waiting" /\ vm' = "on"
     \/ user' = "left" /\ UNCHANGED vm
  /\ UNCHANGED answered

Answer ==
  /\ vm = "on"
  /\ answered' = TRUE
  /\ UNCHANGED <<vm, user>>

Enter ==
  /\ user = "waiting"
  /\ answered
  /\ user' = "in"
  /\ UNCHANGED <<vm, answered>>

Over ==
  /\ vm = "on"
  /\ vm' = "off"
  /\ UNCHANGED <<answered, user>>

Leave ==
  /\ user \in {"waiting", "in"}
  /\ user' = "left"
  /\ vm' = "off"
  /\ UNCHANGED answered

Abandon ==
  /\ user \in {"waiting", "in"}
  /\ user' = "killed"
  /\ UNCHANGED <<vm, answered>>

Next == Start \/ Answer \/ Enter \/ Over \/ Leave \/ Abandon

Spec == Init /\ [][Next]_vars
=============================================================================
