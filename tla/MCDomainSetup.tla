--------------------------- MODULE MCDomainSetup ---------------------------
(* An instance of DomainSetup for TLC. *)
EXTENDS DomainSetup, TLC

AllCommands == {"run", "rm", "rm-all", "start", "ssh", "upload"}

\* A persistent VM with everything and a transient one with a config.
SomeOptions ==
  {[secure |-> TRUE, ignition |-> TRUE, transient |-> FALSE, wait |-> TRUE],
   [secure |-> FALSE, ignition |-> TRUE, transient |-> TRUE, wait |-> FALSE]}

\* OwnFiles without its exception: what two commands on one name can break.
OwnFilesAlone ==
  \A v \in VMs : Running(v) =>
    guest[v].fwvars \in {0, guest[v].gen} /\ guest[v].ign \in {0, guest[v].gen}

Symmetry == Permutations(Procs) \cup Permutations(VMs)
=============================================================================
