---------------------------- MODULE MCLibvirtVms ----------------------------
(* LibvirtVms for TLC: all its bounds are in the configurations. *)
EXTENDS LibvirtVms, TLC

Symmetry ==
  Permutations(Keys) \cup Permutations(Temps) \cup Permutations(VMs)
    \cup Permutations(Procs)

AllCommands == {"run", "to-base-disk", "rm", "rm-all", "start", "stop", "prune"}
=============================================================================
