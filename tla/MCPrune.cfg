SPECIFICATION Spec
CONSTANTS
  Keys = {k1, k2}
  NoKey = NoKey
  Temps = {t1}
  NoTemp = NoTemp
  VMs = {v1, v2}
  Procs = {p1, p2}
  MaxInodes = 2
  BaseNamed = {}
  Commands = {"run", "rm", "prune"}
  Transients = {FALSE}
  MaxCrashes = 0
SYMMETRY Symmetry
INVARIANTS
  PruneInv
  PruneSparesPinned
