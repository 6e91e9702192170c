SPECIFICATION Spec
CONSTANTS
  Keys = {k1, k2}
  NoKey = NoKey
  Temps = {t1, t2}
  NoTemp = NoTemp
  VMs = {v1, v2}
  Procs = {p1}
  MaxInodes = 3
  BaseNamed = {}
  Commands <- AllCommands
  Transients = {FALSE}
  MaxCrashes = 1
SYMMETRY Symmetry
INVARIANTS
  BackingIntact
  DefinedCanStart
  NameReusable
PROPERTIES
  BasesOnlyPruned
  DisksOnlyRemovedWithVm
