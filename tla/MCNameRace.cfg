SPECIFICATION Spec
CONSTANTS
  Keys = {k1}
  NoKey = NoKey
  Temps = {t1, t2}
  NoTemp = NoTemp
  VMs = {v1}
  Procs = {p1, p2}
  MaxInodes = 3
  BaseNamed = {}
  Commands = {"run"}
  Transients = {FALSE}
  MaxCrashes = 0
SYMMETRY Symmetry
PROPERTIES
  DisksOnlyRemovedWithVm
