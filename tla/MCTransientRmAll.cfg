SPECIFICATION Spec
CONSTANTS
  Keys = {k1}
  NoKey = NoKey
  Temps = {t1}
  NoTemp = NoTemp
  VMs = {v1}
  Procs = {p1}
  MaxInodes = 2
  BaseNamed = {}
  Commands = {"run", "rm-all"}
  Transients = {TRUE}
  MaxCrashes = 0
SYMMETRY Symmetry
PROPERTIES
  RmAllKeepsBases
