SPECIFICATION Spec
CONSTANTS
  Procs = {p1, p2}
  VMs = {v1, v2}
  NoVM = NoVM
  Images = {i1}
  NoImage = NoImage
  Ports = {n1}
  NoPort = NoPort
  Commands <- AllCommands
  Options <- SomeOptions
  MaxGens = 2
  MaxKills = 0
  MaxMeets = 1
SYMMETRY Symmetry
CHECK_DEADLOCK FALSE
INVARIANT OwnFilesAlone
