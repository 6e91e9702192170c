\* Two commands, a libvirt daemon that exits, and a guest that boots.
SPECIFICATION Spec
CONSTANTS
  p1 = p1
  p2 = p2
  Procs = {p1, p2}
  Worlds <- SomeWorlds
  ExitTimes <- SomeExitTimes
  SpawnTimes <- SomeSpawnTimes
  BootTimes <- SomeBootTimes
  None = None
INVARIANT RetriesOnlyUnstarted
PROPERTY CommandsReach
