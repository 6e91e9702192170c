\* An ephemeral VM of any kind, under every command.
SPECIFICATION FairSpec
CONSTANTS
  Options <- AnyOptions
  Streams = {"journal"}
  Commands <- AllCommands
  Workers = 2
  Mounts = 1
  PipeSize = 1
  MaxWritten = 1
  MaxNotes = 1
  MaxKills = 1
INVARIANTS TypeOK OutputComplete SessionNeedsSsh MonitorCurrent DiskComplete
PROPERTIES LeaseKept VmOverEnds CommandEnds
CHECK_DEADLOCK FALSE
