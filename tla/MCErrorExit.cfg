\* A command that fails in a VM with boot notifications.
SPECIFICATION FairSpec
CONSTANTS
  Options <- ExecuteAndNotify
  Streams = {"journal"}
  Commands <- OnlyRun
  Workers = 2
  Mounts = 1
  PipeSize = 1
  MaxWritten = 2
  MaxNotes = 1
  MaxKills = 0
PROPERTIES NeverBlocksOnTasks
CHECK_DEADLOCK FALSE
