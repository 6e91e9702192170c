\* A command that writes more output than a pipe holds.
SPECIFICATION FairSpec
CONSTANTS
  Options <- OnlyExecute
  Streams = {"journal"}
  Commands <- OnlyRun
  Workers = 2
  Mounts = 1
  PipeSize = 1
  MaxWritten = 2
  MaxNotes = 1
  MaxKills = 0
PROPERTIES StreamsOutput
CHECK_DEADLOCK FALSE
