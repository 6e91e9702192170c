\* A VM that does nothing in particular, and somebody who wants it to stop.
SPECIFICATION FairSpec
CONSTANTS
  Options <- Plain
  Streams = {"journal"}
  Commands <- OnlyRun
  Workers = 2
  Mounts = 2
  PipeSize = 1
  MaxWritten = 0
  MaxNotes = 0
  MaxKills = 0
PROPERTIES SignalEnds
CHECK_DEADLOCK FALSE
