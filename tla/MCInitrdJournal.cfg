\* A journal that is asked for, of images with an old and a new systemd.
SPECIFICATION Spec
CONSTANTS
  Requests <- BootRequests
  Hosts <- OtherHosts
  None = None
  MaxCid = 5
INVARIANT JournalOnEverySystemd
CHECK_DEADLOCK FALSE
