SPECIFICATION FairSpec
CONSTANTS
  t1 = t1  t2 = t2  t3 = t3  t4 = t4
  p1 = p1  p2 = p2  p3 = p3  p4 = p4
  Tests = {t1, t2, t3}
  Procs = {p1, p2}
  ProcOf <- Threads
  Wrapper = w
  Inherited = TRUE
  Tokens = {1, 2, 3, 4, 5}
  Need <- Mixed
  Booted = {t1}
  MaxKills = 1
INVARIANTS TokenInv VmsBacked EnoughLeft StuckOnlyBySize
PROPERTIES JobserverIsBudget EveryTestEnds
CHECK_DEADLOCK FALSE
