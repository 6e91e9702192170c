SPECIFICATION Spec
CONSTANTS
  t1 = t1  t2 = t2  t3 = t3  t4 = t4
  p1 = p1  p2 = p2  p3 = p3  p4 = p4
  Tests = {t1, t2, t3, t4}
  Procs = {p1, p2, p3, p4}
  ProcOf <- OnePerTest
  Wrapper = w
  Inherited = TRUE
  Tokens = {1, 2, 3, 4}
  Need <- Pairs
  Booted = {}
  MaxKills = 0
INVARIANT NeverStuck
CHECK_DEADLOCK FALSE
