SPECIFICATION FairSpec
CONSTANTS
  p1 = p1
  p2 = p2
  t1 = t1
  t2 = t2
  t3 = t3
  Procs = {p1}
  Trans = {t1, t2}
  ProcOf <- TwoThreads
  Names = {n1}
  Writes = {w1, w2}
  NoValue = NoValue
  Channel = TRUE
  Preemptive = FALSE
INVARIANTS
  NoDirtyShared
  ReadYourWrites
  Coherent
  FloorRespected
PROPERTIES
  EventuallyCoherent
  Implements
