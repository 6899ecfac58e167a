SPECIFICATION Spec
CONSTANTS
  p1 = p1
  p2 = p2
  t1 = t1
  t2 = t2
  t3 = t3
  Procs = {p1,p2}
  Trans = {t1, t2}
  ProcOf <- TwoProcesses
  Names = {n1}
  Writes = {w1, w2}
  NoValue = NoValue
  Channel = FALSE
  Preemptive = FALSE
INVARIANT ResetOnCommit
