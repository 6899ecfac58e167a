SPECIFICATION ValidationSpec
CONSTANTS
  MaxRec = 2
  Target = {t1, t2}
  Kind = {a, b}
  InMax = 2
  t1 = t1
  t2 = t2
  a = a
  b = b
INVARIANTS DomainApplied
CHECK_DEADLOCK FALSE
