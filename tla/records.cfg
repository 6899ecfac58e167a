SPECIFICATION Spec
CONSTANTS
  Client = {c1, c2}
  Record = {r1}
  Value = {v1, v2}
  NoSuchValue = none
  MaxClock = 4
  MaxOps = 6
  Id = {1, 2}
  Name = {n1}
  Val = {0, 1}
  Browse = {x, y}
  ReadSize = 2
  MaxCount = 1
  User = {u1, u2}
  MaxNumber = 4
  MaxOpen = 5
  Field = {f1, f2}
  XmlVal = {x1, x2}
  UserVal = {u}
  NoXmlValue = NoXmlValue
  MaxRec = 3
  Target = {t1, t2}
  Kind = {a, b}
  OneKind = a
  InMax = 1
INVARIANTS ChildOfAgrees HistoryFaithful FreshRead NumbersOnce TranslationsAgree
           ValidatedExactly
PROPERTIES SavedIsShown NoLostUpdate DeletesExactly UserValuesKept
CHECK_DEADLOCK FALSE
