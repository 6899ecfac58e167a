SPECIFICATION ImportSpec
CONSTANTS
  Field = {f1}
  XmlVal = {x1, x2}
  UserVal = {u}
  NoXmlValue = NoXmlValue
  f1 = f1
  x1 = x1
  x2 = x2
  u = u
PROPERTIES UpdateApplied
CHECK_DEADLOCK FALSE
