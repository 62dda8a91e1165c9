SPECIFICATION Spec
CONSTANTS
  Operations = {o1}
  ProviderCount = 3
  Threshold = 2
  Versions = {v1, v2}
  MaxRecords = 1
  Absent = Absent
  Open = Open
  Nothing = Nothing
  Callers = {p1, p2}
  NoOperation = NoOperation
INVARIANT LeftoversRemovable
