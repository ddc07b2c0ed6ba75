SPECIFICATION Spec
CONSTANTS
  None = None
  Absent = Absent
  Client = {c1, c2}
  Content = {f, g}
  Local = {}
  Remote = {}
  Value = {v1}
  MaxEdits = 3
  MaxFacts = 0
  MaxReads = 0
  MaxFaults = 0
  MaxEvents = 3
PROPERTIES UntouchedKept
CHECK_DEADLOCK FALSE
