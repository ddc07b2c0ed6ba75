SPECIFICATION Spec
CONSTANTS
  None = None
  Absent = Absent
  f = f
  g = g
  l = l
  Client = {c1}
  Content = {f, g}
  Local = {l}
  Remote = {}
  Value = {v1, v2}
  MaxEdits = 5
  MaxFacts = 1
  MaxReads = 1
  MaxFaults = 0
  MaxEvents = 7
INVARIANTS EditsKept
ACTION_CONSTRAINT Quiet
CHECK_DEADLOCK FALSE
