SPECIFICATION Spec
CONSTANTS
  None = None
  Absent = Absent
  Client = {c1}
  Content = {f}
  Local = {l}
  Remote = {p}
  Value = {v1, v2}
  MaxEdits = 2
  MaxFacts = 1
  MaxReads = 1
  MaxFaults = 1
  MaxEvents = 4
INVARIANTS TypeOK SavedIsDurable PendingIsAttended RestMeansCurrent
ACTION_CONSTRAINT StaysSmall
CHECK_DEADLOCK FALSE
SYMMETRY Symmetry
