SPECIFICATION Spec
ACTION_CONSTRAINT StaysSmall
CONSTANTS
  h1 = h1
  h2 = h2
  p1 = p1
  p2 = p2
  Run = {r1, r2}
  Handle = {h1, h2}
  Pane = {p1, p2}
  PaneOf <- TwoPanes
  Call = {c1, c2}
  Type = {"status"}
  Asks <- WaitAsks
  DeliveryId = {d1, d2}
  MaxSeq = 2
  MaxGen = 3
  FetchLimit = 1
  LookLimit = 1
  None = None
INVARIANTS TypeOK ExclusiveDelivery AckedMailWasHanded OneRunPerPane OutstandingIsCurrent
PROPERTIES ImplementsLease
SYMMETRY Interchangeable
