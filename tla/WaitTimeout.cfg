SPECIFICATION TimedSpec
CONSTANTS
  h1 = h1
  h2 = h2
  p1 = p1
  p2 = p2
  Run = {r1}
  Handle = {h1, h2}
  Pane = {p1, p2}
  PaneOf <- TwoPanes
  Call = {c1, c2}
  Type = {"status"}
  Asks <- WaitAsks
  DeliveryId = {d1}
  MaxSeq = 1
  MaxGen = 2
  FetchLimit = 1
  LookLimit = 1
  None = None
PROPERTIES WaitEnds
