SPECIFICATION Spec
CONSTANTS
  h1 = h1
  h2 = h2
  p1 = p1
  p2 = p2
  Run = {r1, r2}
  Handle = {h1, h2}
  Pane = {p1, p2}
  PaneOf <- TwoPanes
  Call = {c1, c2}
  Type = {"status"}
  Asks <- PlainAsks
  DeliveryId = {d1}
  MaxSeq = 2
  MaxGen = 2
  FetchLimit = 1
  LookLimit = 1
  None = None
PROPERTIES EmptyMeansNoMail
SYMMETRY Interchangeable
