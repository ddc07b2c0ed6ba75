SPECIFICATION ServedSpec
CONSTANTS
  h1 = h1
  h2 = h2
  p1 = p1
  p2 = p2
  Run = {r1}
  Handle = {h1}
  Pane = {p1}
  PaneOf <- OnePane
  Call = {c1, c2}
  Type = {"status", "heartbeat"}
  Asks <- FilteredAsks
  DeliveryId = {d1}
  MaxSeq = 2
  MaxGen = 2
  FetchLimit = 1
  LookLimit = 1
  None = None
INVARIANTS NoLostWakeup OldestFirst
PROPERTIES MailWakesWaiter
