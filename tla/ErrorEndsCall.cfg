SPECIFICATION Spec
CONSTANTS
  None = None
  Unary = {}
  Stream = {s1}
  Duplex = {}
  MaxBatches = 2
  Credit = 1
  InputCredit = 2
  MaxEvents = 1
  MaxRequest = 2
  MaxResponse = 1
  MaxPending = 2
  MaxActive = 1
  InputDepth = 1
  RingLimit = 1
  MaxItems = 3
  MaxSends = 2
  ReverseUnary = {}
  ReverseStream = {}
  ReverseCredit = 2
  MaxReverse = 1
  MaxIncoming = 1
  MaxBuffered = 1
  MaxYields = 3
INVARIANTS ErrorEndsCall
CHECK_DEADLOCK FALSE
