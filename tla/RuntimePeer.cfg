SPECIFICATION MCSpec
CONSTANTS
  None = None
  Unary = {u1}
  Stream = {s1}
  Duplex = {d1}
  MaxBatches = 2
  Credit = 1
  InputCredit = 2
  MaxEvents = 1
  MaxRequest = 2
  MaxResponse = 1
  MaxPending = 2
  MaxActive = 1
  InputDepth = 1
  RingLimit = 1
  MaxItems = 2
  MaxSends = 2
  ReverseUnary = {q1, q2}
  ReverseStream = {w1}
  ReverseCredit = 2
  MaxReverse = 1
  MaxIncoming = 1
  MaxBuffered = 1
  MaxYields = 3
INVARIANTS PeerTypeOK CreditConserved CompleteMeansAll BudgetsExact InputEndMeansAll ReverseTypeOK ReverseAgreed RetiredIsAnswered ReverseCompleteMeansAll ReverseCreditConserved
PROPERTIES LateFramesTolerated SendsSettle
CHECK_DEADLOCK FALSE
