SPECIFICATION ServedSpec
CONSTANTS
    Task = {t1}
    Terminal = {h1}
    Gate = {g1}
    Question = {q1}
    Answer = {"yes", "no"}
    Call = {c1, c2}
    Updates = {"failed"}
    Commands = {"dispatch", "worker-start", "worker-abandon", "reset"}
    MaxDispatch = 1
    MaxEpoch = 1
    FailureLimit = 2
    None = None
INVARIANTS ClosedMeansSettled NoLostAnswer
PROPERTIES AskEnds
CHECK_DEADLOCK FALSE
