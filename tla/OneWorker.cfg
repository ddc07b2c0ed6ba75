SPECIFICATION Spec
CONSTANTS
    Task = {t1}
    Terminal = {h1, h2}
    Gate = {}
    Question = {}
    Answer = {"yes", "no"}
    Call = {c1, c2}
    Updates = {}
    Commands = {"dispatch"}
    MaxDispatch = 2
    MaxEpoch = 1
    FailureLimit = 2
    None = None
SYMMETRY Interchangeable
INVARIANTS OneActiveDispatch
CHECK_DEADLOCK FALSE
