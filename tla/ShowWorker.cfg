SPECIFICATION Spec
CONSTANTS
    Task = {t1}
    Terminal = {h1}
    Gate = {}
    Question = {}
    Answer = {"yes", "no"}
    Call = {c1, c2}
    Updates = {}
    Commands = {"worker-start", "worker-show", "worker-abandon"}
    MaxDispatch = 1
    MaxEpoch = 2
    FailureLimit = 2
    None = None
SYMMETRY Interchangeable
PROPERTIES ShowUnsettlesNobody
CHECK_DEADLOCK FALSE
