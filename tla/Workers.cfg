SPECIFICATION Spec
ACTION_CONSTRAINT StaysSmall
CONSTANTS
    Task = {t1, t2, t3}
    Terminal = {h1}
    Gate = {}
    Question = {}
    Answer = {"yes", "no"}
    Call = {c1, c2}
    Updates = {"completed"}
    Commands = {"dispatch", "worker-start", "worker-stop", "worker-show", "worker-abandon"}
    MaxDispatch = 2
    MaxEpoch = 2
    FailureLimit = 2
    None = None
SYMMETRY Interchangeable
INVARIANTS TypeOK DispatchedHasDispatch UnknownIsHonest NoForgottenTask
PROPERTIES RevokedNeverReports
CHECK_DEADLOCK FALSE
