SPECIFICATION Spec
CONSTANTS
    Cursors = {c1}
    UserNames = {}
    Names = {c1}
    Writes = {w1, w2}
    Faults = {"integrity"}
    ExecuteKinds = {"write"}
    ParamsKinds = {}
    AutocommitKinds = {}
CHECK_DEADLOCK FALSE
PROPERTY CommitDurable
