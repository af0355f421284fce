SPECIFICATION Spec
CONSTANTS
    Cursors = {c1, c2}
    UserNames = {r1}
    Names = {c1, c2, r1}
    Writes = {w1}
    Faults = {"operational", "integrity", "internal", "lost", "notice", "binding"}
    ExecuteKinds = {"select", "direct", "write", "begin", "begin_level", "commit", "rollback"}
    ParamsKinds = {"select", "direct", "write", "begin", "begin_level", "commit", "rollback"}
    AutocommitKinds = {"select", "direct", "write", "begin", "begin_level", "commit", "rollback"}
SYMMETRY Symmetry
CHECK_DEADLOCK FALSE
INVARIANT
    AutocommitExclusive
