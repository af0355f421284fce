SPECIFICATION Spec
CONSTANTS
    Cursors = {c1, c2}
    UserNames = {}
    Names = {c1, c2}
    Writes = {w1, w2}
    Faults = {"operational", "integrity", "lost"}
    ExecuteKinds = {"select", "direct", "write", "begin", "begin_level", "commit", "rollback"}
    ParamsKinds = {"select", "direct", "write", "begin"}
    AutocommitKinds = {"select", "direct", "write", "commit", "rollback"}
SYMMETRY Symmetry
CHECK_DEADLOCK FALSE
INVARIANTS
    TypeOK
    TransactionTracked
    Recoverable
    PortalsOwned
    PortalBacked
PROPERTIES
    DurableOnlyByCommit
    LossReported
