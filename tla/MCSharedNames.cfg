SPECIFICATION Spec
CONSTANTS
    Cursors = {c1, c2}
    UserNames = {r1}
    Names = {c1, c2, r1}
    Writes = {w1, w2}
    Faults = {"operational", "lost", "binding"}
    ExecuteKinds = {"select", "direct", "write", "begin", "begin_level", "commit", "rollback"}
    ParamsKinds = {"select", "direct", "write", "begin"}
    AutocommitKinds = {"select", "direct", "write", "commit", "rollback"}
SYMMETRY Symmetry
CHECK_DEADLOCK FALSE
INVARIANTS
    TransactionTracked
    Recoverable
    PortalsOwned
PROPERTIES
    DurableOnlyByCommit
    StatementsInTransaction
