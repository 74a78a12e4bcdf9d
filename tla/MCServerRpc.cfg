CONSTANTS
    Task = {t1, t2, t3, t4}
    MaxTasks = 2
    Conn = {c1, c2}
    Req = {r1, r2, r3, r4}
    NoReq = NoReq
    NoTask = NoTask
    Session = {s1}
    NoSession = NoSession
    MaxQueued = 2
SPECIFICATION Spec
SYMMETRY Symmetry
CHECK_DEADLOCK FALSE
INVARIANTS
    CounterMatchesQueues
    SerialPerConnection
    LiveTasksOwned
    PositionsAccurate
    OutcomeAgrees
    RpcInv
PROPERTIES
    NothingAfterAbort
