CONSTANTS
    Task = {t1, t2, t3, t4}
    MaxTasks = 2
    Conn = {c1}
    Req = {r1, r2, r3, r4}
    NoReq = NoReq
    NoTask = NoTask
    Session = {s1}
    NoSession = NoSession
    MaxQueued = 2
SPECIFICATION Spec
CHECK_DEADLOCK FALSE
PROPERTIES
    ServesInLine
    EveryTaskEnds
