CONSTANTS
    Task = {t1, t2, t3, t4}
    MaxTasks = 2
SPECIFICATION RegistrySpec
SYMMETRY Symmetry
INVARIANTS
    OverOnlyWhileLive
PROPERTIES
    OldestEvictedFirst
    ImplementsContract
