CONSTANTS
    Proc = {p1, p2, p3}
    Session = {s1, s2}
    NoFile = NoFile
    Unreadable = Unreadable
SPECIFICATION Spec
SYMMETRY Symmetry
CHECK_DEADLOCK FALSE
INVARIANTS
    LockStands
PROPERTIES
    RefusedBehindOwner
