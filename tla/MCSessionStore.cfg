CONSTANTS
    Proc = {p1, p2}
    Session = {s1, s2}
    Turn = {t1}
    Missing = Missing
    MaxSaves = 3
SPECIFICATION Spec
SYMMETRY Symmetry
CHECK_DEADLOCK FALSE
PROPERTIES
    LossHasACause
    ImplementsTable
