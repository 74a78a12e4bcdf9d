CONSTANTS
    Path = {f1}
    Small = {a}
    Large = {}
    Huge = {h}
    Absent = Absent
    Call = {1, 2, 3}
    MaxCheckpoints = 1
    MaxOpen = 2
    MaxEdits = 1
SPECIFICATION Spec
CHECK_DEADLOCK FALSE
INVARIANTS
    IdsUnique
    NewestComplete
PROPERTIES
    RestoreSparesOthers
