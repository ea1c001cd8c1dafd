SPECIFICATION Spec
CONSTANTS
    Names = {a, b}
    MaxChanges = 4
    Absent = Absent

    INVARIANT NoDanglingName
CHECK_DEADLOCK FALSE
