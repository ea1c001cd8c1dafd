SPECIFICATION Spec
CONSTANTS
    Instances = {"i1", "i2"}
    Secrets = {"k1"}
    Goroutines = {g1, g2}
    MaxChanges = 3
    Absent = Absent
CHECK_DEADLOCK FALSE
INVARIANT OwnInstanceScaled
