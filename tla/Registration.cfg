SPECIFICATION Spec
CONSTANTS
    Names = {a, b}
    MaxChanges = 2
    Absent = Absent
PROPERTIES
    RegisteredProtected
    RegistrationsIndependent
    RegisteredInTheEnd
    DeletionCompletes
    JobsFollow
CHECK_DEADLOCK FALSE
