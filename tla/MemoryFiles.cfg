CONSTANTS
    x = x
    y = y
    NoFile = NoFile
    Words = {x, y}
    MaxLength = 2
    MaxOthers = 1
    Faults = {"write", "read"}
    KeepCount = 1
    MaxMessages = 3
    Blank = {2}
    MaxFailures = 1
    MaxCrashes = 1
SPECIFICATION Spec
INVARIANTS
    TypeOK
    Accounted
    RepeatsBounded
PROPERTIES
    EditExact
CHECK_DEADLOCK FALSE
