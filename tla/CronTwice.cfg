CONSTANTS
    MaxJobs = 1
    Kinds = {"at"}
    Tasks = {t1, t2}
    Runners = {}
    MaxOrphans = 1
    DiskFaults = {}
SPECIFICATION Spec
INVARIANTS
    OneTimeOnce
