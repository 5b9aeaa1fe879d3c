CONSTANTS
    MaxJobs = 2
    Kinds = {"at"}
    Tasks = {t1}
    Runners = {r1}
    MaxOrphans = 0
    DiskFaults = {"crash"}
SPECIFICATION Spec
INVARIANTS
    TypeOK
    AcceptedDurable
    RemovedStaysGone
    DiskAgrees
    EnabledIsScheduled
