CONSTANTS
    MaxJobs = 1
    Kinds = {"every"}
    Tasks = {t1}
    Runners = {}
    MaxOrphans = 1
    DiskFaults = {}
SPECIFICATION Spec
INVARIANTS
    DisableStopsTheJob
