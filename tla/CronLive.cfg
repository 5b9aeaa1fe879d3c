CONSTANTS
    MaxJobs = 1
    Kinds = {"at", "keep", "every", "bad"}
    Tasks = {t1, t2}
    Runners = {}
    MaxOrphans = 1
    DiskFaults = {"crash", "error", "read"}
SPECIFICATION FairSpec
INVARIANTS
    AtRunsOnce
    DisabledNotArmed
    AcceptedDurable
    RemovedStaysGone
    DiskAgrees
PROPERTIES
    ImplementsReminders
    OneTimeRuns
    PublishedIsRemoved
