SPECIFICATION FairSpec
CONSTANTS
    s1 = s1
    Subjects = {s1}
    NoSubject = NoSubject
    Absent = Absent
    MinCluster = 2
    Tags = {FALSE}
    ImportRows = {}
    Ops <- UninterruptedOps
    CrashAt <- Uninterrupted
    TornWrites = FALSE
    MaxId = 4
    MaxHits = 2
    MaxLog = 3
    MaxSeg = 1
    MaxDue = 1
INVARIANTS
    HitsRecovered
    ArchivedHasSummary
    OneLiveVersion
PROPERTIES
    LockReleased
