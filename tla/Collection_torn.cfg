SPECIFICATION Spec
CONSTANTS
    s1 = s1
    Subjects = {}
    NoSubject = NoSubject
    Absent = Absent
    MinCluster = 2
    Tags = {FALSE}
    ImportRows = {}
    Ops <- VersionOps
    CrashAt <- Everywhere
    TornWrites = TRUE
    MaxId = 3
    MaxHits = 1
    MaxLog = 3
    MaxSeg = 1
    MaxDue = 1
INVARIANTS
    RecoversExactly
