SPECIFICATION Spec
CONSTANTS
    s1 = s1
    Subjects = {s1}
    NoSubject = NoSubject
    Absent = Absent
    MinCluster = 2
    Tags = {FALSE}
    ImportRows = {}
    Ops <- KeepWalOps
    CrashAt <- Everywhere
    TornWrites = FALSE
    MaxId = 3
    MaxHits = 1
    MaxLog = 2
    MaxSeg = 1
    MaxDue = 1
INVARIANTS
    RecoversExactly
