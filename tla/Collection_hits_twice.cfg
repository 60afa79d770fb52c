SPECIFICATION Spec
CONSTANTS
    s1 = s1
    Subjects = {}
    NoSubject = NoSubject
    Absent = Absent
    MinCluster = 2
    Tags = {FALSE}
    ImportRows = {}
    Ops <- HitOps
    CrashAt <- OnlyWhenIdle
    TornWrites = FALSE
    MaxId = 3
    MaxHits = 3
    MaxLog = 2
    MaxSeg = 2
    MaxDue = 1
INVARIANTS
    HitsRecovered
