SPECIFICATION Spec
CONSTANTS
    s1 = s1
    Subjects = {s1}
    NoSubject = NoSubject
    Absent = Absent
    MinCluster = 2
    Tags = {FALSE}
    ImportRows <- OneRow
    Ops <- KeepWalOps
    CrashAt <- ButRenamed
    TornWrites = FALSE
    MaxId = 3
    MaxHits = 1
    MaxLog = 2
    MaxSeg = 2
    MaxDue = 1
INVARIANTS
    ListedFilesExist
    RecoversExactly
    MapsDisjoint
    SubjectsComplete
    NoIdReissued
