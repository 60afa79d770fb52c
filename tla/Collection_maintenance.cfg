SPECIFICATION Spec
CONSTANTS
    s1 = s1
    Subjects = {s1}
    NoSubject = NoSubject
    Absent = Absent
    MinCluster = 2
    Tags = {FALSE}
    ImportRows = {}
    Ops <- MaintenanceOps
    CrashAt <- Everywhere
    TornWrites = FALSE
    MaxId = 3
    MaxHits = 1
    MaxLog = 3
    MaxSeg = 2
    MaxDue = 1
INVARIANTS
    TypeOK
    NoIdReissued
    OneVersionRecalled
    ListedFilesExist
    RecoversExactly
    SourcesKept
    MapsDisjoint
    SubjectsComplete
PROPERTIES
    ImplementsStore
