SPECIFICATION Spec
CONSTANTS
    p1 = p1
    p2 = p2
    Procs = {p1, p2}
    Cols = {"a", "b"}
    Absent = Absent
    KeepHandles = FALSE
    Jobs = {"backup", "export", "verify", "import"}
    Files <- OneRowEach
    Writers = {"remember", "checkpoint"}
    MaxObj = 2
    MaxId = 1
    MaxSeg = 2
SYMMETRY ProcSymmetry
INVARIANTS
    TypeOK
    OneWriter
    AckedKept
    MemoryCurrent
    UniqueIds
    CopyComplete
    VerifyHonest
    ImportComplete
