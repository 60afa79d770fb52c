SPECIFICATION Spec
CONSTANTS
    p1 = p1
    p2 = p2
    Procs = {p1, p2}
    Cols = {"main"}
    Absent = Absent
    KeepHandles = TRUE
    Jobs = {"backup", "export"}
    Files <- OneRowEach
    Writers = {"remember", "checkpoint"}
    MaxObj = 2
    MaxId = 2
    MaxSeg = 3
SYMMETRY ProcSymmetry
INVARIANTS
    OneWriter
