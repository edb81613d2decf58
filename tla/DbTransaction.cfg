SPECIFICATION Spec
CONSTANTS
    Obj = {o1, o2}
    MaxDepth = 3
    MaxSaves = 5
    Ops = {"insert", "update", "delete", "unit"}
    Faults = {"sql", "hook", "invalid", "statement", "error"}
INVARIANTS
    TypeOK
    TokenOwnsTransaction
    ReportedSaveIsKept
PROPERTIES
    DurableOnlyAtTheEnd
