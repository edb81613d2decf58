SPECIFICATION Spec
CONSTANTS
    Obj = {o1, o2, o3}
    MaxDepth = 3
    MaxSaves = 5
    Ops = {"insert", "update", "delete"}
    Faults = {"sql"}
INVARIANTS
    NothingOpenAtRest
PROPERTIES
    ImplementsAtomicSave
