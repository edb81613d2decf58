SPECIFICATION Spec
CONSTANTS
    Obj = {o1, o2}
    MaxDepth = 2
    MaxSaves = 3
    Ops = {"insert", "update", "delete"}
    Faults = {"sql", "hook"}
INVARIANTS
    TrueMeansStored
