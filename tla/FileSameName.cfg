SPECIFICATION Spec
CONSTANTS
    w1 = w1
    w2 = w2
    local = local
    s3 = s3
    p1 = p1
    p2 = p2
    c1 = c1
    c2 = c2
    Empty = Empty
    None = None
    Worker = {w1, w2}
    Adapter = {local, s3}
    Active = local
    Path = {p1, p2}
    Content = {c1, c2}
    Ways = {"upload", "save"}
    MaxRows = 2
    MaxOps = 0
    MaxCrashes = 0
SYMMETRY Symmetry
INVARIANT KeepsContent
CHECK_DEADLOCK FALSE
