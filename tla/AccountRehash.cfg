SPECIFICATION Spec
CONSTANTS
    w1 = w1
    w2 = w2
    old = old
    new = new
    t1 = t1
    None = None
    Worker = {w1, w2}
    Password = {old, new}
    First = old
    Token = {t1}
    Limits = {2}
    MaxChanges = 1
    MaxCrashes = 0
INVARIANT SomePasswordFits
