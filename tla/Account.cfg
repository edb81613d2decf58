SPECIFICATION FairSpec
CONSTANTS
    w1 = w1
    w2 = w2
    old = old
    new = new
    t1 = t1
    None = None
    Worker = {w1, w2}
    Password = {old, new}
    First = old
    Token = {t1}
    Limits = {1, 3}
    MaxChanges = 2
    MaxCrashes = 1
INVARIANT TypeOK
INVARIANT LockCounts
INVARIANT ChosenPasswordFits
INVARIANT TokenUsedOnce
PROPERTY LockedInTheEnd
