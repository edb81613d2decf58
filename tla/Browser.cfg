SPECIFICATION Spec
CONSTANTS
    p1 = p1
    p2 = p2
    p3 = p3
    s1 = s1
    s2 = s2
    Page = {p1, p2, p3}
    Session = {s1, s2}
    SessionOf <- MCSessionOf
    MaxRequests = 4
    Openings <- MCOpenings
    a = a
    b = b
    big = big
    f1 = f1
    f2 = f2
    f3 = f3
    c1 = c1
    c2 = c2
    o1 = o1
    o2 = o2
    Tab = {a, b}
    File = {big, f1, f2, f3}
    Size <- MCSize
    Content <- MCContent
    ParentOf <- MCParentOf
    Selection <- MCSelection
    Chunk = 1
    MaxRead = 2
    Parallel = 2
    MaxRetries = 2
    PageSize = 2
    plain = plain
    numbered = numbered
    marked = marked
    TagText = {plain, numbered, marked}
    MaxTagId = 3
    FirstTags <- MCFirstTags
    LeadingInt <- MCLeadingInt
    Finds <- MCFinds
    admin = admin
    other = other
    User = {admin, other}
    Admin = {admin}
INVARIANTS
    BrowserTypeOK
    CountedIsWhole
    FailureCleansUp
    CountedIsAttached
    OneAttachmentPerTab
    StoredSecretIsOnPhone
    MfaIsAsTold
    ModalIsStored
    ContainerIsStored
    OneTagPerSession
    StarIsWrongWhenOdd
    RunningPerSession
    WidgetTruth
    KeyIsForItsUser
PROPERTIES
    SubmissionEnds
    KeysGoForward
CHECK_DEADLOCK FALSE
