SPECIFICATION Spec
CONSTANTS
  Channel = {"mailbox"}
  WebChannels = {}
  DoProcessing = {"mailbox"}
  Mail = {"reply", "named"}
  Class <- MCClass
  Box <- MCBox
  Page = "content"
  Processor = {"external"}
  Kind <- MCKind
  Owner <- MCOwner
  Worker = {w1, w2}
  Idle = "idle"
  MaxRows = 5
  MaxPages = 0
  MaxComments = 3
  MaxCrashes = 0
INVARIANTS
  UntouchedIsNew
