SPECIFICATION Spec
CONSTANTS
  Channel = {"mailbox"}
  WebChannels = {}
  DoProcessing = {"mailbox"}
  Mail = {"reply"}
  Class <- MCClass
  Box <- MCBox
  Page = "content"
  Processor = {"ticket", "external"}
  Kind <- MCKind
  Owner <- MCOwner
  Worker = {w1, w2}
  Idle = "idle"
  MaxRows = 3
  MaxPages = 0
  MaxComments = 3
  MaxCrashes = 1
INVARIANTS
  TypeOK
  SeenIsStored
  StatusMeansComment
  OneComment
