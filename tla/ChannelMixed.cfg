SPECIFICATION FairSpec
CONSTANTS
  Channel = {"mailbox", "page"}
  WebChannels = {"page"}
  DoProcessing = {"page"}
  Mail = {"reply", "orphan", "fresh"}
  Class <- MCClass
  Box <- MCBox
  Page = "content"
  Processor = {"test", "ticketWeb"}
  Kind <- MCKind
  Owner <- MCOwner
  Worker = {w1}
  Idle = "idle"
  MaxRows = 5
  MaxPages = 1
  MaxComments = 3
  MaxCrashes = 1
INVARIANTS
  OneComment
PROPERTIES
  AnswersArrive
