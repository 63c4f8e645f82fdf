SPECIFICATION Spec
CONSTANTS
  Protocols = {p1, p2}
  Client = p1
  Capacity = 2
  MaxPackets = 3
  MaxEvents = 2
  MaxReads = 2
INVARIANT GracefulCloseSendsAll
INVARIANT PacketsInOrder
PROPERTY SilentClientIsCut
PROPERTY BufferIsSent
CHECK_DEADLOCK FALSE
