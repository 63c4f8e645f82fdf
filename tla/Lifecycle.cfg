SPECIFICATION LifecycleFairSpec
CONSTANTS
  Players = {p1, p2}
  CanAlwaysLogin = {p2}
  ScriptStates = {"NORMAL", "CLOSED"}
  MaxQueue = 2
  None = None
INVARIANT ShutdownSaves
INVARIANT ClosedIsClosed
PROPERTY ShutdownIsFinal
PROPERTY ShutdownExits
CHECK_DEADLOCK FALSE
