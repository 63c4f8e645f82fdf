SPECIFICATION ListSpec
CONSTANTS
  Players = {p1, p2, p3}
  Premium = {p1}
  Exempt = {p3}
  MaxPlayers = 1
  MaxTime = 4
  FarSlot = 5
  ShortRetry = 1
  LongRetry = 2
  Slack = 1
  MaxSize = 4
  SizeMod = 16
PROPERTY StaleIsDropped
CHECK_DEADLOCK FALSE
